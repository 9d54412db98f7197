-------------------------- MODULE SecretEditProofs --------------------------
(***************************************************************************)
(* The editing of a secret, for any keys, values, calls and retries.       *)
(*                                                                         *)
(* The inductive invariant has one part for each that acts: the cluster    *)
(* (StoreOK), the panel (PanelOK: each row holds a string of the mode the  *)
(* tab is in) and the calls (CallOK: what a call carries was built from    *)
(* such rows, and what it will write keeps a key).                         *)
(***************************************************************************)
EXTENDS SecretEdit, TLAPS

\* No key of the data is garbled.
Clean(data) == \A k \in Keys : data[k] # Garbled

\* A string that is stored for what it is.
Fits(s, m) == s.of # Garbled /\ (m = "transparent" => s.as = "text")

StoreOK == store \in Version /\ (store.data # None => Clean(store.data))

RowsFit ==
    shown = "open" /\ tab = "edit" =>
        /\ \A k \in Keys :
              /\ old[k] = None <=> detail[k] = None
              /\ old[k] # None => Locked(k, mode) \/ Fits(old[k].value, mode)
        /\ \A i \in DOMAIN extra : Fits(extra[i].value, mode)

PanelOK ==
    /\ mode \in Modes
    /\ shown \in {"closed", "listing", "open", "broken"}
    /\ detail \in Data
    /\ tab \in {"view", "edit", "yaml"}
    /\ old \in [Keys -> OldRows \union {None}]
    /\ extra \in Seq(NewRows)
    /\ reviewed \in Listing \union {None}
    /\ saving \in Jobs \union {None}
    /\ yaml \in Data \union {None}
    /\ applying \in Jobs \union {None}
    /\ acts \in 0..MaxActs
    /\ Clean(detail) /\ (yaml # None => Clean(yaml))
    /\ RowsFit

\* What a save carries fits its mode and makes of the data the panel read what
\* the rows show; what it read and is about to write keeps a key.
CallOK(c) ==
    /\ c \in Calls
    /\ Clean(c.manifest)
    /\ c.pc = "confirm" => c.kind \in {"replace", "delete"}
    /\ c.kind = "save" /\ c.pc \in {"get", "update"} =>
          /\ \A k \in Keys : c.changes.set[k] # None => Fits(c.changes.set[k], c.mode)
          /\ Changed(c.base, c.changes, c.mode) = c.wanted
    /\ c.kind = "save" /\ c.pc = "update" =>
          /\ c.got.data \in Data /\ Clean(c.got.data)
          /\ Changed(c.got.data, c.changes, c.mode) # NoData

CallsOK == job \in [Jobs -> Calls] /\ \A j \in Jobs : CallOK(job[j])

IInv == StoreOK /\ PanelOK /\ CallsOK

-----------------------------------------------------------------------------
\* The operators.

LEMMA ShownString ==
    ASSUME NEW v \in Values, NEW m \in Modes
    PROVE  Shown(v, m) \in Strings /\ Shown(v, m).of = v
BY DEF Shown, Strings, Modes

\* What is stored for a string is a value, and the value it shows if it fits.
LEMMA EncodedString ==
    ASSUME NEW s \in Strings, NEW m \in Modes
    PROVE  /\ Encoded(s, m) \in Values \union {None}
           /\ Fits(s, m) => Encoded(s, m) # Garbled
BY SecretEditAssumption DEF Encoded, Strings, Values, Fits, Modes

\* The round trip: what is shown of a value is stored as that value, unless
\* it is a note.
LEMMA RoundTrip ==
    ASSUME NEW v \in Values, NEW m \in Modes, ~(v \in Binaries /\ m = "transparent")
    PROVE  Encoded(Shown(v, m), m) = v
BY DEF Encoded, Shown, Modes

LEMMA ChangedData ==
    ASSUME NEW data \in Data, NEW c \in Changes, NEW m \in Modes
    PROVE  /\ Changed(data, c, m) \in Data
           /\ Clean(data) /\ (\A k \in Keys : c.set[k] # None => Fits(c.set[k], m))
                => Clean(Changed(data, c, m))
<1>1. ASSUME NEW k \in Keys, c.set[k] # None
      PROVE  /\ Encoded(c.set[k], m) \in Values \union {None}
             /\ Fits(c.set[k], m) => Encoded(c.set[k], m) # Garbled
  BY <1>1, EncodedString DEF Changes
<1>2. Changed(data, c, m) \in Data
  BY <1>1 DEF Changed, Data
<1>3. ASSUME Clean(data), \A k \in Keys : c.set[k] # None => Fits(c.set[k], m)
      PROVE  Clean(Changed(data, c, m))
  BY <1>1, <1>3, SecretEditAssumption DEF Clean, Changed
<1> QED BY <1>2, <1>3

\* The rows of a draft seeded in a mode fit it.
LEMMA Seeded ==
    ASSUME detail \in Data, Clean(detail), NEW m \in Modes, SeedRows(m)
    PROVE  /\ old' \in [Keys -> OldRows \union {None}]
           /\ extra' \in Seq(NewRows) /\ DOMAIN extra' = {}
           /\ \A k \in Keys : /\ old'[k] = None <=> detail[k] = None
                              /\ old'[k] # None => Locked(k, m) \/ Fits(old'[k].value, m)
<1>1. ASSUME NEW k \in Keys, detail[k] # None
      PROVE  /\ Shown(detail[k], m) \in Strings
             /\ old'[k] = [value |-> Shown(detail[k], m), deleted |-> FALSE]
             /\ old'[k] \in OldRows
             /\ Locked(k, m) \/ Fits(old'[k].value, m)
  <2>1. detail[k] \in Values /\ detail[k] # Garbled BY <1>1 DEF Data, Clean
  <2>2. Shown(detail[k], m) \in Strings BY <2>1, ShownString
  <2>3. old'[k] = [value |-> Shown(detail[k], m), deleted |-> FALSE] BY <1>1 DEF SeedRows
  <2>4. Locked(k, m) \/ Fits(Shown(detail[k], m), m)
    BY <2>1 DEF Locked, Fits, Shown, Modes
  <2> QED BY <2>2, <2>3, <2>4 DEF OldRows
<1>2. \A k \in Keys : detail[k] = None => old'[k] = None BY DEF SeedRows
<1>3. extra' \in Seq(NewRows) /\ DOMAIN extra' = {} BY DEF SeedRows
<1>4. \A k \in Keys : old'[k] \in OldRows \union {None} BY <1>1, <1>2
<1>5. old' = [k \in Keys |-> old'[k]] BY DEF SeedRows
<1> QED BY <1>1, <1>2, <1>3, <1>4, <1>5, SecretEditAssumption

\* The changes built from the rows fit the mode, and applied to the data the
\* panel read they give what the rows show.
LEMMA Built ==
    ASSUME PanelOK, shown = "open", tab = "edit"
    PROVE  /\ BuildChanges \in Changes /\ DraftData \in Data
           /\ \A k \in Keys : BuildChanges.set[k] # None => Fits(BuildChanges.set[k], mode)
           /\ Changed(detail, BuildChanges, mode) = DraftData
<1>1. mode \in Modes /\ detail \in Data /\ old \in [Keys -> OldRows \union {None}]
      /\ extra \in Seq(NewRows)
  BY DEF PanelOK
<1>2. ASSUME NEW k \in Keys, Added(k)
      PROVE  AddedValue(k) \in Strings /\ Fits(AddedValue(k), mode) /\ AddedValue(k) # None
  <2> DEFINE i == CHOOSE i \in NewKeys : LastFor(k, i)
  <2>1. i \in NewKeys BY <1>2 DEF Added
  <2>2. i \in DOMAIN extra /\ extra[i] \in NewRows BY <1>1, <2>1 DEF NewKeys
  <2>3. extra[i].value \in Strings BY <2>2 DEF NewRows
  <2>4. Fits(extra[i].value, mode) BY <2>2 DEF PanelOK, RowsFit
  <2> QED BY <2>3, <2>4, SecretEditAssumption DEF AddedValue
<1>3. ASSUME NEW k \in KeptRows
      PROVE  /\ old[k] \in OldRows /\ old[k].value \in Strings /\ detail[k] \in Values
             /\ old[k].value # None
             /\ Locked(k, mode) \/ Fits(old[k].value, mode)
  <2>1. k \in Keys /\ old[k] # None BY DEF KeptRows
  <2>2. old[k] \in OldRows /\ detail[k] # None BY <1>1, <2>1 DEF PanelOK, RowsFit
  <2>3. old[k].value \in Strings BY <2>2 DEF OldRows
  <2>4. Locked(k, mode) \/ Fits(old[k].value, mode) BY <2>1 DEF PanelOK, RowsFit
  <2>5. detail[k] \in Values BY <1>1, <2>1, <2>2 DEF Data
  <2> QED BY <2>2, <2>3, <2>4, <2>5, SecretEditAssumption
<1>4. ASSUME NEW k \in Keys
      PROVE  BuildChanges.set[k] = IF Added(k) THEN AddedValue(k)
                                   ELSE IF Edited(k) THEN old[k].value ELSE None
  BY DEF BuildChanges
<1>5. BuildChanges.delete = {k \in Keys : old[k] # None /\ old[k].deleted} BY DEF BuildChanges
<1>6. ASSUME NEW k \in Keys
      PROVE  /\ BuildChanges.set[k] \in Strings \union {None}
             /\ BuildChanges.set[k] # None => Fits(BuildChanges.set[k], mode)
  BY <1>2, <1>3, <1>4 DEF Edited
<1>7. BuildChanges \in Changes
  <2>1. BuildChanges.set \in [Keys -> Strings \union {None}] BY <1>6 DEF BuildChanges
  <2> QED BY <2>1 DEF BuildChanges, Changes
<1>8. ASSUME NEW k \in Keys
      PROVE  DraftData[k] \in Values \union {None} /\ Changed(detail, BuildChanges, mode)[k] = DraftData[k]
  <2>1. CASE Added(k)
    <3>1. DraftData[k] = Encoded(AddedValue(k), mode) BY <2>1 DEF DraftData
    <3>2. BuildChanges.set[k] = AddedValue(k) BY <1>4, <2>1
    <3> QED BY <1>1, <1>2, <2>1, <3>1, <3>2, EncodedString DEF Changed
  <2>2. CASE ~Added(k) /\ k \notin KeptRows
    <3>1. DraftData[k] = None /\ BuildChanges.set[k] = None
      BY <1>4, <2>2 DEF DraftData, Edited
    <3>2. CASE old[k] = None
      <4>1. detail[k] = None /\ k \notin BuildChanges.delete
        BY <1>5, <3>2 DEF PanelOK, RowsFit
      <4> QED BY <3>1, <4>1 DEF Changed
    <3>3. CASE old[k] # None
      <4>1. k \in BuildChanges.delete BY <1>5, <2>2, <3>3 DEF KeptRows
      <4> QED BY <3>1, <4>1 DEF Changed
    <3> QED BY <3>2, <3>3
  <2>3. CASE ~Added(k) /\ k \in KeptRows
    <3>1. k \notin BuildChanges.delete BY <1>5, <2>3 DEF KeptRows
    <3>2. CASE Locked(k, mode)
      <4>1. BuildChanges.set[k] = None BY <1>4, <2>3, <3>2 DEF Edited
      <4>2. DraftData[k] = detail[k] BY <2>3, <3>2 DEF DraftData
      <4> QED BY <1>3, <2>3, <3>1, <4>1, <4>2 DEF Changed
    <3>3. CASE ~Locked(k, mode) /\ old[k].value # Shown(detail[k], mode)
      <4>1. BuildChanges.set[k] = old[k].value BY <1>4, <2>3, <3>3 DEF Edited
      <4>2. DraftData[k] = Encoded(old[k].value, mode) BY <2>3, <3>3 DEF DraftData
      <4> QED BY <1>1, <1>3, <2>3, <4>1, <4>2, EncodedString DEF Changed
    <3>4. CASE ~Locked(k, mode) /\ old[k].value = Shown(detail[k], mode)
      <4>1. BuildChanges.set[k] = None BY <1>4, <2>3, <3>4 DEF Edited
      <4>2. DraftData[k] = Encoded(Shown(detail[k], mode), mode)
        BY <2>3, <3>4 DEF DraftData
      <4>3. Encoded(Shown(detail[k], mode), mode) = detail[k]
        BY <1>1, <1>3, <2>3, <3>4, RoundTrip DEF Locked
      <4> QED BY <1>3, <2>3, <3>1, <4>1, <4>2, <4>3 DEF Changed
    <3> QED BY <3>2, <3>3, <3>4
  <2> QED BY <2>1, <2>2, <2>3
<1>9. DraftData \in Data BY <1>8 DEF DraftData, Data
<1>10. Changed(detail, BuildChanges, mode) = DraftData BY <1>8 DEF Changed, DraftData
<1> QED BY <1>6, <1>7, <1>9, <1>10

-----------------------------------------------------------------------------
\* The parts of the invariant, step by step.

LEMMA NoJobOK == NoJob \in Calls /\ CallOK(NoJob)
<1>1. NoData \in Data /\ Clean(NoData) /\ NoChanges \in Changes
  BY SecretEditAssumption DEF NoData, Data, Clean, NoChanges, Changes
<1> QED BY <1>1, SecretEditAssumption DEF NoJob, CallOK, Calls, Modes, Version

LEMMA InitOK == Init => IInv
<1> SUFFICES ASSUME Init PROVE IInv
  OBVIOUS
<1>1. NoData \in Data /\ Clean(NoData)
  BY SecretEditAssumption DEF NoData, Data, Clean
<1>2. StoreOK
  BY SecretEditAssumption DEF Init, StoreOK, Version, Data, Clean, Values
<1>3. PanelOK
  <2>2. old \in [Keys -> OldRows \union {None}] /\ extra \in Seq(NewRows) BY DEF Init
  <2>3. RowsFit BY DEF Init, RowsFit
  <2> QED BY <1>1, <2>2, <2>3, SecretEditAssumption DEF Init, PanelOK
<1>4. NoJob \in Calls /\ CallOK(NoJob) BY NoJobOK
<1>5. CallsOK BY <1>4 DEF Init, CallsOK
<1> QED BY <1>2, <1>3, <1>5 DEF IInv

LEMMA PanelStays ==
    ASSUME PanelOK, UNCHANGED <<mode, panel>>, acts' \in 0..MaxActs
    PROVE  PanelOK'
BY DEF PanelOK, panel, RowsFit, Locked

LEMMA RenewOK ==
    ASSUME PanelOK, NEW there \in {"closed", "listing", "open", "broken"},
           NEW data \in Data, Clean(data), Renew(there, data), UNCHANGED <<mode, acts>>
    PROVE  PanelOK'
<1>1. old' \in [Keys -> OldRows \union {None}] /\ extra' \in Seq(NewRows) BY DEF Renew
<1>2. RowsFit' BY DEF Renew, RowsFit
<1> QED BY <1>1, <1>2 DEF PanelOK, Renew

\* A draft seeded in the mode of the tab.
LEMMA SeedOK ==
    ASSUME PanelOK, SeedRows(mode'), mode' \in Modes, shown' = shown, detail' = detail,
           tab' \in {"view", "edit", "yaml"}, reviewed' \in Listing \union {None},
           saving' = saving, yaml' \in Data \union {None}, yaml' # None => Clean(yaml'),
           applying' = applying, acts' \in 0..MaxActs
    PROVE  PanelOK'
<1>1. detail \in Data /\ Clean(detail) BY DEF PanelOK
<1>2. /\ old' \in [Keys -> OldRows \union {None}]
      /\ extra' \in Seq(NewRows) /\ DOMAIN extra' = {}
      /\ \A k \in Keys : /\ old'[k] = None <=> detail[k] = None
                         /\ old'[k] # None => Locked(k, mode') \/ Fits(old'[k].value, mode')
  BY <1>1, Seeded
<1>3. RowsFit' BY <1>2 DEF RowsFit, Locked
<1> QED BY <1>2, <1>3 DEF PanelOK

LEMMA OneCall ==
    ASSUME CallsOK, NEW j \in Jobs, NEW c, CallOK(c), job' = [job EXCEPT ![j] = c]
    PROVE  CallsOK'
<1>1. c \in Calls BY DEF CallOK
<1>2. \A h \in Jobs : job'[h] = IF h = j THEN c ELSE job[h] BY DEF CallsOK
<1>3. \A h \in Jobs : CallOK(job'[h]) BY <1>2 DEF CallsOK
<1> QED BY <1>1, <1>3 DEF CallsOK

\* A call whose kind, data, changes and reading stay.
LEMMA SameCall ==
    ASSUME NEW c, CallOK(c), NEW d \in Calls,
           d.kind = c.kind, d.manifest = c.manifest,
           d.changes = c.changes, d.mode = c.mode, d.base = c.base, d.wanted = c.wanted,
           (d.pc = c.pc /\ d.got = c.got) \/ d.pc \notin {"confirm", "get", "update"}
    PROVE  CallOK(d)
BY DEF CallOK

LEMMA OrphanedOK ==
    ASSUME CallsOK
    PROVE  Orphaned \in [Jobs -> Calls] /\ \A j \in Jobs : CallOK(Orphaned[j])
<1>1. ASSUME NEW j \in Jobs PROVE Orphaned[j] \in Calls /\ CallOK(Orphaned[j])
  <2> DEFINE c == job[j]
             d == [c EXCEPT !.live = FALSE]
  <2>1. Orphaned[j] = d BY DEF Orphaned
  <2>2. c \in Calls /\ CallOK(c) BY DEF CallsOK
  <2>3. d \in Calls BY <2>2 DEF Calls
  <2>4. /\ d.kind = c.kind /\ d.manifest = c.manifest /\ d.changes = c.changes
        /\ d.mode = c.mode /\ d.base = c.base /\ d.wanted = c.wanted
        /\ d.pc = c.pc /\ d.got = c.got
    BY <2>2 DEF Calls
  <2> HIDE DEF c, d
  <2>5. CallOK(d) BY <2>2, <2>3, <2>4, SameCall
  <2> QED BY <2>1, <2>3, <2>5
<1> QED BY <1>1 DEF Orphaned

LEMMA DoneOK == Done \in Calls /\ CallOK(Done)
<1>1. NoJob \in Calls /\ CallOK(NoJob) BY NoJobOK
<1>2. Done \in Calls /\ Done.pc = "done" BY <1>1 DEF Done, Calls
<1>3. /\ Done.kind = NoJob.kind /\ Done.manifest = NoJob.manifest
      /\ Done.changes = NoJob.changes /\ Done.mode = NoJob.mode
      /\ Done.base = NoJob.base /\ Done.wanted = NoJob.wanted
  BY <1>1 DEF Done, Calls
<1> QED BY <1>1, <1>2, <1>3, SameCall

-----------------------------------------------------------------------------
\* The panel's rows and dialogs keep PanelOK.
LEMMA PanelStep ==
    ASSUME IInv, [Next]_vars
    PROVE  PanelOK'
<1> USE DEF IInv
<1>0. NoData \in Data /\ Clean(NoData)
  BY SecretEditAssumption DEF NoData, Data, Clean
<1>1. CASE Open BY <1>0, <1>1, RenewOK DEF Open
<1>2. CASE Refresh BY <1>0, <1>2, RenewOK DEF Refresh
<1>3. CASE Close BY <1>0, <1>3, RenewOK DEF Close
<1>4. CASE Mount
  <2>1. CASE Renew("closed", NoData) \/ Renew("broken", NoData)
    BY <1>0, <1>4, <2>1, RenewOK DEF Mount
  <2>2. CASE store.data # None /\ Renew("open", store.data)
    <3>1. store.data \in Data /\ Clean(store.data) BY <2>2 DEF StoreOK, Version
    <3> QED BY <1>4, <2>2, <3>1, RenewOK DEF Mount
  <2> QED BY <1>4, <2>1, <2>2 DEF Mount
<1>5. CASE SetMode
  <2>1. mode' \in Modes /\ acts' \in 0..MaxActs
    BY <1>5, SecretEditAssumption DEF SetMode, Modes, Act, PanelOK
  <2>2. yaml' \in Data \union {None} /\ (yaml' # None => Clean(yaml'))
    BY <1>5 DEF SetMode, PanelOK, StoreOK, Version
  <2>3. UNCHANGED <<shown, detail, tab, reviewed, saving, applying>>
        /\ (tab \in {"view", "edit", "yaml"} /\ reviewed \in Listing \union {None})
    BY <1>5 DEF SetMode, PanelOK
  <2>4. CASE shown = "open" /\ tab = "edit"
    <3>1. SeedRows(mode') BY <1>5, <2>4 DEF SetMode
    <3> QED BY <2>1, <2>2, <2>3, <3>1, SeedOK
  <2>5. CASE ~(shown = "open" /\ tab = "edit")
    BY <1>5, <2>1, <2>2, <2>3, <2>5 DEF SetMode, PanelOK, RowsFit
  <2> QED BY <2>4, <2>5
<1>6. CASE EnterEdit
  <2>1. /\ SeedRows(mode') /\ tab' = "edit" /\ reviewed' = None
        /\ UNCHANGED <<mode, shown, detail, saving, yaml, applying, acts>>
    BY <1>6 DEF EnterEdit
  <2> QED BY <2>1, SeedOK DEF PanelOK
<1>7. CASE LeaveEdit BY <1>7 DEF LeaveEdit, PanelOK, RowsFit
<1>8. CASE EditRows
  <2>1. acts' \in 0..MaxActs /\ UNCHANGED <<mode, shown, detail, tab, reviewed, saving, yaml, applying>>
    BY <1>8, SecretEditAssumption DEF EditRows, Act, PanelOK
  <2>2. \A s \in Typed(mode) : s \in Strings /\ Fits(s, mode)
    BY SecretEditAssumption DEF Typed, Strings, Values, Fits, Shown, PanelOK, Modes
  <2>3. CASE \E k \in KeptRows, s \in Typed(mode) :
               ~Locked(k, mode) /\ old' = [old EXCEPT ![k].value = s] /\ UNCHANGED extra
    <3>1. PICK k \in KeptRows, s \in Typed(mode) :
            ~Locked(k, mode) /\ old' = [old EXCEPT ![k].value = s] /\ UNCHANGED extra
      BY <2>3
    <3>2. k \in Keys /\ old[k] # None /\ old[k] \in OldRows BY DEF KeptRows, PanelOK
    <3>3. old'[k] \in OldRows /\ old'[k].value = s
      BY <2>2, <3>1, <3>2 DEF OldRows, PanelOK
    <3>4. \A h \in Keys : h # k => old'[h] = old[h] BY <3>1 DEF PanelOK
    <3>5. old' \in [Keys -> OldRows \union {None}] BY <3>1, <3>3, <3>4 DEF PanelOK
    <3>6. RowsFit'
      <4>1. \A h \in Keys : /\ old[h] = None <=> detail[h] = None
                            /\ old[h] # None => Locked(h, mode) \/ Fits(old[h].value, mode)
        BY <1>8 DEF EditRows, PanelOK, RowsFit
      <4>2. old'[k] # None /\ detail[k] # None BY <3>2, <3>3, <4>1, SecretEditAssumption
      <4>3. Locked(k, mode) \/ Fits(old'[k].value, mode) BY <2>2, <3>1, <3>3, <4>1
      <4>4. \A h \in Keys : /\ old'[h] = None <=> detail[h] = None
                            /\ old'[h] # None => Locked(h, mode) \/ Fits(old'[h].value, mode)
        BY <3>4, <4>1, <4>2, <4>3
      <4> QED BY <1>8, <2>1, <3>1, <4>4 DEF EditRows, RowsFit, PanelOK, Locked
    <3> QED BY <2>1, <3>1, <3>5, <3>6 DEF PanelOK
  <2>4. CASE \E k \in Keys : old[k] # None /\ old' = [old EXCEPT ![k].deleted = ~@]
                               /\ UNCHANGED extra
    <3>1. PICK k \in Keys : old[k] # None /\ old' = [old EXCEPT ![k].deleted = ~@]
                               /\ UNCHANGED extra
      BY <2>4
    <3>2. old[k] \in OldRows BY <3>1 DEF PanelOK
    <3>3. old'[k] \in OldRows /\ old'[k].value = old[k].value
      BY <3>1, <3>2 DEF OldRows, PanelOK
    <3>4. \A h \in Keys : h # k => old'[h] = old[h] BY <3>1 DEF PanelOK
    <3>5. old' \in [Keys -> OldRows \union {None}] BY <3>1, <3>3, <3>4 DEF PanelOK
    <3>6. RowsFit'
      <4>1. \A h \in Keys : /\ old[h] = None <=> detail[h] = None
                            /\ old[h] # None => Locked(h, mode) \/ Fits(old[h].value, mode)
        BY <1>8 DEF EditRows, PanelOK, RowsFit
      <4>2. old'[k] # None /\ detail[k] # None BY <3>1, <3>3, <4>1, SecretEditAssumption
      <4>3. Locked(k, mode) \/ Fits(old'[k].value, mode) BY <3>1, <3>3, <4>1
      <4>4. \A h \in Keys : /\ old'[h] = None <=> detail[h] = None
                            /\ old'[h] # None => Locked(h, mode) \/ Fits(old'[h].value, mode)
        BY <3>4, <4>1, <4>2, <4>3
      <4> QED BY <1>8, <2>1, <3>1, <4>4 DEF EditRows, RowsFit, PanelOK, Locked
    <3> QED BY <2>1, <3>1, <3>5, <3>6 DEF PanelOK
  <2>5. CASE \E k \in Keys \union {None}, s \in Typed(mode) :
               extra' = Append(extra, [key |-> k, value |-> s, deleted |-> FALSE]) /\ UNCHANGED old
    <3>1. PICK k \in Keys \union {None}, s \in Typed(mode) :
            extra' = Append(extra, [key |-> k, value |-> s, deleted |-> FALSE]) /\ UNCHANGED old
      BY <2>5
    <3> DEFINE r == [key |-> k, value |-> s, deleted |-> FALSE]
    <3>2. r \in NewRows /\ r.value = s BY <2>2, <3>1 DEF NewRows
    <3>3. extra \in Seq(NewRows) BY DEF PanelOK
    <3> HIDE DEF r
    <3>4. extra' \in Seq(NewRows)
          /\ \A i \in DOMAIN extra' : extra'[i] = r \/ (i \in DOMAIN extra /\ extra'[i] = extra[i])
      BY <3>1, <3>2, <3>3 DEF r
    <3>5. RowsFit' BY <1>8, <2>1, <2>2, <3>1, <3>2, <3>4 DEF EditRows, RowsFit, PanelOK, Locked
    <3> QED BY <2>1, <3>1, <3>4, <3>5 DEF PanelOK
  <2>6. CASE \E i \in DOMAIN extra : extra' = [extra EXCEPT ![i].deleted = ~@] /\ UNCHANGED old
    <3>1. PICK i \in DOMAIN extra : extra' = [extra EXCEPT ![i].deleted = ~@] /\ UNCHANGED old
      BY <2>6
    <3>2. extra \in Seq(NewRows) /\ extra[i] \in NewRows BY DEF PanelOK
    <3> DEFINE r == [extra[i] EXCEPT !.deleted = ~@]
    <3>3. r \in NewRows /\ r.value = extra[i].value BY <3>2 DEF NewRows
    <3>4. extra' = [extra EXCEPT ![i] = r] BY <3>1, <3>2
    <3> HIDE DEF r
    <3>5. extra' \in Seq(NewRows) /\ DOMAIN extra' = DOMAIN extra
          /\ \A h \in DOMAIN extra : extra'[h] = IF h = i THEN r ELSE extra[h]
      BY <3>1, <3>2, <3>3, <3>4
    <3>6. RowsFit' BY <1>8, <2>1, <3>1, <3>3, <3>5 DEF EditRows, RowsFit, PanelOK, Locked
    <3> QED BY <2>1, <3>1, <3>5, <3>6 DEF PanelOK
  <2> QED BY <1>8, <2>3, <2>4, <2>5, <2>6 DEF EditRows
<1>9. CASE Review
  <2>1. Summary(BuildChanges) \in Listing
    BY DEF Summary, Listing, BuildChanges
  <2> QED BY <1>9, <2>1 DEF Review, PanelOK, RowsFit, Locked
<1>10. CASE Back BY <1>10 DEF Back, PanelOK, RowsFit, Locked
<1>11. CASE \E j \in Jobs : Save(j)
  BY <1>11 DEF Save, PanelOK, RowsFit, Locked
<1>12. CASE LoadYaml
  BY <1>12 DEF LoadYaml, PanelOK, RowsFit, StoreOK, Version
<1>13. CASE EnterYaml BY <1>13 DEF EnterYaml, PanelOK, RowsFit
<1>14. CASE EditYaml
  <2>1. PICK k \in Keys, v \in Texts \union {None} : yaml' = [yaml EXCEPT ![k] = v]
    BY <1>14 DEF EditYaml
  <2>2. yaml \in Data /\ Clean(yaml) BY <1>14 DEF EditYaml, PanelOK
  <2>3. yaml' \in Data /\ Clean(yaml')
    BY <2>1, <2>2, SecretEditAssumption DEF Data, Clean, Values
  <2>4. acts' \in 0..MaxActs BY <1>14, SecretEditAssumption DEF EditYaml, Act, PanelOK
  <2> QED BY <1>14, <2>3, <2>4 DEF EditYaml, PanelOK, RowsFit
<1>15. CASE \E j \in Jobs : Apply(j)
  BY <1>15 DEF Apply, PanelOK, RowsFit, Locked
<1>16. ASSUME NEW j \in Jobs, Returns(j) PROVE PanelOK'
  <2>1. CASE job[j].live /\ job[j].answer = "done"
    <3>1. \E there \in {"closed", "listing", "open", "broken"} : Renew(there, NoData)
      BY <1>16, <2>1 DEF Returns
    <3> QED BY <1>0, <1>16, <3>1, RenewOK DEF Returns
  <2>2. CASE ~(job[j].live /\ job[j].answer = "done")
    BY <1>16, <2>2 DEF Returns, PanelOK, RowsFit, Locked
  <2> QED BY <2>1, <2>2
<1>17. ASSUME NEW j \in Jobs,
              \/ Delete(j) \/ Confirm(j) \/ SaveReads(j) \/ SaveWrites(j)
              \/ Replaces(j) \/ Deletes(j) \/ CallFails(j)
       PROVE  PanelOK'
  <2>1. UNCHANGED <<mode, panel>> /\ acts' \in 0..MaxActs
    BY <1>17 DEF Delete, Confirm, SaveReads, SaveWrites, Replaces, Deletes, CallFails, PanelOK
  <2> QED BY <2>1, PanelStays
<1>18. CASE OthersWrite
  <2>1. UNCHANGED <<mode, panel>> /\ acts' \in 0..MaxActs
    BY <1>18, SecretEditAssumption DEF OthersWrite, Act, PanelOK
  <2> QED BY <2>1, PanelStays
<1>19. CASE UNCHANGED vars
  <2>1. UNCHANGED <<mode, panel>> /\ acts' \in 0..MaxActs BY <1>19 DEF vars, PanelOK
  <2> QED BY <2>1, PanelStays
<1> QED
  BY <1>1, <1>2, <1>3, <1>4, <1>5, <1>6, <1>7, <1>8, <1>9, <1>10, <1>11, <1>12, <1>13,
     <1>14, <1>15, <1>16, <1>17, <1>18, <1>19 DEF Next, Form, Yaml, Call

-----------------------------------------------------------------------------
\* The calls keep CallsOK.

\* A call that is answered, refused or put aside.
LEMMA CallEnds ==
    ASSUME CallsOK, NEW j \in Jobs, NEW answer \in {"none", "done", "failed"},
           job' = [job EXCEPT ![j].pc = "returning", ![j].answer = answer]
    PROVE  CallsOK'
<1> DEFINE c == job[j]
           d == [c EXCEPT !.pc = "returning", !.answer = answer]
<1>1. c \in Calls /\ CallOK(c) BY DEF CallsOK
<1>2. d \in Calls /\ d.pc = "returning" BY <1>1 DEF Calls
<1>3. /\ d.kind = c.kind /\ d.manifest = c.manifest /\ d.changes = c.changes
      /\ d.mode = c.mode /\ d.base = c.base /\ d.wanted = c.wanted
  BY <1>1 DEF Calls
<1>4. job' = [job EXCEPT ![j] = d] BY DEF CallsOK
<1> HIDE DEF c, d
<1>5. CallOK(d) BY <1>1, <1>2, <1>3, SameCall
<1> QED BY <1>4, <1>5, OneCall

\* A save takes the changes of the rows with it.
LEMMA SaveOK ==
    ASSUME IInv, NEW j \in Jobs, Save(j)
    PROVE  CallsOK'
<1> DEFINE c == job[j]
           d == [c EXCEPT !.kind = "save", !.live = TRUE, !.changes = BuildChanges,
                          !.mode = mode, !.base = detail, !.wanted = DraftData,
                          !.pc = IF BuildChanges.blank THEN "returning" ELSE "get"]
<1>1. c \in Calls /\ CallOK(c) BY DEF IInv, CallsOK
<1>2. /\ BuildChanges \in Changes /\ DraftData \in Data
      /\ \A k \in Keys : BuildChanges.set[k] # None => Fits(BuildChanges.set[k], mode)
      /\ Changed(detail, BuildChanges, mode) = DraftData
  BY Built DEF IInv, Save
<1>3. detail \in Data /\ mode \in Modes BY DEF IInv, PanelOK
<1>4. d \in Calls BY <1>1, <1>2, <1>3 DEF Calls
<1>5. /\ d.changes = BuildChanges /\ d.mode = mode /\ d.base = detail
      /\ d.wanted = DraftData /\ d.manifest = c.manifest /\ d.pc \in {"returning", "get"}
  BY <1>1 DEF Calls
<1>6. job' = [job EXCEPT ![j] = d] BY DEF Save
<1> HIDE DEF c, d
<1>7. CallOK(d) BY <1>1, <1>2, <1>4, <1>5 DEF CallOK
<1> QED BY <1>6, <1>7, OneCall DEF IInv

\* What a save read was not garbled, and it goes on only if a key is left.
LEMMA SaveReadsOK ==
    ASSUME IInv, NEW j \in Jobs, SaveReads(j)
    PROVE  CallsOK'
<1> DEFINE c == job[j]
           there == IF \/ store.data = None
                       \/ Refused(c.changes, c.mode)
                       \/ Changed(store.data, c.changes, c.mode) = NoData
                      THEN "returning" ELSE "update"
           d == [c EXCEPT !.got = store, !.pc = there]
<1>1. c \in Calls /\ CallOK(c) /\ c.kind = "save" /\ c.pc = "get"
  BY DEF IInv, CallsOK, SaveReads
<1>2. store \in Version /\ (store.data # None => Clean(store.data)) BY DEF IInv, StoreOK
<1>3. d \in Calls BY <1>1, <1>2 DEF Calls
<1>4. /\ d.kind = c.kind /\ d.manifest = c.manifest /\ d.changes = c.changes
      /\ d.mode = c.mode /\ d.base = c.base /\ d.wanted = c.wanted
      /\ d.got = store /\ d.pc = there
  BY <1>1 DEF Calls
<1>5. job' = [job EXCEPT ![j] = d] BY DEF SaveReads, IInv, CallsOK
<1>6. there = "update" =>
        /\ store.data \in Data /\ Clean(store.data)
        /\ Changed(store.data, c.changes, c.mode) # NoData
  BY <1>2 DEF Version
<1>7. there = "update" \/ there = "returning" OBVIOUS
<1> HIDE DEF c, d, there
<1>8. CallOK(d) BY <1>1, <1>3, <1>4, <1>6, <1>7 DEF CallOK
<1> QED BY <1>5, <1>8, OneCall DEF IInv

LEMMA SaveWritesOK ==
    ASSUME IInv, NEW j \in Jobs, SaveWrites(j)
    PROVE  CallsOK'
<1>1. CASE Answered(j) BY <1>1, CallEnds DEF Answered, IInv
<1>2. CASE job' = Failing(j) BY <1>2, CallEnds DEF Failing, IInv
<1>3. CASE job[j].tries + 1 < Tries /\ job' = [job EXCEPT ![j].pc = "get", ![j].tries = @ + 1]
  <2> DEFINE c == job[j]
             d == [c EXCEPT !.pc = "get", !.tries = @ + 1]
  <2>1. c \in Calls /\ CallOK(c) /\ c.kind = "save" /\ c.pc = "update"
    BY DEF IInv, CallsOK, SaveWrites
  <2>2. c.tries \in 0..Tries - 1 /\ c.tries + 1 \in 0..Tries - 1
    BY <1>3, <2>1, SecretEditAssumption DEF Calls
  <2>3. d \in Calls BY <2>1, <2>2 DEF Calls
  <2>4. /\ d.kind = c.kind /\ d.manifest = c.manifest /\ d.changes = c.changes
        /\ d.mode = c.mode /\ d.base = c.base /\ d.wanted = c.wanted /\ d.pc = "get"
    BY <2>1 DEF Calls
  <2>5. job' = [job EXCEPT ![j] = d] BY <1>3 DEF IInv, CallsOK
  <2> HIDE DEF c, d
  <2>6. CallOK(d) BY <2>1, <2>3, <2>4 DEF CallOK
  <2> QED BY <2>5, <2>6, OneCall DEF IInv
<1> QED BY <1>1, <1>2, <1>3 DEF SaveWrites

\* The other steps that start a call or send it on.
LEMMA SentOn ==
    ASSUME IInv, NEW j \in Jobs, Apply(j) \/ Delete(j) \/ Confirm(j)
    PROVE  CallsOK'
<1> DEFINE c == job[j]
<1>1. c \in Calls /\ CallOK(c) BY DEF IInv, CallsOK
<1>2. CASE Apply(j)
  <2> DEFINE d == [c EXCEPT !.kind = "replace", !.pc = "confirm", !.live = TRUE, !.manifest = yaml]
  <2>1. yaml \in Data /\ Clean(yaml) BY <1>2 DEF Apply, IInv, PanelOK
  <2>2. d \in Calls /\ d.kind = "replace" /\ d.manifest = yaml BY <1>1, <2>1 DEF Calls
  <2>3. job' = [job EXCEPT ![j] = d] BY <1>2 DEF Apply
  <2> HIDE DEF d
  <2>4. CallOK(d) BY <2>1, <2>2 DEF CallOK
  <2> QED BY <2>3, <2>4, OneCall DEF IInv
<1>3. CASE Delete(j)
  <2> DEFINE d == [c EXCEPT !.kind = "delete", !.pc = "confirm", !.live = TRUE]
  <2>1. d \in Calls /\ d.kind = "delete" /\ d.manifest = c.manifest BY <1>1 DEF Calls
  <2>2. job' = [job EXCEPT ![j] = d] BY <1>3 DEF Delete
  <2> HIDE DEF d
  <2>3. CallOK(d) BY <1>1, <2>1 DEF CallOK
  <2> QED BY <2>2, <2>3, OneCall DEF IInv
<1>4. CASE Confirm(j)
  <2>1. CASE job' = Failing(j) BY <2>1, CallEnds DEF Failing, IInv
  <2>2. ASSUME NEW there \in {"update", "returning"}, job' = [job EXCEPT ![j].pc = there]
        PROVE  CallsOK'
    <3> DEFINE d == [c EXCEPT !.pc = there]
    <3>1. c.kind # "save" BY <1>1, <1>4 DEF Confirm, CallOK
    <3>2. d \in Calls /\ d.kind = c.kind /\ d.manifest = c.manifest /\ d.pc = there
      BY <1>1, <2>2 DEF Calls
    <3>3. job' = [job EXCEPT ![j] = d] BY <2>2 DEF IInv, CallsOK
    <3> HIDE DEF d
    <3>4. CallOK(d) BY <1>1, <3>1, <3>2 DEF CallOK
    <3> QED BY <3>3, <3>4, OneCall DEF IInv
  <2> QED BY <1>4, <2>1, <2>2 DEF Confirm
<1> QED BY <1>2, <1>3, <1>4

LEMMA CallsStep ==
    ASSUME IInv, [Next]_vars
    PROVE  CallsOK'
<1> USE DEF IInv
<1>1. CASE job' = Orphaned BY <1>1, OrphanedOK DEF CallsOK
<1>2. CASE UNCHANGED job BY <1>2 DEF CallsOK
<1>3. ASSUME NEW j \in Jobs, Returns(j) PROVE CallsOK'
  <2>1. CASE job' = [Orphaned EXCEPT ![j] = Done]
    <3>1. \A h \in Jobs : job'[h] = IF h = j THEN Done ELSE Orphaned[h]
      BY <2>1, OrphanedOK
    <3>2. job' \in [Jobs -> Calls] BY <2>1, OrphanedOK, DoneOK
    <3> QED BY <3>1, <3>2, OrphanedOK, DoneOK DEF CallsOK
  <2>2. CASE job' = [job EXCEPT ![j] = Done] BY <2>2, DoneOK, OneCall
  <2> QED BY <1>3, <2>1, <2>2 DEF Returns
<1>4. ASSUME NEW j \in Jobs, Replaces(j) \/ Deletes(j) \/ CallFails(j) PROVE CallsOK'
  <2>1. Answered(j) \/ job' = Failing(j) BY <1>4 DEF Replaces, Deletes, CallFails
  <2> QED BY <2>1, CallEnds DEF Answered, Failing
<1>5. ASSUME NEW j \in Jobs,
             \/ Save(j) \/ SaveReads(j) \/ SaveWrites(j)
             \/ Apply(j) \/ Delete(j) \/ Confirm(j)
      PROVE  CallsOK'
  BY <1>5, SaveOK, SaveReadsOK, SaveWritesOK, SentOn
<1>6. CASE Open \/ Refresh \/ Close BY <1>1, <1>6 DEF Open, Refresh, Close
<1>7. CASE \/ Mount \/ SetMode \/ EnterEdit \/ LeaveEdit \/ EditRows \/ Review \/ Back
           \/ LoadYaml \/ EnterYaml \/ EditYaml \/ OthersWrite \/ UNCHANGED vars
  BY <1>2, <1>7
  DEF Mount, SetMode, EnterEdit, LeaveEdit, EditRows, Review, Back, LoadYaml, EnterYaml,
      EditYaml, OthersWrite, vars
<1> QED BY <1>3, <1>4, <1>5, <1>6, <1>7 DEF Next, Form, Yaml, Call

-----------------------------------------------------------------------------
\* The cluster keeps StoreOK.

LEMMA StoreStep ==
    ASSUME IInv, [Next]_vars
    PROVE  StoreOK'
<1> USE DEF IInv
<1>1. CASE UNCHANGED store BY <1>1 DEF StoreOK
<1>2. ASSUME NEW data \in Data, Store(data), Clean(data) PROVE StoreOK'
  BY <1>2 DEF Store, StoreOK, Version
<1>3. CASE Store(None) BY <1>3 DEF Store, StoreOK, Version
<1>4. ASSUME NEW j \in Jobs, SaveWrites(j) PROVE StoreOK'
  <2>1. CASE UNCHANGED store BY <1>1, <2>1
  <2>2. CASE Store(Changed(job[j].got.data, job[j].changes, job[j].mode))
    <3>1. /\ job[j].got.data \in Data /\ Clean(job[j].got.data)
          /\ \A k \in Keys : job[j].changes.set[k] # None
                => Fits(job[j].changes.set[k], job[j].mode)
      BY <1>4 DEF SaveWrites, CallsOK, CallOK
    <3>2. job[j].changes \in Changes /\ job[j].mode \in Modes BY DEF CallsOK, Calls
    <3> QED BY <1>2, <2>2, <3>1, <3>2, ChangedData
  <2> QED BY <1>4, <2>1, <2>2 DEF SaveWrites
<1>5. ASSUME NEW j \in Jobs, Replaces(j) PROVE StoreOK'
  <2>1. job[j].manifest \in Data /\ Clean(job[j].manifest) BY DEF CallsOK, CallOK, Calls
  <2> QED BY <1>1, <1>2, <1>5, <2>1 DEF Replaces
<1>6. ASSUME NEW j \in Jobs, Deletes(j) PROVE StoreOK'
  BY <1>1, <1>3, <1>6 DEF Deletes
<1>7. CASE OthersWrite
  <2>1. CASE \E k \in Keys, v \in Texts \union Binaries \union {None} :
               store.data # None /\ Store([store.data EXCEPT ![k] = v])
    <3>1. PICK k \in Keys, v \in Texts \union Binaries \union {None} :
               store.data # None /\ Store([store.data EXCEPT ![k] = v])
      BY <2>1
    <3>2. store.data \in Data /\ Clean(store.data) BY <3>1 DEF StoreOK, Version
    <3>3. [store.data EXCEPT ![k] = v] \in Data /\ Clean([store.data EXCEPT ![k] = v])
      BY <3>2, SecretEditAssumption DEF Data, Values, Clean
    <3> QED BY <1>2, <3>1, <3>3
  <2>2. ASSUME NEW data \in [Keys -> Texts \union {None}], Store(data) PROVE StoreOK'
    <3>1. data \in Data /\ Clean(data) BY <2>2, SecretEditAssumption DEF Data, Values, Clean
    <3> QED BY <1>2, <2>2, <3>1
  <2> QED BY <1>3, <1>7, <2>1, <2>2 DEF OthersWrite
<1>8. CASE UNCHANGED vars BY <1>1, <1>8 DEF vars
<1>9. CASE \/ Open \/ Refresh \/ Close \/ Mount \/ SetMode \/ Form \/ Yaml
           \/ \E j \in Jobs : Delete(j) \/ Confirm(j) \/ SaveReads(j) \/ CallFails(j) \/ Returns(j)
  BY <1>1, <1>9
  DEF Open, Refresh, Close, Mount, SetMode, Form, EnterEdit, LeaveEdit, EditRows, Review, Back,
      Save, Yaml, LoadYaml, EnterYaml, EditYaml, Apply, Delete, Confirm, SaveReads, CallFails, Returns
<1> QED BY <1>4, <1>5, <1>6, <1>7, <1>8, <1>9 DEF Next, Call

-----------------------------------------------------------------------------
\* The theorems.

\* Whatever the order of edits, mode switches, calls and other writers, every
\* part of the invariant holds.
THEOREM Invariance == Spec => []IInv
<1>1. Init => IInv BY InitOK
<1>2. IInv /\ [Next]_vars => IInv' BY PanelStep, CallsStep, StoreStep DEF IInv
<1> QED BY <1>1, <1>2, PTL DEF Spec

\* The state keeps its type.
THEOREM TypeCorrect == Spec => []TypeOK
<1>1. IInv => TypeOK BY DEF IInv, TypeOK, StoreOK, PanelOK, CallsOK
<1> QED BY <1>1, Invariance, PTL

\* No key of the secret is ever stored in the wrong form.
THEOREM NeverGarbled == Spec => []NothingGarbled
<1>1. IInv => NothingGarbled BY DEF IInv, NothingGarbled, StoreOK, Clean
<1> QED BY <1>1, Invariance, PTL

\* A write of the form is a step of SaveWrites.
LEMMA WritesIsSave ==
    ASSUME IInv, [Next]_vars, NEW j \in Jobs, Writes(j)
    PROVE  /\ store = job[j].got
           /\ Store(Changed(job[j].got.data, job[j].changes, job[j].mode))
           /\ CallOK(job[j])
<1>1. job[j].kind = "save" /\ job[j].pc = "update" /\ store' # store /\ job[j].pc # job'[j].pc
  BY DEF Writes
<1>2. ASSUME NEW h \in Jobs, h # j,
             SaveWrites(h) \/ Replaces(h) \/ Deletes(h)
      PROVE  job'[j] = job[j]
  <2>1. job \in [Jobs -> Calls] BY DEF IInv, CallsOK
  <2>2. \/ Answered(h) \/ job' = Failing(h)
        \/ job' = [job EXCEPT ![h].pc = "get", ![h].tries = @ + 1]
    BY <1>2 DEF SaveWrites, Replaces, Deletes
  <2> QED BY <1>2, <2>1, <2>2 DEF Answered, Failing
<1>3. \E h \in Jobs : SaveWrites(h) \/ Replaces(h) \/ Deletes(h)
  BY <1>1
  DEF Next, vars, Open, Refresh, Close, Mount, SetMode, Form, EnterEdit, LeaveEdit, EditRows,
      Review, Back, Save, Yaml, LoadYaml, EnterYaml, EditYaml, Apply, Delete, Call, Confirm,
      SaveReads, CallFails, Returns, OthersWrite
<1>4. SaveWrites(j) BY <1>1, <1>2, <1>3 DEF Replaces, Deletes
<1> QED BY <1>1, <1>4 DEF SaveWrites, IInv, CallsOK

\* A save changes no key but those of its changes, whoever wrote meanwhile.
THEOREM FormKeepsTheRestHolds == Spec => FormKeepsTheRest
<1>1. ASSUME IInv, [Next]_vars, NEW j \in Jobs, Writes(j),
             NEW k \in Keys \ (job[j].changes.delete \union Summary(job[j].changes).set)
      PROVE  store'.data[k] = store.data[k]
  <2>1. store'.data = Changed(store.data, job[j].changes, job[j].mode)
    BY <1>1, WritesIsSave DEF Store
  <2>2. job[j].changes.set[k] = None /\ k \notin job[j].changes.delete BY DEF Summary
  <2> QED BY <2>1, <2>2 DEF Changed
<1>2. IInv /\ [Next]_vars =>
        [\A j \in Jobs : Writes(j) =>
            \A k \in Keys \ (job[j].changes.delete \union Summary(job[j].changes).set) :
                store'.data[k] = store.data[k]]_vars
  BY <1>1
<1> QED BY <1>2, Invariance, PTL DEF Spec, FormKeepsTheRest

\* No save of the form leaves the secret without a key.
THEOREM FormLeavesAKeyHolds == Spec => FormLeavesAKey
<1>1. ASSUME IInv, [Next]_vars, NEW j \in Jobs, Writes(j)
      PROVE  store'.data # NoData
  BY <1>1, WritesIsSave DEF Store, CallOK, Writes
<1>2. IInv /\ [Next]_vars => [\A j \in Jobs : Writes(j) => store'.data # NoData]_vars
  BY <1>1
<1> QED BY <1>2, Invariance, PTL DEF Spec, FormLeavesAKey

\* A save of the secret as it was read makes it what the rows showed.
THEOREM DraftIsSavedHolds == Spec => DraftIsSaved
<1>1. ASSUME IInv, [Next]_vars, NEW j \in Jobs, Writes(j), store.data = job[j].base
      PROVE  store'.data = job[j].wanted
  BY <1>1, WritesIsSave DEF Store, CallOK, Writes
<1>2. IInv /\ [Next]_vars =>
        [\A j \in Jobs : Writes(j) /\ store.data = job[j].base =>
            store'.data = job[j].wanted]_vars
  BY <1>1
<1> QED BY <1>2, Invariance, PTL DEF Spec, DraftIsSaved
=============================================================================
