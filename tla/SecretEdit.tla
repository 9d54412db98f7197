----------------------------- MODULE SecretEdit -----------------------------
(***************************************************************************)
(* The editing of one secret: the panel and its draft (SecretDetail.vue,   *)
(* useSecretDraft.js), the list that mounts and unmounts it                *)
(* (SecretList.vue), the calls that write (service.go, secrets_write.go,   *)
(* secrets_yaml.go) and whoever else writes the secret meanwhile.          *)
(*                                                                         *)
(* The panel runs in the webview, one handler at a time.  Every write it   *)
(* asks for is a call of its own on the backend, and the reading, the      *)
(* writing and the answer of a call are separate steps: other writers and  *)
(* the user go on in between.                                              *)
(*                                                                         *)
(* What the panel shows or takes as a value is a string: some value as     *)
(* text, as base64, or (for bytes that are not text) a note that it is     *)
(* binary.  A string stored in the wrong form is the value Garbled.        *)
(***************************************************************************)
EXTENDS Naturals, Sequences

CONSTANTS
    Keys,     \* the keys of the secret
    Texts,    \* values that are text
    Binaries, \* values that are not
    Garbled,  \* what is stored when base64 or a note is taken for text
    None,     \* no value, no row, no panel
    Jobs,     \* write calls
    Tries,    \* attempts of RetryOnConflict
    MaxActs   \* bound: what the user types, adds, toggles or switches

Values  == Texts \union Binaries \union {Garbled}
Strings == [as : {"text", "base64", "note"}, of : Values]
OldRows == [value : Strings, deleted : BOOLEAN]

ASSUME SecretEditAssumption ==
    /\ Texts \intersect Binaries = {}
    /\ Garbled \notin Texts \union Binaries
    /\ None \notin Texts \union Binaries \union {Garbled} \union Keys \union Jobs
    /\ None \notin Strings \union OldRows
    /\ Tries \in Nat \ {0}
    /\ MaxActs \in Nat

VARIABLES
    store,    \* the secret in the cluster: resource version and data
    mode,     \* the value mode of the tab
    shown,    \* where the panel stands
    detail,   \* the secret as the panel read it
    tab,      \* submode
    old,      \* draft rows of keys the secret had
    extra,    \* draft rows added by the user
    reviewed, \* what the review dialog lists, or None while it is closed
    saving,   \* the form's call in flight
    yaml,     \* the manifest in the YAML editor
    applying, \* the YAML editor's call in flight
    acts,     \* how often the user did something
    job       \* job[j]: write call j

panel == <<shown, detail, tab, old, extra, reviewed, saving, yaml, applying>>
vars  == <<store, mode, panel, acts, job>>

Data   == [Keys -> Values \union {None}]
Modes  == {"transparent", "base64"}
NewRows == [key : Keys \union {None}, value : Strings, deleted : BOOLEAN]
Changes == [delete : SUBSET Keys, set : [Keys -> Strings \union {None}], blank : BOOLEAN]
Listing == [delete : SUBSET Keys, set : SUBSET Keys]
Version == [rv : Nat, data : Data \union {None}]

Calls   == [kind : {"none", "save", "replace", "delete"},
            pc : {"idle", "confirm", "get", "update", "returning", "done"},
            live : BOOLEAN, answer : {"none", "done", "failed"},
            changes : Changes, mode : Modes, got : Version, tries : 0..Tries - 1,
            manifest : Data, base : Data, wanted : Data]

NoChanges == [delete |-> {}, set |-> [k \in Keys |-> None], blank |-> FALSE]
NoData    == [k \in Keys |-> None]
NoJob     == [kind |-> "none", pc |-> "idle", live |-> FALSE, answer |-> "none",
              changes |-> NoChanges, mode |-> "transparent", got |-> [rv |-> 0, data |-> None],
              tries |-> 0, manifest |-> NoData, base |-> NoData, wanted |-> NoData]

TypeOK ==
    /\ store \in Version
    /\ mode \in Modes
    /\ shown \in {"closed", "listing", "open", "broken"}
    /\ detail \in Data
    /\ tab \in {"view", "edit", "yaml"}
    /\ old \in [Keys -> OldRows \union {None}]
    /\ extra \in Seq(NewRows)
    /\ reviewed \in Listing \union {None}
    /\ saving \in Jobs \union {None}
    /\ yaml \in Data \union {None}
    /\ applying \in Jobs \union {None}
    /\ acts \in 0..MaxActs
    /\ job \in [Jobs -> Calls]

\* The secret exists, with at least one key, and its panel is not open.
Init ==
    /\ store \in [rv : {0}, data : [Keys -> Texts \union Binaries \union {None}] \ {NoData}]
    /\ mode \in Modes
    /\ shown = "closed"
    /\ detail = NoData
    /\ tab = "view"
    /\ old = [k \in Keys |-> None]
    /\ extra = <<>>
    /\ reviewed = None
    /\ saving = None
    /\ yaml = None
    /\ applying = None
    /\ acts = 0
    /\ job = [j \in Jobs |-> NoJob]

-----------------------------------------------------------------------------
\* Strings.

\* decodeSecret, and the choice of the panel: what is shown of a value.
Shown(v, m) ==
    [as |-> IF m = "base64" THEN "base64" ELSE IF v \in Binaries THEN "note" ELSE "text",
     of |-> v]

\* encodeSecretValue: the bytes stored for a string, None if it is refused.
Encoded(s, m) ==
    IF m = "base64"
      THEN IF s.as = "base64" THEN s.of ELSE None
      ELSE IF s.as = "text" THEN s.of ELSE Garbled

\* What a user may type: text, or base64 in base64 mode, where text is a slip.
Typed(m) == {[as |-> "text", of |-> v] : v \in Texts}
                \union (IF m = "base64" THEN {Shown(v, m) : v \in Texts \union Binaries} ELSE {})

\* Bytes that are not text cannot be edited as text.
Locked(k, m) == detail[k] \in Binaries /\ m = "transparent"

-----------------------------------------------------------------------------
\* The draft.

\* seedRows.
SeedRows(m) ==
    /\ old' = [k \in Keys |-> IF detail[k] = None THEN None
                              ELSE [value |-> Shown(detail[k], m), deleted |-> FALSE]]
    /\ extra' = <<>>

KeptRows == {k \in Keys : old[k] # None /\ ~old[k].deleted}
NewKeys  == {i \in DOMAIN extra : ~extra[i].deleted}

\* validateRows.
ValidRows ==
    /\ \A i \in NewKeys : extra[i].key \in Keys \ KeptRows
    /\ \A i, h \in NewKeys : extra[i].key = extra[h].key => i = h
    /\ KeptRows # {} \/ NewKeys # {}
    /\ mode = "base64" =>
          /\ \A k \in KeptRows : old[k].value.as = "base64"
          /\ \A i \in NewKeys : extra[i].value.as = "base64"

\* The last of the rows added for k.
LastFor(k, i) == i \in NewKeys /\ extra[i].key = k
                    /\ \A h \in NewKeys : extra[h].key = k => h <= i
Added(k) == \E i \in NewKeys : LastFor(k, i)
AddedValue(k) == extra[CHOOSE i \in NewKeys : LastFor(k, i)].value

\* buildChanges: rows of binary values are skipped in transparent mode.
Edited(k) == k \in KeptRows /\ ~Locked(k, mode) /\ old[k].value # Shown(detail[k], mode)

BuildChanges ==
    [delete |-> {k \in Keys : old[k] # None /\ old[k].deleted},
     set    |-> [k \in Keys |-> IF Added(k) THEN AddedValue(k)
                                ELSE IF Edited(k) THEN old[k].value ELSE None],
     blank  |-> \E i \in NewKeys : extra[i].key = None]

\* summarizeChanges.
Summary(changes) ==
    [delete |-> changes.delete, set |-> {k \in Keys : changes.set[k] # None}]

\* History: what the rows say the secret should become.
DraftData ==
    [k \in Keys |-> IF Added(k) THEN Encoded(AddedValue(k), mode)
                    ELSE IF k \notin KeptRows THEN None
                    ELSE IF Locked(k, mode) THEN detail[k]
                    ELSE Encoded(old[k].value, mode)]

-----------------------------------------------------------------------------
\* The panel comes and goes.

\* A panel in its first state; the calls of the one before it go on alone.
Renew(there, data) ==
    /\ shown' = there
    /\ detail' = data
    /\ tab' = "view"
    /\ old' = [k \in Keys |-> None]
    /\ extra' = <<>>
    /\ reviewed' = None
    /\ saving' = None
    /\ yaml' = None
    /\ applying' = None

Orphaned == [j \in Jobs |-> [job[j] EXCEPT !.live = FALSE]]

Open ==
    /\ shown = "closed"
    /\ Renew("listing", NoData)
    /\ job' = Orphaned
    /\ UNCHANGED <<store, mode, acts>>

\* Any load of the list (Refresh, a watch event, a write) shows a spinner in
\* the place of the columns, and with them the panel is unmounted.
Refresh ==
    /\ shown \in {"open", "broken"}
    /\ Renew("listing", NoData)
    /\ job' = Orphaned
    /\ UNCHANGED <<store, mode, acts>>

Close ==
    /\ shown \in {"open", "broken"}
    /\ Renew("closed", NoData)
    /\ job' = Orphaned
    /\ UNCHANGED <<store, mode, acts>>

\* The list arrives: the panel is mounted again and reads the secret, unless
\* the secret is gone.  In the place of one it cannot read it shows the error.
Mount ==
    /\ shown = "listing"
    /\ \/ store.data = None /\ Renew("closed", NoData)
       \/ store.data # None /\ Renew("open", store.data)
       \/ store.data # None /\ Renew("broken", NoData)
    /\ UNCHANGED <<store, mode, acts, job>>

-----------------------------------------------------------------------------
\* The form.

Act == acts < MaxActs /\ acts' = acts + 1

\* Mutant of SetMode: the open draft keeps the strings of the other mode.
SetModeOnly ==
    /\ Act
    /\ mode' = IF mode = "base64" THEN "transparent" ELSE "base64"
    /\ UNCHANGED <<store, panel, job>>

SetMode ==
    /\ Act
    /\ mode' = IF mode = "base64" THEN "transparent" ELSE "base64"
    /\ IF shown = "open" /\ tab = "edit"
         THEN SeedRows(mode')
         ELSE UNCHANGED <<old, extra>>
    /\ yaml' = IF shown = "open" /\ tab = "yaml" /\ yaml # None /\ store.data # None
                 THEN store.data ELSE yaml
    /\ UNCHANGED <<store, shown, detail, tab, reviewed, saving, applying, job>>

EnterEdit ==
    /\ shown = "open"
    /\ tab' = "edit"
    /\ SeedRows(mode)
    /\ reviewed' = None
    /\ UNCHANGED <<store, mode, shown, detail, saving, yaml, applying, acts, job>>

\* Selecting the View tab, and Cancel, which also closes the review.
LeaveEdit ==
    /\ shown = "open" /\ tab = "edit"
    /\ tab' = "view"
    /\ reviewed' \in {None, reviewed}
    /\ UNCHANGED <<store, mode, shown, detail, old, extra, saving, yaml, applying, acts, job>>

\* The rows stay editable while the review is open, and while a call runs.
EditRows ==
    /\ shown = "open" /\ tab = "edit"
    /\ Act
    /\ \/ \E k \in KeptRows, s \in Typed(mode) :
            /\ ~Locked(k, mode)
            /\ old' = [old EXCEPT ![k].value = s]
            /\ UNCHANGED extra
       \/ \E k \in Keys :
            /\ old[k] # None
            /\ old' = [old EXCEPT ![k].deleted = ~@]
            /\ UNCHANGED extra
       \/ \E k \in Keys \union {None}, s \in Typed(mode) :
            /\ extra' = Append(extra, [key |-> k, value |-> s, deleted |-> FALSE])
            /\ UNCHANGED old
       \/ \E i \in DOMAIN extra :
            /\ extra' = [extra EXCEPT ![i].deleted = ~@]
            /\ UNCHANGED old
    /\ UNCHANGED <<store, mode, shown, detail, tab, reviewed, saving, yaml, applying, job>>

Review ==
    /\ shown = "open" /\ tab = "edit"
    /\ reviewed = None /\ saving = None
    /\ ValidRows
    /\ BuildChanges # NoChanges
    /\ reviewed' = Summary(BuildChanges)
    /\ UNCHANGED <<store, mode, shown, detail, tab, old, extra, saving, yaml, applying, acts, job>>

Back ==
    /\ shown = "open" /\ tab = "edit"
    /\ reviewed # None /\ saving = None
    /\ reviewed' = None
    /\ UNCHANGED <<store, mode, shown, detail, tab, old, extra, saving, yaml, applying, acts, job>>

\* saveChanges: the changes are computed again, from the rows of now.
Save(j) ==
    /\ shown = "open" /\ tab = "edit"
    /\ reviewed # None /\ saving = None
    /\ job[j].pc = "idle"
    /\ saving' = j
    /\ job' = [job EXCEPT ![j] =
          [@ EXCEPT !.kind = "save", !.live = TRUE, !.changes = BuildChanges, !.mode = mode,
                    !.base = detail, !.wanted = DraftData,
                    !.pc = IF BuildChanges.blank THEN "returning" ELSE "get"]]
    /\ UNCHANGED <<store, mode, shown, detail, tab, old, extra, reviewed, yaml, applying, acts>>

-----------------------------------------------------------------------------
\* The YAML editor and the delete button.

\* The manifest is read when the editor is first shown, and on Reload.
LoadYaml ==
    /\ shown = "open"
    /\ tab' = "yaml"
    /\ yaml' = IF applying = None /\ store.data # None THEN store.data ELSE yaml
    /\ UNCHANGED <<store, mode, shown, detail, old, extra, reviewed, saving, applying, acts, job>>

EnterYaml ==
    /\ shown = "open"
    /\ yaml # None
    /\ tab' = "yaml"
    /\ UNCHANGED <<store, mode, shown, detail, old, extra, reviewed, saving, yaml, applying, acts, job>>

EditYaml ==
    /\ shown = "open" /\ tab = "yaml" /\ yaml # None
    /\ Act
    /\ \E k \in Keys, v \in Texts \union {None} : yaml' = [yaml EXCEPT ![k] = v]
    /\ UNCHANGED <<store, mode, shown, detail, tab, old, extra, reviewed, saving, applying, job>>

Apply(j) ==
    /\ shown = "open" /\ tab = "yaml" /\ yaml # None
    /\ applying = None
    /\ job[j].pc = "idle"
    /\ applying' = j
    /\ job' = [job EXCEPT ![j] =
          [@ EXCEPT !.kind = "replace", !.pc = "confirm", !.live = TRUE, !.manifest = yaml]]
    /\ UNCHANGED <<store, mode, shown, detail, tab, old, extra, reviewed, saving, yaml, acts>>

Delete(j) ==
    /\ shown = "open"
    /\ job[j].pc = "idle"
    /\ job' = [job EXCEPT ![j] = [@ EXCEPT !.kind = "delete", !.pc = "confirm", !.live = TRUE]]
    /\ UNCHANGED <<store, mode, panel, acts>>

-----------------------------------------------------------------------------
\* The write calls on the backend.

Failing(j) == [job EXCEPT ![j].pc = "returning", ![j].answer = "failed"]

\* The native dialog: anything but Yes ends the call without an error.  The
\* dialog itself may fail, and a manifest that is none gets no dialog.
Confirm(j) ==
    /\ job[j].pc = "confirm"
    /\ \/ \E there \in {"update", "returning"} : job' = [job EXCEPT ![j].pc = there]
       \/ job' = Failing(j)
    /\ UNCHANGED <<store, mode, panel, acts>>

\* Mutant of Changed: the removals come last.
ChangedThenRemoved(data, changes, m) ==
    [k \in Keys |-> IF k \in changes.delete THEN None
                    ELSE IF changes.set[k] # None THEN Encoded(changes.set[k], m) ELSE data[k]]

\* What the changes make of the data read: removals first, then values.
Changed(data, changes, m) ==
    [k \in Keys |-> IF changes.set[k] # None THEN Encoded(changes.set[k], m)
                    ELSE IF k \in changes.delete THEN None ELSE data[k]]

Refused(changes, m) ==
    \E k \in Keys : changes.set[k] # None /\ Encoded(changes.set[k], m) = None

\* Mutant of SaveReads: nobody looks whether a key is left.
SaveReadsAnyway(j) ==
    /\ job[j].kind = "save" /\ job[j].pc = "get"
    /\ job' = [job EXCEPT ![j].got = store,
                          ![j].pc = IF store.data = None \/ Refused(job[j].changes, job[j].mode)
                                      THEN "returning" ELSE "update"]
    /\ UNCHANGED <<store, mode, panel, acts>>

\* UpdateSecret reads the secret and applies the changes to what it read; it
\* gives up on a string it cannot decode and when no key would be left.
SaveReads(j) ==
    /\ job[j].kind = "save" /\ job[j].pc = "get"
    /\ job' = [job EXCEPT ![j].got = store,
                          ![j].pc =
          IF \/ store.data = None
             \/ Refused(job[j].changes, job[j].mode)
             \/ Changed(store.data, job[j].changes, job[j].mode) = NoData
            THEN "returning" ELSE "update"]
    /\ UNCHANGED <<store, mode, panel, acts>>

Store(data) == store' = [rv |-> store.rv + 1, data |-> data]

\* An answer may get lost after the write.
Answered(j) ==
    \E answer \in {"done", "failed"} :
        job' = [job EXCEPT ![j].pc = "returning", ![j].answer = answer]

\* Mutant of SaveWrites: the version read is not compared.
SaveWritesOver(j) ==
    /\ job[j].kind = "save" /\ job[j].pc = "update" /\ store.data # None
    /\ Store(Changed(job[j].got.data, job[j].changes, job[j].mode))
    /\ Answered(j)
    /\ UNCHANGED <<mode, panel, acts>>

\* The update carries the version read; on a conflict it starts again.
SaveWrites(j) ==
    /\ job[j].kind = "save" /\ job[j].pc = "update"
    /\ \/ /\ store = job[j].got
          /\ Store(Changed(job[j].got.data, job[j].changes, job[j].mode))
          /\ Answered(j)
       \/ /\ store # job[j].got
          /\ IF job[j].tries + 1 < Tries /\ store.data # None
               THEN job' = [job EXCEPT ![j].pc = "get", ![j].tries = @ + 1]
               ELSE job' = Failing(j)
          /\ UNCHANGED store
    /\ UNCHANGED <<mode, panel, acts>>

\* UpdateSecretYAML clears the version: it replaces whatever is there.
Replaces(j) ==
    /\ job[j].kind = "replace" /\ job[j].pc = "update"
    /\ \/ store.data # None /\ Store(job[j].manifest) /\ Answered(j)
       \/ store.data = None /\ job' = Failing(j) /\ UNCHANGED store
    /\ UNCHANGED <<mode, panel, acts>>

Deletes(j) ==
    /\ job[j].kind = "delete" /\ job[j].pc = "update"
    /\ \/ store.data # None /\ Store(None) /\ Answered(j)
       \/ store.data = None /\ job' = Failing(j) /\ UNCHANGED store
    /\ UNCHANGED <<mode, panel, acts>>

\* A request fails, or times out.
CallFails(j) ==
    /\ job[j].pc \in {"get", "update"}
    /\ job' = Failing(j)
    /\ UNCHANGED <<store, mode, panel, acts>>

Done == [NoJob EXCEPT !.pc = "done"]

\* A panel that is gone ignores the answer.  After a write the parent loads
\* the list, or closes the panel of a secret it deleted.  A delete that fails
\* leaves its error in the place of the tabs.
Returns(j) ==
    /\ job[j].pc = "returning"
    /\ IF job[j].live /\ job[j].answer = "done"
         THEN /\ Renew(IF job[j].kind = "delete" THEN "closed" ELSE "listing", NoData)
              /\ job' = [Orphaned EXCEPT ![j] = Done]
         ELSE /\ saving' = IF saving = j THEN None ELSE saving
              /\ applying' = IF applying = j THEN None ELSE applying
              /\ shown' = IF job[j].live /\ job[j].kind = "delete" /\ job[j].answer = "failed"
                            THEN "broken" ELSE shown
              /\ job' = [job EXCEPT ![j] = Done]
              /\ UNCHANGED <<detail, tab, old, extra, reviewed, yaml>>
    /\ UNCHANGED <<store, mode, acts>>

-----------------------------------------------------------------------------
\* Another client changes a key, or deletes or creates the secret.
OthersWrite ==
    /\ Act
    /\ \/ /\ store.data # None
          /\ \/ \E k \in Keys, v \in Texts \union Binaries \union {None} :
                  Store([store.data EXCEPT ![k] = v])
             \/ Store(None)
       \/ /\ store.data = None
          /\ \E data \in [Keys -> Texts \union {None}] : Store(data)
    /\ UNCHANGED <<mode, panel, job>>

Form == EnterEdit \/ LeaveEdit \/ EditRows \/ Review \/ Back \/ (\E j \in Jobs : Save(j))
Yaml == LoadYaml \/ EnterYaml \/ EditYaml \/ (\E j \in Jobs : Apply(j))

Call(j) ==
    \/ Confirm(j) \/ SaveReads(j) \/ SaveWrites(j) \/ Replaces(j) \/ Deletes(j)
    \/ CallFails(j) \/ Returns(j)

Next ==
    \/ Open \/ Refresh \/ Close \/ Mount \/ SetMode
    \/ Form \/ Yaml
    \/ \E j \in Jobs : Delete(j) \/ Call(j)
    \/ OthersWrite

Spec == Init /\ [][Next]_vars

-----------------------------------------------------------------------------
\* Properties.

\* Values are shown in one form and stored through the same form, whatever the
\* order of mode switches, edits and saves: no key ever holds base64 or a note
\* as if it were text (encodeSecretValue: "the round trip is lossless").
NothingGarbled ==
    store.data # None => \A k \in Keys : store.data[k] # Garbled

Writes(j) == job[j].kind = "save" /\ job[j].pc = "update" /\ store' # store
                /\ job[j].pc # job'[j].pc

\* UpdateSecret: "a re-read and re-apply rather than a lost update".  A save
\* touches the keys of its changes only; all others are what another writer
\* last made them.
FormKeepsTheRest ==
    [][\A j \in Jobs : Writes(j) =>
          \A k \in Keys \ (job[j].changes.delete \union Summary(job[j].changes).set) :
              store'.data[k] = store.data[k]]_vars

\* "a secret must contain at least one key": no save of the form leaves none,
\* even when the keys its draft counted on were removed by someone else.
FormLeavesAKey == [][\A j \in Jobs : Writes(j) => store'.data # NoData]_vars

\* When the secret still is what the panel read, a save makes it what the rows
\* show: removals and additions of one key, binary values, either mode.
DraftIsSaved ==
    [][\A j \in Jobs : Writes(j) /\ store.data = job[j].base =>
          store'.data = job[j].wanted]_vars
=============================================================================
