---------------------------- MODULE IngressProofs ----------------------------
(***************************************************************************)
(* What the form of an ingress and the health check of its panel keep, for *)
(* any rules, services, secrets, saves and checks.                         *)
(***************************************************************************)
EXTENDS IngressHealth, FiniteSetTheorems, TLAPS

\* The records of the calls in full, of which FormTypeOK names what matters.
SaveRecords ==
    [pc : {"idle", "ask", "get", "write", "back"}, mine : BOOLEAN,
     mode : {"none", "edit", "create"}, loaded : Kept \union {None}, touched : SUBSET Fields,
     payload : Kept \union {None}, read : Ingress \union {None}, wrote : BOOLEAN,
     result : {"none", "done", "error"}]

FormRecords ==
    [mode : {"none", "edit", "create"}, pc : {"closed", "classes", "loading", "open", "failed"},
     shown : Shown \union {None}, loaded : Kept \union {None},
     touched : SUBSET Fields, edits : 0..MaxEdits]

FormTypes ==
    /\ ing \in Ingress \union {None} /\ now \in 0..MaxVersion
    /\ form \in FormRecords /\ save \in [Saves -> SaveRecords]

\* An open form shows what was loaded in every field the user left alone, or
\* an empty row.  Before it is loaded, the class is as it was in the empty form
\* unless the user chose one: LoadEdit keeps it if the ingress has none.
ShowsLoaded ==
    /\ form.pc # "closed" => form.shown \in Shown
    /\ form.pc \in {"classes", "loading"} /\ "class" \notin form.touched => form.shown.class = None
    /\ form.pc = "open" /\ form.mode = "edit" =>
          /\ form.loaded \in Kept
          /\ \A r \in Rows \ form.touched :
                form.shown.rules[r] = form.loaded.rules[r] \/ form.shown.rules[r] = Empty
          /\ "default" \in form.touched \/ form.shown.default \in {form.loaded.default, Empty}
          /\ "class" \in form.touched \/ form.shown.class = form.loaded.class
          /\ "meta" \in form.touched \/ form.shown.meta = form.loaded.meta
          /\ "tls" \in form.touched \/ form.shown.tls = form.loaded.tls

\* What NothingLostSilently says of a save that wrote.
KeepsTheRest(k) ==
    /\ \A r \in Rows \ k.touched : k.payload.rules[r] = k.loaded.rules[r]
    /\ "default" \in k.touched \/ k.payload.default = k.loaded.default
    /\ "class" \in k.touched \/ k.payload.class = k.loaded.class
    /\ "meta" \in k.touched \/ k.payload.meta = k.loaded.meta
    /\ "tls" \in k.touched \union Unsupported(k.loaded) \/ k.payload.tls = k.loaded.tls

\* A call under way carries a valid payload, and an edit one that keeps the
\* rest; the two properties of a save follow from it.
SavesSound ==
    \A v \in Saves :
        /\ save[v].pc # "idle" => save[v].payload \in Kept
        /\ save[v].pc # "idle" /\ save[v].mode = "edit" => KeepsTheRest(save[v])
        /\ save[v].pc = "idle" => ~save[v].wrote

\* A version names one content of the ingress: what an update is about to
\* replace is what it read, if its version still stands.
VersionsTell ==
    /\ ing # None => ing.version <= now
    /\ \A v \in Saves : save[v].pc = "write" /\ save[v].mode = "edit" =>
          /\ save[v].read \in Ingress /\ save[v].read.version <= now
          /\ ing # None /\ ing.version = save[v].read.version => ing = save[v].read

FormInv == FormTypes /\ ShowsLoaded /\ SavesSound /\ VersionsTell

\* What is remembered of the cluster: a check under way knows what is there
\* now, and its lists are between what was there all the time (unless one was
\* cut) and what was at some time.
Things == Services \union Secrets \union {<<s, "ready">> : s \in Services}
CheckRecords ==
    [pc : {"idle", "services", "endpoints", "secrets", "show"}, spec : Kept \union {None},
     services : (SUBSET Services) \union {Unread}, endpoints : (SUBSET Services) \union {Unread},
     secrets : (SUBSET Secrets) \union {Unread}, cut : BOOLEAN,
     always : SUBSET Things, sometime : SUBSET Things]

ListsSound(c) ==
    /\ c.services # Unread /\ ~c.cut => c.always \intersect Services \subseteq c.services
    /\ c.secrets # Unread => c.secrets \subseteq c.sometime
    /\ c.secrets # Unread /\ ~c.cut => c.always \intersect Secrets \subseteq c.secrets
    /\ c.endpoints # Unread => \A s \in c.endpoints : <<s, "ready">> \in c.sometime
    /\ c.endpoints # Unread /\ ~c.cut =>
          \A s \in Services : <<s, "ready">> \in c.always => s \in c.endpoints

HealthInv ==
    /\ there \in SUBSET (Services \union Secrets) /\ ready \in SUBSET Services
    /\ comings \in 0..MaxComings /\ inspecting \in BOOLEAN
    /\ check \in [Checks -> CheckRecords]
    /\ \A k \in Checks :
          /\ check[k].always \subseteq check[k].sometime
          /\ check[k].pc # "idle" =>
                /\ inspecting /\ check[k].spec \in Kept
                /\ check[k].always \subseteq Marks(there, ready)
                /\ Marks(there, ready) \subseteq check[k].sometime
                /\ ListsSound(check[k])

IInv == FormInv /\ HealthInv
-----------------------------------------------------------------------------
(***************************************************************************)
(* The operators of the form.                                              *)
(***************************************************************************)

\* What is loaded can be shown, and each field shows what was loaded unless it
\* cannot: then it is an empty row, which Valid refuses.
LEMMA LoadedIsShown ==
    ASSUME NEW s \in Kept, NEW rows \in RuleRows(s.rules), NEW class \in Classes \union {None}
    PROVE  /\ [rules |-> rows, tls |-> s.tls,
               default |-> IF s.default = Resource THEN Empty ELSE s.default,
               class |-> IF s.class = None THEN class ELSE s.class, meta |-> s.meta] \in Shown
           /\ \A r \in Rows : rows[r] = s.rules[r] \/ rows[r] = Empty
<1>1. /\ s.rules \in [Rows -> Services \union {Resource, Bare, None}]
      /\ s.tls \in SUBSET (Secrets \union {Blank}) /\ s.default \in Services \union {Resource, None}
      /\ s.class \in Classes \union {None} /\ s.meta \in Metas \union {None}
  BY DEF Kept
<1>2. CASE \A r \in Rows : s.rules[r] = None
  <2>1. PICK r \in Rows : rows = OneRow(r) BY <1>2 DEF RuleRows
  <2> QED BY <1>1, <1>2, <2>1 DEF OneRow, Shown
<1>3. CASE ~\A r \in Rows : s.rules[r] = None
  <2>1. rows = [r \in Rows |-> RuleRow(s.rules[r])] BY <1>3 DEF RuleRows
  <2> QED BY <1>1, <2>1 DEF RuleRow, Shown
<1> QED BY <1>2, <1>3

LEMMA FreshIsShown ==
    ASSUME NEW r \in Rows
    PROVE  Fresh(r) \in Shown /\ Fresh(r).class = None
BY DEF Fresh, OneRow, Shown

\* An edit changes the field it is about and no other.
LEMMA EditChangesOne ==
    ASSUME form.shown \in Shown, NEW f \in Fields, NEW new \in Edits(f)
    PROVE  /\ new \in Shown
           /\ \A r \in Rows \ {f} : new.rules[r] = form.shown.rules[r]
           /\ f # "tls" => new.tls = form.shown.tls
           /\ f # "default" => new.default = form.shown.default
           /\ f # "class" => new.class = form.shown.class
           /\ f # "meta" => new.meta = form.shown.meta
<1> USE DEF Shown
<1>0. f \in Rows => f \notin {"tls", "default", "class", "meta"} BY FormConstants
<1>1. CASE f \in Rows
  <2>1. PICK b \in Services \union {Empty, None} : new = [form.shown EXCEPT !.rules[f] = b]
    BY <1>0, <1>1 DEF Edits
  <2> QED BY <1>0, <1>1, <2>1
<1>2. CASE f = "tls"
  <2>1. PICK t \in Secrets \union {Blank} : new = [form.shown EXCEPT !.tls = (@ \ {t}) \union ({t} \ @)]
    BY <1>0, <1>2 DEF Edits
  <2> QED BY <1>0, <1>2, <2>1
<1>3. CASE f = "default"
  <2>1. PICK b \in Services \union {Empty, None} : new = [form.shown EXCEPT !.default = b]
    BY <1>0, <1>3 DEF Edits
  <2> QED BY <1>0, <1>3, <2>1
<1>4. CASE f = "class"
  <2>1. PICK c \in Classes \union {None} : new = [form.shown EXCEPT !.class = c]
    BY <1>0, <1>4 DEF Edits
  <2> QED BY <1>0, <1>4, <2>1
<1>5. CASE f = "meta"
  <2>1. PICK m \in Metas \union {None} : new = [form.shown EXCEPT !.meta = m]
    BY <1>0, <1>5 DEF Edits
  <2> QED BY <1>0, <1>5, <2>1
<1> QED BY <1>1, <1>2, <1>3, <1>4, <1>5 DEF Fields

\* A valid form makes a payload the cluster can hold; only a blank TLS row is
\* left out of it.
LEMMA PayloadIsKept ==
    ASSUME NEW s \in Shown, Valid(s)
    PROVE  /\ Payload(s) \in Kept
           /\ Payload(s).rules = s.rules /\ Payload(s).default = s.default
           /\ Payload(s).class = s.class /\ Payload(s).meta = s.meta
           /\ Payload(s).tls = s.tls \ {Blank}
BY DEF Shown, Kept, Valid, Payload
-----------------------------------------------------------------------------
(***************************************************************************)
(* The form and its calls.                                                 *)
(***************************************************************************)
LEMMA Bounds == MaxVersion \in Nat /\ MaxEdits \in Nat
BY FormConstants

LEMMA FormInitially == FormInit => FormInv
<1> SUFFICES ASSUME FormInit PROVE FormInv
  OBVIOUS
<1>1. ing \in Ingress /\ ing.version = 0 /\ now = 0
  BY FormConstants DEF FormInit, Ingress
<1>2. NoSave \in SaveRecords BY DEF NoSave, SaveRecords
<1>3. save \in [Saves -> SaveRecords] /\ \A v \in Saves : save[v] = NoSave
  BY <1>2 DEF FormInit
<1>4. form \in FormRecords BY FormConstants DEF FormInit, FormRecords, NoForm
<1>5. FormTypes BY <1>1, <1>3, <1>4, FormConstants DEF FormTypes
<1>6. ShowsLoaded BY DEF FormInit, ShowsLoaded, NoForm
<1>7. VersionsTell BY <1>1, <1>3 DEF VersionsTell, NoSave
<1>8. SavesSound BY <1>3 DEF SavesSound, NoSave
<1> QED BY <1>5, <1>6, <1>7, <1>8 DEF FormInv

\* A panel that shows its new state leaves the saves and the ingress alone.
LEMMA FormAlone ==
    ASSUME FormInv, UNCHANGED <<ing, now, save>>, form' \in FormRecords, ShowsLoaded'
    PROVE  FormInv'
BY DEF FormInv, FormTypes, SavesSound, VersionsTell

LEMMA KeepOthers == FormInv /\ Others => FormInv'
<1> SUFFICES ASSUME FormInv, Others PROVE FormInv'
  OBVIOUS
<1>1. /\ ing \in Ingress /\ ing # None /\ now' = now + 1
      /\ now \in 0..MaxVersion /\ now' \in 0..MaxVersion
      /\ UNCHANGED <<form, save>>
  <2>1. ing # None /\ now' = now + 1 /\ now < MaxVersion /\ UNCHANGED <<form, save>>
    BY DEF Others
  <2>2. ing \in Ingress /\ now \in 0..MaxVersion BY <2>1 DEF FormInv, FormTypes
  <2> QED BY <2>1, <2>2, Bounds
<1>2. now \in Nat /\ now' = now + 1 BY <1>1, Bounds
<1>3. ing' # None => ing' \in Ingress /\ ing'.version = now'
  <2>1. ASSUME NEW s \in Written, ing' = [ing EXCEPT !.spec = s, !.version = now']
        PROVE  ing' \in Ingress /\ ing'.version = now'
    BY <1>1, <2>1, FormConstants DEF Ingress
  <2>2. ASSUME ing' = [ing EXCEPT !.rest = now', !.version = now']
        PROVE  ing' \in Ingress /\ ing'.version = now'
    BY <1>1, <2>2 DEF Ingress
  <2> QED BY <2>1, <2>2 DEF Others
<1>4. FormTypes' BY <1>1, <1>3 DEF FormInv, FormTypes
<1>5. ShowsLoaded' /\ SavesSound' BY <1>1 DEF FormInv, ShowsLoaded, SavesSound
<1>6. VersionsTell'
  <2>1. \A x \in Ingress : x.version \in Nat BY FormConstants DEF Ingress
  <2>2. ing' # None => ing'.version = now' BY <1>3
  <2> QED BY <1>1, <1>2, <2>1, <2>2 DEF FormInv, VersionsTell
<1> QED BY <1>4, <1>5, <1>6 DEF FormInv

LEMMA KeepPanel ==
    ASSUME FormInv
    PROVE  /\ ClassesListed => FormInv'
           /\ LoadEdit => FormInv'
           /\ EditForm => FormInv'
           /\ \A mode : OpenForm(mode) => FormInv'
<1>0. form \in FormRecords /\ ShowsLoaded BY DEF FormInv, FormTypes
<1>1. ASSUME ClassesListed PROVE FormInv'
  <2>1. ShowsLoaded' BY <1>0, <1>1 DEF ClassesListed, ShowsLoaded, FormRecords
  <2> QED BY <1>0, <1>1, <2>1, FormAlone DEF ClassesListed, FormRecords
<1>2. ASSUME LoadEdit PROVE FormInv'
  <2>0. form.pc = "loading" /\ form.shown \in Shown BY <1>0, <1>2 DEF LoadEdit, ShowsLoaded
  <2>1. CASE form' = [form EXCEPT !.pc = "failed"]
    <3>1. ShowsLoaded' BY <1>0, <2>0, <2>1 DEF ShowsLoaded, FormRecords
    <3> QED BY <1>0, <1>2, <2>1, <3>1, FormAlone DEF LoadEdit, FormRecords
  <2>2. CASE form' # [form EXCEPT !.pc = "failed"]
    <3>1. ing.spec \in Kept BY <1>2, <2>2 DEF LoadEdit, FormInv, FormTypes, Ingress
    <3>2. form.shown.class \in Classes \union {None} BY <2>0 DEF Shown
    <3>3. PICK rows \in RuleRows(ing.spec.rules) :
             form' = [form EXCEPT
                !.pc = "open", !.loaded = ing.spec,
                !.shown = [rules |-> rows, tls |-> ing.spec.tls,
                         default |-> IF ing.spec.default = Resource THEN Empty ELSE ing.spec.default,
                         class |-> IF ing.spec.class = None THEN @.class ELSE ing.spec.class,
                         meta |-> ing.spec.meta],
                !.touched = IF ing.spec.class = None THEN @ \intersect {"class"} ELSE {}]
      BY <1>2, <2>2 DEF LoadEdit
    <3> DEFINE new == [rules |-> rows, tls |-> ing.spec.tls,
                       default |-> IF ing.spec.default = Resource THEN Empty ELSE ing.spec.default,
                       class |-> IF ing.spec.class = None THEN form.shown.class ELSE ing.spec.class,
                       meta |-> ing.spec.meta]
               left == IF ing.spec.class = None THEN form.touched \intersect {"class"} ELSE {}
    <3>4. new \in Shown /\ \A r \in Rows : rows[r] = ing.spec.rules[r] \/ rows[r] = Empty
      BY <3>1, <3>2, LoadedIsShown
    <3>5. /\ form'.pc = "open" /\ form'.loaded = ing.spec /\ form'.shown = new
          /\ form'.touched = left /\ form'.mode = form.mode
      BY <1>0, <3>3 DEF FormRecords
    <3>6. left \in SUBSET Fields BY <1>0 DEF FormRecords
    <3>7. "class" \in left \/ new.class = ing.spec.class
      BY <1>0, <2>0 DEF ShowsLoaded
    <3>8. ShowsLoaded' BY <3>1, <3>4, <3>5, <3>7 DEF ShowsLoaded
    <3>9. form' = [form EXCEPT !.pc = "open", !.loaded = ing.spec, !.shown = new, !.touched = left]
      BY <3>3
    <3>10. UNCHANGED <<ing, now, save>> BY <1>2 DEF LoadEdit
    <3> HIDE DEF new, left
    <3> QED BY <1>0, <3>1, <3>4, <3>6, <3>8, <3>9, <3>10, FormAlone DEF FormRecords
  <2> QED BY <2>1, <2>2
<1>3. ASSUME EditForm PROVE FormInv'
  <2>1. PICK f \in Fields : \E new \in Edits(f) :
           form' = [form EXCEPT !.shown = new, !.touched = @ \union {f}, !.edits = @ + 1]
    BY <1>3 DEF EditForm
  <2>2. PICK new \in Edits(f) :
           form' = [form EXCEPT !.shown = new, !.touched = @ \union {f}, !.edits = @ + 1]
    BY <2>1
  <2>3. form.pc \in {"classes", "open"} /\ form.edits < MaxEdits /\ form.shown \in Shown
    BY <1>0, <1>3 DEF EditForm, ShowsLoaded
  <2>4. /\ new \in Shown
        /\ \A r \in Rows \ {f} : new.rules[r] = form.shown.rules[r]
        /\ f # "tls" => new.tls = form.shown.tls
        /\ f # "default" => new.default = form.shown.default
        /\ f # "class" => new.class = form.shown.class
        /\ f # "meta" => new.meta = form.shown.meta
    BY <2>3, EditChangesOne
  <2>5. /\ form'.pc = form.pc /\ form'.mode = form.mode /\ form'.loaded = form.loaded
        /\ form'.shown = new /\ form'.touched = form.touched \union {f}
    BY <1>0, <2>2 DEF FormRecords
  <2>6. ShowsLoaded' BY <1>0, <2>3, <2>4, <2>5 DEF ShowsLoaded
  <2>7. UNCHANGED <<ing, now, save>> BY <1>3 DEF EditForm
  <2>8. form.edits + 1 \in 0..MaxEdits BY <1>0, <2>3, Bounds DEF FormRecords
  <2>9. form' \in FormRecords BY <1>0, <2>2, <2>4, <2>8 DEF FormRecords
  <2> QED BY <2>6, <2>7, <2>9, FormAlone
<1>4. ASSUME NEW mode, OpenForm(mode) PROVE FormInv'
  <2>1. PICK r \in Rows :
           form' = [NoForm EXCEPT !.mode = mode, !.shown = Fresh(r),
                                  !.pc = IF mode = "edit" THEN "classes" ELSE "open"]
    BY <1>4 DEF OpenForm
  <2>2. mode \in {"edit", "create"} /\ UNCHANGED <<ing, now, save>> BY <1>4 DEF OpenForm
  <2>3. Fresh(r) \in Shown /\ Fresh(r).class = None BY FreshIsShown
  <2>4. ShowsLoaded' BY <2>1, <2>2, <2>3 DEF ShowsLoaded, NoForm
  <2>5. form' \in FormRecords
    <3>1. 0 \in 0..MaxEdits BY Bounds
    <3>2. form' = [mode |-> mode, pc |-> IF mode = "edit" THEN "classes" ELSE "open",
                   shown |-> Fresh(r), loaded |-> None, touched |-> {}, edits |-> 0]
      BY <2>1 DEF NoForm
    <3> QED BY <2>2, <2>3, <3>1, <3>2 DEF FormRecords
  <2> QED BY <2>2, <2>4, <2>5, FormAlone
<1> QED BY <1>1, <1>2, <1>3, <1>4

\* No panel: the calls go on, to be answered to nobody.
LEMMA KeepClosed ==
    ASSUME FormInv, UNCHANGED <<ing, now>>, form' = NoForm,
           save' = save \/ save' = [v \in Saves |-> [save[v] EXCEPT !.mine = FALSE]]
    PROVE  FormInv'
<1>1. /\ save' \in [Saves -> SaveRecords]
      /\ \A v \in Saves :
            /\ save'[v].pc = save[v].pc /\ save'[v].mode = save[v].mode
            /\ save'[v].payload = save[v].payload /\ save'[v].loaded = save[v].loaded
            /\ save'[v].touched = save[v].touched /\ save'[v].read = save[v].read
            /\ save'[v].wrote = save[v].wrote
  <2>1. save \in [Saves -> SaveRecords] BY DEF FormInv, FormTypes
  <2>2. CASE save' = save BY <2>1, <2>2
  <2>3. CASE save' = [v \in Saves |-> [save[v] EXCEPT !.mine = FALSE]]
    <3>1. ASSUME NEW k \in SaveRecords
          PROVE  /\ [k EXCEPT !.mine = FALSE] \in SaveRecords
                 /\ LET new == [k EXCEPT !.mine = FALSE] IN
                       /\ new.pc = k.pc /\ new.mode = k.mode /\ new.payload = k.payload
                       /\ new.loaded = k.loaded /\ new.touched = k.touched
                       /\ new.read = k.read /\ new.wrote = k.wrote
      BY <3>1 DEF SaveRecords
    <3> QED BY <2>1, <2>3, <3>1
  <2> QED BY <2>2, <2>3
<1>2. NoForm \in FormRecords BY FormConstants DEF FormRecords, NoForm
<1>3. FormTypes' BY <1>1, <1>2 DEF FormInv, FormTypes
<1>4. ShowsLoaded' BY DEF ShowsLoaded, NoForm
<1>5. SavesSound' BY <1>1 DEF FormInv, SavesSound, KeepsTheRest
<1>6. VersionsTell' BY <1>1 DEF FormInv, VersionsTell
<1> QED BY <1>3, <1>4, <1>5, <1>6 DEF FormInv

\* One call moves on and carries what it carried; if it is about to replace the
\* ingress it has just read it.
LEMMA CallMovesOn ==
    ASSUME FormInv, NEW v \in Saves, save[v].pc # "idle",
           NEW k \in SaveRecords, save' = [save EXCEPT ![v] = k], UNCHANGED <<ing, now, form>>,
           k.pc # "idle", k.mode = save[v].mode, k.payload = save[v].payload,
           k.loaded = save[v].loaded, k.touched = save[v].touched,
           k.pc = "write" /\ k.mode = "edit" => ing # None /\ k.read = ing
    PROVE  FormInv'
<1>1. /\ save' \in [Saves -> SaveRecords] /\ save'[v] = k
      /\ \A w \in Saves \ {v} : save'[w] = save[w]
  BY DEF FormInv, FormTypes
<1>2. FormTypes' BY <1>1 DEF FormInv, FormTypes
<1>3. ShowsLoaded' BY DEF FormInv, ShowsLoaded
<1>4. SavesSound'
  <2>1. save[v].mode = "edit" => KeepsTheRest(k) BY DEF FormInv, SavesSound, KeepsTheRest
  <2> QED BY <1>1, <2>1 DEF FormInv, SavesSound
<1>5. VersionsTell'
  <2>1. ing # None => ing \in Ingress BY DEF FormInv, FormTypes
  <2> QED BY <1>1, <2>1 DEF FormInv, VersionsTell
<1> QED BY <1>2, <1>3, <1>4, <1>5 DEF FormInv

LEMMA KeepSubmit ==
    ASSUME FormInv, NEW v \in Saves, Submit(v)
    PROVE  FormInv'
<1> DEFINE k == [NoSave EXCEPT !.pc = "ask", !.mine = TRUE, !.mode = form.mode,
                               !.loaded = form.loaded, !.touched = form.touched,
                               !.payload = Payload(form.shown)]
<1>1. /\ save' = [save EXCEPT ![v] = k] /\ UNCHANGED <<ing, now, form>>
      /\ form.pc = "open" /\ Valid(form.shown)
  BY DEF Submit
<1>2. form \in FormRecords /\ form.shown \in Shown
  BY <1>1 DEF FormInv, FormTypes, ShowsLoaded
<1>3. /\ Payload(form.shown) \in Kept
      /\ Payload(form.shown).rules = form.shown.rules
      /\ Payload(form.shown).default = form.shown.default
      /\ Payload(form.shown).class = form.shown.class /\ Payload(form.shown).meta = form.shown.meta
      /\ Payload(form.shown).tls = form.shown.tls \ {Blank}
  BY <1>1, <1>2, PayloadIsKept
<1>4. /\ k.pc = "ask" /\ k.mode = form.mode /\ k.loaded = form.loaded
      /\ k.touched = form.touched /\ k.payload = Payload(form.shown)
  BY DEF NoSave
<1>5. k \in SaveRecords BY <1>2, <1>3 DEF NoSave, SaveRecords, FormRecords
<1> HIDE DEF k
<1>6. k.mode = "edit" => KeepsTheRest(k)
  <2> SUFFICES ASSUME form.mode = "edit" PROVE KeepsTheRest(k)
    BY <1>4
  <2>1. /\ form.shown.default # Empty /\ \A r \in Rows : form.shown.rules[r] # Empty
    BY <1>1 DEF Valid
  <2>2. /\ \A r \in Rows \ form.touched :
              form.shown.rules[r] = form.loaded.rules[r] \/ form.shown.rules[r] = Empty
        /\ "default" \in form.touched \/ form.shown.default \in {form.loaded.default, Empty}
        /\ "class" \in form.touched \/ form.shown.class = form.loaded.class
        /\ "meta" \in form.touched \/ form.shown.meta = form.loaded.meta
        /\ "tls" \in form.touched \/ form.shown.tls = form.loaded.tls
    BY <1>1 DEF FormInv, ShowsLoaded
  <2>3. "tls" \in Unsupported(form.loaded) \/ form.loaded.tls \ {Blank} = form.loaded.tls
    BY DEF Unsupported
  <2> QED BY <1>3, <1>4, <2>1, <2>2, <2>3 DEF KeepsTheRest
<1>7. /\ save' \in [Saves -> SaveRecords] /\ save'[v] = k
      /\ \A w \in Saves \ {v} : save'[w] = save[w]
  BY <1>1, <1>5 DEF FormInv, FormTypes
<1>8. FormTypes' BY <1>1, <1>7 DEF FormInv, FormTypes
<1>9. ShowsLoaded' BY <1>1 DEF FormInv, ShowsLoaded
<1>10. SavesSound' BY <1>3, <1>4, <1>6, <1>7 DEF FormInv, SavesSound
<1>11. VersionsTell' BY <1>1, <1>4, <1>7 DEF FormInv, VersionsTell
<1> QED BY <1>8, <1>9, <1>10, <1>11 DEF FormInv

LEMMA KeepCall ==
    ASSUME FormInv, NEW v \in Saves, Agree(v) \/ Decline(v) \/ Get(v) \/ Fail(v)
    PROVE  FormInv'
<1>0. save \in [Saves -> SaveRecords] /\ save[v] \in SaveRecords BY DEF FormInv, FormTypes
<1>1. UNCHANGED <<ing, now, form>> /\ save[v].pc # "idle"
  BY DEF Agree, Decline, Get, Fail
<1>2. ASSUME NEW r \in {"none", "done", "error"}, Answer(v, r) PROVE FormInv'
  <2> DEFINE k == [save[v] EXCEPT !.pc = "back", !.result = r]
  <2>1. save' = [save EXCEPT ![v] = k] BY <1>0, <1>2 DEF Answer
  <2>2. /\ k \in SaveRecords /\ k.pc = "back" /\ k.mode = save[v].mode
        /\ k.payload = save[v].payload /\ k.loaded = save[v].loaded
        /\ k.touched = save[v].touched
    BY <1>0 DEF SaveRecords
  <2> HIDE DEF k
  <2> QED BY <1>1, <2>1, <2>2, CallMovesOn
<1>3. CASE Agree(v)
  <2> DEFINE k == [save[v] EXCEPT !.pc = IF save[v].mode = "edit" THEN "get" ELSE "write"]
  <2>1. save' = [save EXCEPT ![v] = k] BY <1>0, <1>3 DEF Agree
  <2>2. /\ k \in SaveRecords /\ k.pc \in {"get", "write"} /\ k.mode = save[v].mode
        /\ k.payload = save[v].payload /\ k.loaded = save[v].loaded
        /\ k.touched = save[v].touched /\ (k.pc = "write" => k.mode # "edit")
    BY <1>0 DEF SaveRecords
  <2> HIDE DEF k
  <2> QED BY <1>1, <2>1, <2>2, CallMovesOn
<1>4. CASE Get(v) /\ ing # None
  <2> DEFINE k == [save[v] EXCEPT !.pc = "write", !.read = ing]
  <2>0. ing \in Ingress BY <1>4 DEF FormInv, FormTypes
  <2>1. save' = [save EXCEPT ![v] = k] BY <1>0, <1>4 DEF Get
  <2>2. /\ k \in SaveRecords /\ k.pc = "write" /\ k.mode = save[v].mode
        /\ k.payload = save[v].payload /\ k.loaded = save[v].loaded
        /\ k.touched = save[v].touched /\ k.read = ing
    BY <1>0, <2>0 DEF SaveRecords
  <2> HIDE DEF k
  <2> QED BY <1>1, <1>4, <2>1, <2>2, CallMovesOn
<1> QED BY <1>2, <1>3, <1>4 DEF Decline, Get, Fail

\* A write that is made raises the version beyond every one read before.
LEMMA KeepWrite ==
    ASSUME FormInv, NEW v \in Saves, Update(v) \/ Create(v)
    PROVE  FormInv'
<1>0. save \in [Saves -> SaveRecords] /\ save[v] \in SaveRecords BY DEF FormInv, FormTypes
<1>1. form' = form /\ save[v].pc = "write" BY DEF Update, Create
<1>2. CASE Answer(v, "error") /\ UNCHANGED <<ing, now>>
  <2> DEFINE k == [save[v] EXCEPT !.pc = "back", !.result = "error"]
  <2>1. save' = [save EXCEPT ![v] = k] BY <1>0, <1>2 DEF Answer
  <2>2. /\ k \in SaveRecords /\ k.pc = "back" /\ k.mode = save[v].mode
        /\ k.payload = save[v].payload /\ k.loaded = save[v].loaded
        /\ k.touched = save[v].touched
    BY <1>0 DEF SaveRecords
  <2> HIDE DEF k
  <2> QED BY <1>1, <1>2, <2>1, <2>2, CallMovesOn
<1>3. ASSUME Applied(v), now < MaxVersion, now' = now + 1,
             ing' \in Ingress, ing'.version = now'
      PROVE  FormInv'
  <2>1. PICK r \in {"done", "error"} :
           save' = [save EXCEPT ![v].pc = "back", ![v].result = r, ![v].wrote = TRUE]
    BY <1>3 DEF Applied
  <2> DEFINE k == [save[v] EXCEPT !.pc = "back", !.result = r, !.wrote = TRUE]
  <2>2. save' = [save EXCEPT ![v] = k] BY <1>0, <2>1
  <2>3. /\ k \in SaveRecords /\ k.pc = "back" /\ k.mode = save[v].mode
        /\ k.payload = save[v].payload /\ k.loaded = save[v].loaded
        /\ k.touched = save[v].touched
    BY <1>0 DEF SaveRecords
  <2> HIDE DEF k
  <2>4. /\ save' \in [Saves -> SaveRecords] /\ save'[v] = k
        /\ \A w \in Saves \ {v} : save'[w] = save[w]
    BY <1>0, <2>2, <2>3
  <2>5. now \in Nat /\ now' \in 0..MaxVersion BY <1>3, Bounds DEF FormInv, FormTypes
  <2>6. FormTypes' BY <1>1, <1>3, <2>4, <2>5 DEF FormInv, FormTypes
  <2>7. ShowsLoaded' BY <1>1 DEF FormInv, ShowsLoaded
  <2>8. SavesSound'
    <3>1. save[v].mode = "edit" => KeepsTheRest(k)
      BY <1>1, <2>3 DEF FormInv, SavesSound, KeepsTheRest
    <3> QED BY <1>1, <2>3, <2>4, <3>1 DEF FormInv, SavesSound
  <2>9. VersionsTell'
    <3>1. \A x \in Ingress : x.version \in Nat BY Bounds DEF Ingress
    <3> QED BY <1>3, <2>3, <2>4, <2>5, <3>1 DEF FormInv, VersionsTell
  <2> QED BY <2>6, <2>7, <2>8, <2>9 DEF FormInv
<1>4. now < MaxVersion /\ now' = now + 1 => now' \in 0..MaxVersion
  BY Bounds DEF FormInv, FormTypes
<1>5. save[v].payload \in Kept BY <1>1 DEF FormInv, SavesSound
<1>6. CASE Update(v) /\ Unchanged(v)
  <2>1. /\ now < MaxVersion /\ now' = now + 1 /\ Applied(v)
        /\ ing' = [save[v].read EXCEPT !.spec = save[v].payload, !.version = now']
    BY <1>6 DEF Update
  <2>2. save[v].read \in Ingress BY <1>1, <1>6 DEF Update, FormInv, VersionsTell
  <2>3. ing' \in Ingress /\ ing'.version = now' BY <1>4, <1>5, <2>1, <2>2 DEF Ingress
  <2> QED BY <1>3, <2>1, <2>3
<1>7. CASE Create(v) /\ ing = None
  <2>1. /\ now < MaxVersion /\ now' = now + 1 /\ Applied(v)
        /\ ing' = [spec |-> save[v].payload, rest |-> 0, version |-> now']
    BY <1>7 DEF Create
  <2>2. ing' \in Ingress /\ ing'.version = now' BY <1>4, <1>5, <2>1, Bounds DEF Ingress
  <2> QED BY <1>3, <2>1, <2>2
<1> QED BY <1>2, <1>6, <1>7 DEF Update, Create

LEMMA KeepReturns ==
    ASSUME FormInv, NEW v \in Saves, Returns(v)
    PROVE  FormInv'
<1>1. /\ save' = [save EXCEPT ![v] = NoSave] /\ UNCHANGED <<ing, now>>
      /\ form' = NoForm \/ form' = form
  BY DEF Returns
<1>2. NoSave \in SaveRecords /\ NoSave.pc = "idle" /\ ~NoSave.wrote BY DEF NoSave, SaveRecords
<1>3. /\ save' \in [Saves -> SaveRecords] /\ save'[v] = NoSave
      /\ \A w \in Saves \ {v} : save'[w] = save[w]
  BY <1>1, <1>2 DEF FormInv, FormTypes
<1>4. form' \in FormRecords /\ ShowsLoaded'
  <2>1. CASE form' = form BY <2>1 DEF FormInv, FormTypes, ShowsLoaded
  <2>2. CASE form' = NoForm BY <2>2, Bounds DEF NoForm, FormRecords, ShowsLoaded
  <2> QED BY <1>1, <2>1, <2>2
<1>5. FormTypes' BY <1>1, <1>3, <1>4 DEF FormInv, FormTypes
<1>6. SavesSound' BY <1>2, <1>3 DEF FormInv, SavesSound
<1>7. VersionsTell' BY <1>1, <1>2, <1>3 DEF FormInv, VersionsTell
<1> QED BY <1>4, <1>5, <1>6, <1>7 DEF FormInv

LEMMA KeepSave ==
    ASSUME FormInv, NEW v \in Saves, SaveStep(v)
    PROVE  FormInv'
BY KeepSubmit, KeepCall, KeepWrite, KeepReturns DEF SaveStep
-----------------------------------------------------------------------------
(***************************************************************************)
(* The checks.                                                             *)
(***************************************************************************)

\* A list is part of what is there, and all of it unless it was cut.
LEMMA ListedIsThere ==
    ASSUME NEW all, IsFiniteSet(all), NEW got \in Listed(all)
    PROVE  got \subseteq all /\ (~(Cardinality(all) > Cap) => got = all)
<1>1. Cardinality(all) \in Nat BY FS_CardinalityType
<1> QED BY <1>1, HealthConstants DEF Listed

\* A mark is a thing or a ready service, never both.
LEMMA MarksApart ==
    ASSUME HealthInv
    PROVE  /\ Marks(there, ready) \subseteq Things
           /\ Marks(there, ready) \intersect (Services \union Secrets) = there
           /\ \A s \in Services : <<s, "ready">> \in Marks(there, ready) <=> s \in ready /\ s \in there
<1>1. there \subseteq Services \union Secrets /\ ready \subseteq Services BY DEF HealthInv
<1>2. \A s \in Services : <<s, "ready">> \notin Services \union Secrets BY HealthConstants
<1> QED BY <1>1, <1>2 DEF Marks, Things

\* One check moves on; the panel is open and what is there does not change.
LEMMA CheckMovesOn ==
    ASSUME HealthInv, NEW k \in Checks, NEW c \in CheckRecords,
           check' = [check EXCEPT ![k] = c], UNCHANGED <<there, ready, comings, inspecting>>,
           c.always \subseteq c.sometime,
           c.pc # "idle" => /\ inspecting /\ c.spec \in Kept
                            /\ c.always \subseteq Marks(there, ready)
                            /\ Marks(there, ready) \subseteq c.sometime
                            /\ ListsSound(c)
    PROVE  HealthInv'
<1>1. /\ check' \in [Checks -> CheckRecords] /\ check'[k] = c
      /\ \A j \in Checks \ {k} : check'[j] = check[j]
  BY DEF HealthInv
<1> QED BY <1>1 DEF HealthInv, Marks

LEMMA NoCheckIsRecord == NoCheck \in CheckRecords
BY DEF NoCheck, CheckRecords

LEMMA KeepComing == HealthInv /\ Coming => HealthInv'
<1> SUFFICES ASSUME HealthInv, Coming PROVE HealthInv'
  OBVIOUS
<1>1. /\ there' \in SUBSET (Services \union Secrets) /\ ready' \in SUBSET Services
      /\ check' = Watched(there', ready') /\ inspecting' = inspecting
  BY DEF Coming, HealthInv
<1>2. comings' \in 0..MaxComings BY HealthConstants DEF Coming, HealthInv
<1>3. Marks(there', ready') \subseteq Things BY <1>1 DEF Marks, Things
<1>4. ASSUME NEW k \in Checks
      PROVE  LET c == [check[k] EXCEPT !.always = @ \intersect Marks(there', ready'),
                                       !.sometime = @ \union Marks(there', ready')]
             IN  /\ c \in CheckRecords
                 /\ c.pc = check[k].pc /\ c.spec = check[k].spec /\ c.cut = check[k].cut
                 /\ c.services = check[k].services /\ c.endpoints = check[k].endpoints
                 /\ c.secrets = check[k].secrets
                 /\ c.always = check[k].always \intersect Marks(there', ready')
                 /\ c.sometime = check[k].sometime \union Marks(there', ready')
  <2>1. check[k] \in CheckRecords BY DEF HealthInv
  <2> QED BY <1>3, <2>1 DEF CheckRecords
<1>5. /\ check' \in [Checks -> CheckRecords]
      /\ \A k \in Checks :
            /\ check'[k].pc = check[k].pc /\ check'[k].spec = check[k].spec
            /\ check'[k].cut = check[k].cut /\ check'[k].services = check[k].services
            /\ check'[k].endpoints = check[k].endpoints /\ check'[k].secrets = check[k].secrets
            /\ check'[k].always = check[k].always \intersect Marks(there', ready')
            /\ check'[k].sometime = check[k].sometime \union Marks(there', ready')
  BY <1>1, <1>4 DEF Watched
<1>6. ASSUME NEW k \in Checks, ListsSound(check[k]) PROVE ListsSound(check'[k])
  BY <1>5, <1>6 DEF ListsSound
<1>7. Marks(there, ready)' = Marks(there', ready') BY DEF Marks
<1>8. ASSUME NEW k \in Checks
      PROVE  /\ check'[k].always \subseteq check'[k].sometime
             /\ check'[k].pc # "idle" =>
                  /\ inspecting' /\ check'[k].spec \in Kept
                  /\ check'[k].always \subseteq Marks(there, ready)'
                  /\ Marks(there, ready)' \subseteq check'[k].sometime
                  /\ ListsSound(check'[k])
  BY <1>1, <1>5, <1>6, <1>7 DEF HealthInv
<1> QED BY <1>1, <1>2, <1>5, <1>8 DEF HealthInv, ListsSound

\* No panel, no check.
LEMMA KeepNoPanel ==
    ASSUME NoPanel
    PROVE  HealthInv'
<1>1. /\ check' \in [Checks -> CheckRecords]
      /\ \A k \in Checks : check'[k] = NoCheck
  BY NoCheckIsRecord DEF NoPanel
<1>2. NoCheck.pc = "idle" /\ NoCheck.always = {} /\ NoCheck.sometime = {} BY DEF NoCheck
<1>3. 0 \in 0..MaxComings BY HealthConstants
<1> QED BY <1>1, <1>2, <1>3 DEF NoPanel, HealthInv

LEMMA KeepInspect == HealthInv /\ Inspect => HealthInv'
<1> SUFFICES ASSUME HealthInv, Inspect PROVE HealthInv'
  OBVIOUS
<1>1. \A k \in Checks : check[k].pc = "idle" BY DEF Inspect, HealthInv
<1> QED BY <1>1 DEF Inspect, HealthInv

LEMMA KeepCheck ==
    ASSUME FormTypes, HealthInv, NEW k \in Checks, CheckStep(k)
    PROVE  HealthInv'
<1>0. /\ check[k] \in CheckRecords
      /\ check[k].always \subseteq check[k].sometime
      /\ check[k].pc # "idle" =>
            /\ inspecting /\ check[k].spec \in Kept
            /\ check[k].always \subseteq Marks(there, ready)
            /\ Marks(there, ready) \subseteq check[k].sometime
            /\ ListsSound(check[k])
      /\ there \subseteq Services \union Secrets /\ ready \subseteq Services
  BY DEF HealthInv
<1>1. CASE Begin(k)
  <2> DEFINE c == [NoCheck EXCEPT !.pc = "services", !.spec = ing.spec,
                                  !.always = Marks(there, ready), !.sometime = Marks(there, ready)]
  <2>1. check' = [check EXCEPT ![k] = c] /\ inspecting /\ ing # None
        /\ UNCHANGED <<there, ready, comings, inspecting>>
    BY <1>1 DEF Begin
  <2>2. ing.spec \in Kept BY <2>1 DEF FormTypes, Ingress
  <2>3. Marks(there, ready) \subseteq Things BY MarksApart
  <2>4. /\ c \in CheckRecords /\ c.pc = "services" /\ c.spec = ing.spec
        /\ c.always = Marks(there, ready) /\ c.sometime = Marks(there, ready)
        /\ c.services = Unread /\ c.endpoints = Unread /\ c.secrets = Unread
    BY <2>2, <2>3 DEF NoCheck, CheckRecords
  <2> HIDE DEF c
  <2> QED BY <2>1, <2>2, <2>4, CheckMovesOn DEF ListsSound
<1>2. CASE ListServices(k)
  <2> DEFINE all == there \intersect Services
  <2>1. PICK got \in Listed(all) :
           check' = [check EXCEPT ![k].pc = "endpoints", ![k].services = got, ![k].cut = Cut(k, all)]
    BY <1>2 DEF ListServices
  <2>2. got \subseteq all /\ (~Cut(k, all) => got = all /\ ~check[k].cut)
    <3>1. IsFiniteSet(all) BY HealthConstants, FS_Subset
    <3> QED BY <3>1, ListedIsThere DEF Cut
  <2> DEFINE c == [check[k] EXCEPT !.pc = "endpoints", !.services = got, !.cut = Cut(k, all)]
  <2>3. check' = [check EXCEPT ![k] = c] BY <2>1 DEF HealthInv
  <2>4. Cut(k, all) \in BOOLEAN BY <1>0 DEF Cut, CheckRecords
  <2>5. /\ c \in CheckRecords /\ c.pc = "endpoints" /\ c.spec = check[k].spec
        /\ c.always = check[k].always /\ c.sometime = check[k].sometime
        /\ c.services = got /\ c.endpoints = check[k].endpoints /\ c.secrets = check[k].secrets
        /\ (~c.cut => got = all /\ ~check[k].cut)
    BY <1>0, <2>2, <2>4 DEF CheckRecords
  <2> HIDE DEF c
  <2>6. check[k].pc # "idle" /\ UNCHANGED <<there, ready, comings, inspecting>>
    BY <1>2 DEF ListServices
  <2>7. check[k].always \intersect Services \subseteq all BY <1>0, <2>6, MarksApart
  <2>8. ListsSound(c) BY <1>0, <2>5, <2>6, <2>7 DEF ListsSound
  <2> QED BY <1>0, <2>3, <2>5, <2>6, <2>8, CheckMovesOn
<1>3. CASE ListEndpoints(k)
  <2> DEFINE all == ready \intersect there
  <2>1. PICK got \in Listed(all) :
           check' = [check EXCEPT ![k].pc = "secrets", ![k].endpoints = got, ![k].cut = Cut(k, all)]
    BY <1>3 DEF ListEndpoints
  <2>2. got \subseteq all /\ (~Cut(k, all) => got = all /\ ~check[k].cut)
    <3>1. all \subseteq Services BY <1>0
    <3>2. IsFiniteSet(all) BY <3>1, HealthConstants, FS_Subset
    <3> QED BY <3>2, ListedIsThere DEF Cut
  <2> DEFINE c == [check[k] EXCEPT !.pc = "secrets", !.endpoints = got, !.cut = Cut(k, all)]
  <2>3. check' = [check EXCEPT ![k] = c] BY <2>1 DEF HealthInv
  <2>4. Cut(k, all) \in BOOLEAN BY <1>0 DEF Cut, CheckRecords
  <2>5. /\ c \in CheckRecords /\ c.pc = "secrets" /\ c.spec = check[k].spec
        /\ c.always = check[k].always /\ c.sometime = check[k].sometime
        /\ c.services = check[k].services /\ c.endpoints = got /\ c.secrets = check[k].secrets
        /\ (~c.cut => got = all /\ ~check[k].cut)
    BY <1>0, <2>2, <2>4 DEF CheckRecords
  <2> HIDE DEF c
  <2>6. check[k].pc # "idle" /\ UNCHANGED <<there, ready, comings, inspecting>>
    BY <1>3 DEF ListEndpoints
  <2>7. \A s \in Services : <<s, "ready">> \in check[k].always => s \in all
    BY <1>0, <2>6, MarksApart
  <2>8. \A s \in got : <<s, "ready">> \in check[k].sometime
    BY <1>0, <2>2, <2>6, MarksApart
  <2>9. ListsSound(c) BY <1>0, <2>5, <2>6, <2>7, <2>8 DEF ListsSound
  <2> QED BY <1>0, <2>3, <2>5, <2>6, <2>9, CheckMovesOn
<1>4. CASE ListSecrets(k)
  <2> DEFINE all == there \intersect Secrets
  <2>1. PICK got \in Listed(all) :
           check' = [check EXCEPT ![k].pc = "show", ![k].secrets = got, ![k].cut = Cut(k, all)]
    BY <1>4 DEF ListSecrets
  <2>2. got \subseteq all /\ (~Cut(k, all) => got = all /\ ~check[k].cut)
    <3>1. IsFiniteSet(all) BY HealthConstants, FS_Subset
    <3> QED BY <3>1, ListedIsThere DEF Cut
  <2> DEFINE c == [check[k] EXCEPT !.pc = "show", !.secrets = got, !.cut = Cut(k, all)]
  <2>3. check' = [check EXCEPT ![k] = c] BY <2>1 DEF HealthInv
  <2>4. Cut(k, all) \in BOOLEAN BY <1>0 DEF Cut, CheckRecords
  <2>5. /\ c \in CheckRecords /\ c.pc = "show" /\ c.spec = check[k].spec
        /\ c.always = check[k].always /\ c.sometime = check[k].sometime
        /\ c.services = check[k].services /\ c.endpoints = check[k].endpoints /\ c.secrets = got
        /\ (~c.cut => got = all /\ ~check[k].cut)
    BY <1>0, <2>2, <2>4 DEF CheckRecords
  <2> HIDE DEF c
  <2>6. check[k].pc # "idle" /\ UNCHANGED <<there, ready, comings, inspecting>>
    BY <1>4 DEF ListSecrets
  <2>7. check[k].always \intersect Secrets \subseteq all BY <1>0, <2>6, MarksApart
  <2>8. got \subseteq check[k].sometime BY <1>0, <2>2, <2>6, MarksApart
  <2>9. ListsSound(c) BY <1>0, <2>5, <2>6, <2>7, <2>8 DEF ListsSound
  <2> QED BY <1>0, <2>3, <2>5, <2>6, <2>9, CheckMovesOn
<1>5. CASE ListFails(k)
  <2> DEFINE c == [check[k] EXCEPT !.pc = "show"]
  <2>1. /\ check' = [check EXCEPT ![k] = c] /\ check[k].pc # "idle"
        /\ UNCHANGED <<there, ready, comings, inspecting>>
    BY <1>5 DEF ListFails, HealthInv
  <2>2. /\ c \in CheckRecords /\ c.spec = check[k].spec /\ c.cut = check[k].cut
        /\ c.always = check[k].always /\ c.sometime = check[k].sometime
        /\ c.services = check[k].services /\ c.endpoints = check[k].endpoints
        /\ c.secrets = check[k].secrets
    BY <1>0 DEF CheckRecords
  <2> HIDE DEF c
  <2>3. ListsSound(c) BY <1>0, <2>1, <2>2 DEF ListsSound
  <2> QED BY <1>0, <2>1, <2>2, <2>3, CheckMovesOn
<1>6. CASE Show(k)
  <2>1. check' = [check EXCEPT ![k] = NoCheck] /\ UNCHANGED <<there, ready, comings, inspecting>>
    BY <1>6 DEF Show
  <2>2. NoCheck.pc = "idle" /\ NoCheck.always = {} /\ NoCheck.sometime = {} BY DEF NoCheck
  <2> QED BY <2>1, <2>2, NoCheckIsRecord, CheckMovesOn
<1> QED BY <1>1, <1>2, <1>3, <1>4, <1>5, <1>6 DEF CheckStep
-----------------------------------------------------------------------------
LEMMA InvInit == Init => IInv
<1> SUFFICES ASSUME Init PROVE IInv
  OBVIOUS
<1>1. FormInv BY FormInitially DEF Init
<1>2. check \in [Checks -> CheckRecords] /\ \A k \in Checks : check[k] = NoCheck
  BY NoCheckIsRecord DEF Init
<1>3. NoCheck.pc = "idle" /\ NoCheck.always = {} /\ NoCheck.sometime = {} BY DEF NoCheck
<1>4. 0 \in 0..MaxComings BY HealthConstants
<1> QED BY <1>1, <1>2, <1>3, <1>4 DEF Init, IInv, HealthInv

LEMMA InvStep == IInv /\ [Next]_vars => IInv'
<1> SUFFICES ASSUME FormInv, HealthInv, [Next]_vars PROVE FormInv' /\ HealthInv'
  BY DEF IInv
<1>1. ASSUME UNCHANGED formVars PROVE FormInv'
  BY <1>1 DEF formVars, FormInv, FormTypes, ShowsLoaded, SavesSound, VersionsTell
<1>2. ASSUME UNCHANGED healthVars PROVE HealthInv'
  BY <1>2 DEF healthVars, HealthInv, Marks
<1>3. CASE Coming BY <1>1, <1>3, KeepComing DEF Coming
<1>4. CASE Inspect BY <1>4, KeepInspect, KeepClosed DEF Inspect
<1>5. CASE CloseInspect BY <1>1, <1>5, KeepNoPanel DEF CloseInspect
<1>6. CASE OpenInstead BY <1>6, KeepPanel, KeepNoPanel DEF OpenInstead
<1>7. CASE FormSteps
  <2>1. CloseForm => FormInv' BY KeepClosed DEF CloseForm
  <2>2. FormInv' BY <1>7, <2>1, KeepOthers, KeepPanel, KeepSave DEF FormSteps
  <2> QED BY <1>2, <1>7, <2>2 DEF FormSteps
<1>8. ASSUME NEW k \in Checks, CheckStep(k) PROVE FormInv' /\ HealthInv'
  <2>1. UNCHANGED formVars
    BY <1>8 DEF CheckStep, Begin, ListServices, ListEndpoints, ListSecrets, ListFails, Show
  <2> QED BY <1>1, <1>8, <2>1, KeepCheck DEF FormInv
<1>9. CASE UNCHANGED vars BY <1>1, <1>2, <1>9 DEF vars
<1> QED BY <1>3, <1>4, <1>5, <1>6, <1>7, <1>8, <1>9 DEF Next

LEMMA Invariance == Spec => []IInv
BY InvInit, InvStep, PTL DEF Spec

\* The form, its calls and the checks are well-typed, for any ingress and any
\* calls.
THEOREM TypeCorrect == Spec => []TypeOK
<1>1. IInv => TypeOK
  <2> SUFFICES ASSUME FormTypes, HealthInv PROVE TypeOK
    BY DEF IInv, FormInv
  <2>1. FormTypeOK BY DEF FormTypes, FormTypeOK, FormRecords, SaveRecords
  <2> QED BY <2>1 DEF HealthInv, CheckRecords, TypeOK
<1> QED BY <1>1, Invariance, PTL

\* An edit drops nothing of the ingress that the form could not show, unless
\* its banner said so (IngressEditSpec, UpdateIngress).
THEOREM NothingLostHolds == Spec => []NothingLostSilently
<1>1. IInv => NothingLostSilently
  BY DEF IInv, FormInv, SavesSound, KeepsTheRest, NothingLostSilently
<1> QED BY <1>1, Invariance, PTL

\* A save that replaces the fields of the form leaves the rest as it is at that
\* moment, whoever wrote it.
THEOREM RestSurvivesHolds == Spec => RestSurvives
<1>1. IInv /\ [Next]_vars =>
         [ing # None /\ ing' # None /\ ing'.spec # ing.spec => ing'.rest = ing.rest]_formVars
  <2> SUFFICES ASSUME FormInv, Next, ing # None, ing' # None, ing'.spec # ing.spec
               PROVE  ing'.rest = ing.rest
    BY DEF IInv, vars, formVars
  <2>1. ing \in Ingress BY DEF FormInv, FormTypes
  <2>2. CASE Others BY <2>1, <2>2 DEF Others, Ingress
  <2>3. ASSUME NEW v \in Saves, Update(v) PROVE ing'.rest = ing.rest
    <3>1. CASE ~Unchanged(v) BY <2>3, <3>1 DEF Update
    <3>2. CASE Unchanged(v)
      <4>1. save[v].read = ing
        BY <2>3, <3>2 DEF Update, Unchanged, FormInv, VersionsTell
      <4>2. ing' = [ing EXCEPT !.spec = save[v].payload, !.version = now']
        BY <2>3, <3>2, <4>1 DEF Update
      <4> QED BY <2>1, <4>2 DEF Ingress
    <3> QED BY <3>1, <3>2
  <2>4. CASE ing' = ing BY <2>4
  <2>5. Others \/ (\E v \in Saves : Update(v)) \/ ing' = ing
    BY DEF Next, Coming, Inspect, CloseInspect, OpenInstead, FormSteps, CheckStep, formVars,
           Begin, ListServices, ListEndpoints, ListSecrets, ListFails, Show, OpenForm,
           CloseForm, ClassesListed, LoadEdit, EditForm, SaveStep, Submit, Agree, Decline,
           Get, Create, Fail, Returns
  <2> QED BY <2>2, <2>3, <2>4, <2>5
<1> QED BY <1>1, Invariance, PTL DEF Spec, RestSurvives

\* What a check says is missing was not there all the time, unless a list was
\* cut; what it calls healthy was there at some time (loadIngressHealth,
\* enrichIngress).
THEOREM ReportIsTrueHolds == Spec => []ReportIsTrue
<1>1. IInv => ReportIsTrue
  <2> SUFFICES ASSUME HealthInv, NEW k \in Checks, check[k].pc = "show"
               PROVE  /\ ~check[k].cut => MissingIsMissing(check[k])
                      /\ Healthy(Report(check[k])) => HealthyIsHealthy(check[k])
    BY DEF IInv, ReportIsTrue
  <2> DEFINE c == check[k]
             rep == Report(c)
  <2>1. ListsSound(c) /\ c.spec \in Kept BY DEF HealthInv
  <2>2. /\ Backends(c.spec) \ {Resource} \subseteq Services
        /\ c.spec.tls \ {Blank} \subseteq Secrets
    BY <2>1 DEF Kept, Backends
  <2>3. /\ rep.noService = {b \in Backends(c.spec) : BackendStatus(c, b) = "no-service"}
        /\ rep.noEndpoints = {b \in Backends(c.spec) : BackendStatus(c, b) = "no-endpoints"}
        /\ rep.missing = {t \in c.spec.tls \ {Blank} : SecretStatus(c, t) = "missing"}
        /\ rep.degraded = Degraded(c)
    BY DEF Report
  <2> HIDE DEF c, rep
  <2>4. ASSUME ~c.cut PROVE MissingIsMissing(c)
    <3>1. ASSUME NEW b \in rep.noService PROVE b \notin c.always
      BY <2>1, <2>3, <2>4 DEF BackendStatus, ListsSound
    <3>2. ASSUME NEW t \in rep.missing PROVE t \notin c.always
      BY <2>1, <2>2, <2>3, <2>4 DEF SecretStatus, ListsSound
    <3>3. ASSUME NEW s \in rep.noEndpoints PROVE <<s, "ready">> \notin c.always
      BY <2>1, <2>3, <2>4 DEF BackendStatus, ListsSound
    <3> QED BY <3>1, <3>2, <3>3 DEF MissingIsMissing, rep
  <2>5. ASSUME Healthy(rep) PROVE HealthyIsHealthy(c)
    <3>1. /\ c.services # Unread /\ c.endpoints # Unread /\ c.secrets # Unread
          /\ rep.noService = {} /\ rep.noEndpoints = {} /\ rep.missing = {}
      BY <2>3, <2>5 DEF Healthy, Degraded
    <3>2. ASSUME NEW s \in Backends(c.spec) \ {Resource} PROVE <<s, "ready">> \in c.sometime
      <4>1. s \in Services BY <2>2
      <4>2. BackendStatus(c, s) \notin {"no-service", "no-endpoints"} BY <2>3, <3>1
      <4> QED BY <2>1, <3>1, <4>1, <4>2 DEF BackendStatus, ListsSound
    <3>3. ASSUME NEW t \in c.spec.tls \ {Blank} PROVE t \in c.sometime
      <4>1. SecretStatus(c, t) # "missing" BY <2>3, <3>1
      <4> QED BY <2>1, <3>1, <4>1 DEF SecretStatus, ListsSound
    <3> QED BY <3>2, <3>3 DEF HealthyIsHealthy
  <2> QED BY <2>4, <2>5 DEF c, rep
<1> QED BY <1>1, Invariance, PTL
=============================================================================
