----------------------------- MODULE IngressForm -----------------------------
(***************************************************************************)
(* The panel that creates an ingress or edits one (IngressCreate.vue), and *)
(* the calls of the service behind it (ingress_create.go): the ingress is  *)
(* loaded into the form, what the form cannot express is left to the user, *)
(* and a save replaces the fields the form owns, while others go on        *)
(* changing the ingress.                                                   *)
(*                                                                         *)
(* A rule has one path.  A backend is a service (name and port are one     *)
(* value), another resource, or, for a rule, missing (a host without       *)
(* paths); annotations and labels are one value.                           *)
(***************************************************************************)
EXTENDS Naturals, FiniteSets

CONSTANTS
    Rows,       \* rules of an ingress
    Services,   \* services
    Secrets,    \* secrets of TLS blocks
    Classes,    \* ingress classes
    Metas,      \* annotations and labels
    Saves,      \* calls the form makes
    Written,    \* what others write
    MaxVersion, \* bound: changes of the ingress
    MaxEdits,   \* bound: changes of one form
    Resource,   \* a backend that is no service
    Bare,       \* a rule without paths
    Blank,      \* a TLS block without hosts and secret
    Empty,      \* a row of the form whose service is not filled in
    None        \* no row, default, class, annotation or object

VARIABLES
    ing,  \* the ingress in the cluster
    now,  \* the cluster's resource version, which every change raises
    form, \* the panel
    save  \* save[v]: a call of the form

formVars == <<ing, now, form, save>>

\* The fields the form owns, as the cluster holds them, as the form shows them
\* and as it sends them.
Kept    == [rules : [Rows -> Services \union {Resource, Bare, None}],
            tls : SUBSET (Secrets \union {Blank}), default : Services \union {Resource, None},
            class : Classes \union {None}, meta : Metas \union {None}]
Shown   == [rules : [Rows -> Services \union {Empty, None}],
            tls : SUBSET (Secrets \union {Blank}), default : Services \union {Empty, None},
            class : Classes \union {None}, meta : Metas \union {None}]
Fields  == Rows \union {"tls", "default", "class", "meta"}
Ingress == [spec : Kept, rest : 0..MaxVersion, version : 0..MaxVersion]

\* The fields are told apart, what others write is an ingress, and the bounds
\* are numbers.
ASSUME FormConstants ==
    /\ Rows \intersect {"tls", "default", "class", "meta"} = {}
    /\ Written \subseteq Kept
    /\ MaxVersion \in Nat /\ MaxEdits \in Nat

\* One rule without a service, and nothing else.
OneRow(r) == [q \in Rows |-> IF q = r THEN Empty ELSE None]
Fresh(r) == [rules |-> OneRow(r), tls |-> {}, default |-> None, class |-> None, meta |-> None]

NoForm == [mode |-> "none", pc |-> "closed", shown |-> None, loaded |-> None,
           touched |-> {}, edits |-> 0]
NoSave == [pc |-> "idle", mine |-> FALSE, mode |-> "none", loaded |-> None, touched |-> {},
           payload |-> None, read |-> None, wrote |-> FALSE, result |-> "none"]

FormTypeOK ==
    /\ ing \in Ingress \union {None}
    /\ now \in 0..MaxVersion
    /\ form \in [mode : {"none", "edit", "create"},
                 pc : {"closed", "classes", "loading", "open", "failed"},
                 shown : Shown \union {None}, loaded : Kept \union {None},
                 touched : SUBSET Fields, edits : 0..MaxEdits]
    /\ \A v \in Saves :
          /\ save[v].pc \in {"idle", "ask", "get", "write", "back"}
          /\ save[v].mode \in {"none", "edit", "create"}
          /\ save[v].payload \in Kept \union {None} /\ save[v].loaded \in Kept \union {None}
          /\ save[v].result \in {"none", "done", "error"}
          /\ save[v].read \in Ingress \union {None}

\* What the API server accepts: some rule, or a default backend.
Routes(s) == s.default # None \/ \E r \in Rows : s.rules[r] # None

FormInit ==
    /\ \E s \in Written : ing = [spec |-> s, rest |-> 0, version |-> 0]
    /\ now = 0
    /\ form = NoForm
    /\ save = [v \in Saves |-> NoSave]

-----------------------------------------------------------------------------
\* Others: users and controllers change what the form owns, controllers the
\* rest (status, finalizers), and the ingress may be deleted.
Others ==
    /\ ing # None /\ now < MaxVersion
    /\ now' = now + 1
    /\ \/ \E s \in Written \ {ing.spec} : ing' = [ing EXCEPT !.spec = s, !.version = now']
       \/ ing' = [ing EXCEPT !.rest = now', !.version = now']
       \/ ing' = None
    /\ UNCHANGED <<form, save>>

-----------------------------------------------------------------------------
\* The panel is mounted, in the place of the one before.  In both modes it
\* shows a form with one empty rule while the classes are listed.  (A save
\* still under way would be, to this panel, one of the others' changes.)
OpenForm(mode) ==
    /\ mode \in {"edit", "create"} /\ \A v \in Saves : save[v].pc = "idle"
    /\ \E r \in Rows :
          form' = [NoForm EXCEPT !.mode = mode, !.shown = Fresh(r),
                                 !.pc = IF mode = "edit" THEN "classes" ELSE "open"]
    /\ UNCHANGED <<ing, now, save>>

\* The panel is closed, or the namespace changes; an answer to its call finds
\* no panel.
CloseForm ==
    /\ form.pc # "closed"
    /\ form' = NoForm
    /\ save' = [v \in Saves |-> [save[v] EXCEPT !.mine = FALSE]]
    /\ UNCHANGED <<ing, now>>

\* The classes are listed, or cannot be; then the ingress is loaded.
ClassesListed ==
    /\ form.pc = "classes"
    /\ form' = [form EXCEPT !.pc = "loading"]
    /\ UNCHANGED <<ing, now, save>>

\* Mutant of RuleRow: a rule whose backend is no service gets no row.
RuleRowOrNothing(b) == IF b \in Services THEN b ELSE None

\* IngressEditSpec and loadEdit: what is no service is a row to be filled in.
RuleRow(b) == IF b \in Services \union {None} THEN b ELSE Empty

\* The rules of an ingress as rows; one that has none gets an empty row.
RuleRows(rules) ==
    IF \A r \in Rows : rules[r] = None THEN {OneRow(r) : r \in Rows}
    ELSE {[r \in Rows |-> RuleRow(rules[r])]}

\* What the banner names.
Unsupported(s) ==
    {r \in Rows : s.rules[r] = Resource}
    \union {f \in {"default"} : s.default = Resource}
    \union {f \in {"tls"} : Blank \in s.tls}

\* A class chosen in the empty form stays when the ingress has none.
LoadEdit ==
    /\ form.pc = "loading"
    /\ \/ /\ ing # None
          /\ \E rows \in RuleRows(ing.spec.rules) :
                form' = [form EXCEPT
                    !.pc = "open", !.loaded = ing.spec,
                    !.shown = [rules |-> rows, tls |-> ing.spec.tls,
                             default |-> IF ing.spec.default = Resource THEN Empty ELSE ing.spec.default,
                             class |-> IF ing.spec.class = None THEN @.class ELSE ing.spec.class,
                             meta |-> ing.spec.meta],
                    !.touched = IF ing.spec.class = None THEN @ \intersect {"class"} ELSE {}]
       \/ form' = [form EXCEPT !.pc = "failed"]
    /\ UNCHANGED <<ing, now, save>>

\* What a field of the form may become.
Edits(f) ==
    CASE f \in Rows   -> {[form.shown EXCEPT !.rules[f] = b] : b \in Services \union {Empty, None}}
      [] f = "tls"    -> {[form.shown EXCEPT !.tls = (@ \ {t}) \union ({t} \ @)] : t \in Secrets \union {Blank}}
      [] f = "default" -> {[form.shown EXCEPT !.default = b] : b \in Services \union {Empty, None}}
      [] f = "class"  -> {[form.shown EXCEPT !.class = c] : c \in Classes \union {None}}
      [] f = "meta"   -> {[form.shown EXCEPT !.meta = m] : m \in Metas \union {None}}

\* The user.
EditForm ==
    /\ form.pc \in {"classes", "open"} /\ form.edits < MaxEdits
    /\ \E f \in Fields : \E new \in Edits(f) \ {form.shown} :
          form' = [form EXCEPT !.shown = new, !.touched = @ \union {f}, !.edits = @ + 1]
    /\ UNCHANGED <<ing, now, save>>

-----------------------------------------------------------------------------
\* Mutant of Valid: an empty row is let through when a default is there.
ValidOrDefault(s) ==
    /\ Routes(s)
    /\ s.default # Empty
    /\ s.default # None \/ \A r \in Rows : s.rules[r] # Empty

\* validate, which the backend repeats in validateIngress: every row names a
\* service.  While the form has no ingress yet its name is empty, which is not
\* valid either.
Valid(s) ==
    /\ Routes(s)
    /\ s.default # Empty /\ \A r \in Rows : s.rules[r] # Empty

\* buildPayload, then buildIngress: a blank TLS row is left out.
Payload(s) == [s EXCEPT !.tls = @ \ {Blank}]

\* The button of the form, which is disabled while a call of it is under way.
Submit(v) ==
    /\ save[v].pc = "idle" /\ form.pc = "open"
    /\ \A w \in Saves : ~save[w].mine
    /\ Valid(form.shown)
    /\ save' = [save EXCEPT ![v] = [NoSave EXCEPT !.pc = "ask", !.mine = TRUE, !.mode = form.mode,
                                                  !.loaded = form.loaded, !.touched = form.touched,
                                                  !.payload = Payload(form.shown)]]
    /\ UNCHANGED <<ing, now, form>>

Answer(v, r) == save' = [save EXCEPT ![v].pc = "back", ![v].result = r]

\* UpdateIngress or CreateIngress of the service: the dialog.
Agree(v) ==
    /\ save[v].pc = "ask"
    /\ save' = [save EXCEPT ![v].pc = IF save[v].mode = "edit" THEN "get" ELSE "write"]
    /\ UNCHANGED <<ing, now, form>>

Decline(v) ==
    /\ save[v].pc = "ask"
    /\ Answer(v, "none") \/ Answer(v, "error")
    /\ UNCHANGED <<ing, now, form>>

\* UpdateIngress reads the ingress as it is now.
Get(v) ==
    /\ save[v].pc = "get"
    /\ IF ing = None THEN Answer(v, "error")
       ELSE save' = [save EXCEPT ![v].pc = "write", ![v].read = ing]
    /\ UNCHANGED <<ing, now, form>>

\* Mutant of Unchanged: the version is not sent.
UnchangedOrNot(v) == ing # None

\* The API server refuses an update of another version than the one it holds.
Unchanged(v) == ing # None /\ ing.version = save[v].read.version

\* The write was made; its answer may be lost.
Applied(v) ==
    \E r \in {"done", "error"} :
        save' = [save EXCEPT ![v].pc = "back", ![v].result = r, ![v].wrote = TRUE]

\* The update replaces the fields the form owns in what was read.
Update(v) ==
    /\ save[v].pc = "write" /\ save[v].mode = "edit"
    /\ IF Unchanged(v)
       THEN /\ now < MaxVersion /\ now' = now + 1
            /\ ing' = [save[v].read EXCEPT !.spec = save[v].payload, !.version = now']
            /\ Applied(v)
       ELSE UNCHANGED <<ing, now>> /\ Answer(v, "error")
    /\ UNCHANGED form

Create(v) ==
    /\ save[v].pc = "write" /\ save[v].mode = "create"
    /\ IF ing = None
       THEN /\ now < MaxVersion /\ now' = now + 1
            /\ ing' = [spec |-> save[v].payload, rest |-> 0, version |-> now']
            /\ Applied(v)
       ELSE UNCHANGED <<ing, now>> /\ Answer(v, "error")
    /\ UNCHANGED form

\* The backend's own check, no connection, an answer too late.
Fail(v) ==
    /\ save[v].pc \in {"get", "write"}
    /\ Answer(v, "error")
    /\ UNCHANGED <<ing, now, form>>

\* What was saved closes the panel; otherwise the form stays as it is.
Returns(v) ==
    /\ save[v].pc = "back"
    /\ form' = IF save[v].mine /\ save[v].result = "done" THEN NoForm ELSE form
    /\ save' = [save EXCEPT ![v] = NoSave]
    /\ UNCHANGED <<ing, now>>

SaveStep(v) ==
    \/ Submit(v) \/ Agree(v) \/ Decline(v) \/ Get(v) \/ Update(v) \/ Create(v)
    \/ Fail(v) \/ Returns(v)

FormNext ==
    \/ Others \/ CloseForm \/ ClassesListed \/ LoadEdit \/ EditForm
    \/ \E mode \in {"edit", "create"} : OpenForm(mode)
    \/ \E v \in Saves : SaveStep(v)

-----------------------------------------------------------------------------
\* A save changes no field that the user left alone, unless the banner named
\* it: what the form cannot express is not dropped silently (IngressEditSpec).
NothingLostSilently ==
    \A v \in Saves :
        LET k == save[v] IN
        k.wrote /\ k.mode = "edit" =>
            /\ \A r \in Rows \ k.touched : k.payload.rules[r] = k.loaded.rules[r]
            /\ "default" \in k.touched \/ k.payload.default = k.loaded.default
            /\ "class" \in k.touched \/ k.payload.class = k.loaded.class
            /\ "meta" \in k.touched \/ k.payload.meta = k.loaded.meta
            /\ "tls" \in k.touched \union Unsupported(k.loaded) \/ k.payload.tls = k.loaded.tls

\* What the form does not own survives every save, also what a controller
\* wrote while the save was under way (UpdateIngress).
RestSurvives ==
    [][ing # None /\ ing' # None /\ ing'.spec # ing.spec => ing'.rest = ing.rest]_formVars
=============================================================================
