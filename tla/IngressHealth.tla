---------------------------- MODULE IngressHealth ----------------------------
(***************************************************************************)
(* The inspection of an ingress (networking.go, IngressDetail.vue): the    *)
(* ingress, the services, the endpoints and the secrets are read one after *)
(* the other, each read may fail, and the panel is told what is missing,   *)
(* while services, pods and secrets come and go.  The panel and the form   *)
(* take each other's place (NetworkingView.vue).                           *)
(***************************************************************************)
EXTENDS IngressForm

CONSTANTS
    Cap,        \* the objects a list returns at most (maxListItems)
    MaxComings, \* bound: changes of the services, endpoints and secrets
    Checks      \* inspections

VARIABLES
    there,  \* the services and secrets that exist
    ready,  \* the services with a ready endpoint
    comings,    \* how often they changed since the panel opened
    inspecting, \* the panel is open
    check       \* check[k]: an inspection

healthVars == <<there, ready, comings, inspecting, check>>
vars == <<formVars, healthVars>>

\* A namespace holds finitely many objects, and none is the mark of a ready
\* service (see Marks).
ASSUME HealthConstants ==
    /\ IsFiniteSet(Services) /\ IsFiniteSet(Secrets)
    /\ \A s \in Services : <<s, "ready">> \notin Services \union Secrets
    /\ Cap \in Nat /\ MaxComings \in Nat

\* A list that was not read, or could not be.
Unread == None
NoCheck == [pc |-> "idle", spec |-> None, services |-> Unread, endpoints |-> Unread,
            secrets |-> Unread, cut |-> FALSE, always |-> {}, sometime |-> {}]

TypeOK ==
    /\ FormTypeOK
    /\ there \in SUBSET (Services \union Secrets)
    /\ ready \in SUBSET Services
    /\ comings \in 0..MaxComings
    /\ inspecting \in BOOLEAN
    /\ \A k \in Checks :
          /\ check[k].pc \in {"idle", "services", "endpoints", "secrets", "show"}
          /\ check[k].spec \in Kept \union {None}
          /\ check[k].always \subseteq check[k].sometime

Init ==
    /\ FormInit
    /\ there = {} /\ ready = {} /\ comings = 0
    /\ inspecting = FALSE
    /\ check = [k \in Checks |-> NoCheck]

\* While a check runs it is remembered what was there all the time, and what at
\* some time.  A ready service is its own mark.
Marks(t, r) == t \union {<<s, "ready">> : s \in r \intersect t}
Watched(t, r) ==
    [k \in Checks |-> [check[k] EXCEPT !.always = @ \intersect Marks(t, r),
                                       !.sometime = @ \union Marks(t, r)]]

Coming ==
    /\ inspecting /\ comings < MaxComings
    /\ \/ \E x \in Services \union Secrets : there' = (there \ {x}) \union ({x} \ there)
          /\ UNCHANGED ready
       \/ \E s \in Services : ready' = (ready \ {s}) \union ({s} \ ready)
          /\ UNCHANGED there
    /\ comings' = comings + 1
    /\ check' = Watched(there', ready')
    /\ UNCHANGED <<formVars, inspecting>>

-----------------------------------------------------------------------------
\* openInspect, which closes the form.  Nothing looks at the services and the
\* secrets while no panel is open: what is there is settled when one opens.  (A
\* save still under way would be, to the panel, one of the others' changes.)
Inspect ==
    /\ ~inspecting /\ \A v \in Saves : save[v].pc = "idle"
    /\ inspecting' = TRUE
    /\ there' \in SUBSET (Services \union Secrets) /\ ready' \in SUBSET Services
    /\ form' = NoForm
    /\ UNCHANGED <<ing, now, save, comings, check>>

\* The panel goes, and with it what its checks would have shown.
NoPanel ==
    /\ inspecting' = FALSE /\ there' = {} /\ ready' = {} /\ comings' = 0
    /\ check' = [k \in Checks |-> NoCheck]

\* closeInspect.
CloseInspect ==
    /\ inspecting
    /\ NoPanel
    /\ UNCHANGED formVars

\* IngressDetail, as the panel opens, on a click, or after a watch event: the
\* ingress is read, which may fail.
Begin(k) ==
    /\ inspecting /\ check[k].pc = "idle" /\ ing # None
    /\ check' = [check EXCEPT ![k] = [NoCheck EXCEPT !.pc = "services", !.spec = ing.spec,
                                                     !.always = Marks(there, ready),
                                                     !.sometime = Marks(there, ready)]]
    /\ UNCHANGED <<formVars, there, ready, comings, inspecting>>

\* A list holds at most Cap of the objects; what is beyond is not there.
Listed(all) == IF Cardinality(all) <= Cap THEN {all} ELSE {got \in SUBSET all : Cardinality(got) = Cap}
Cut(k, all) == check[k].cut \/ Cardinality(all) > Cap

\* loadIngressHealth: the first list that fails is the last one.
ListServices(k) ==
    /\ check[k].pc = "services"
    /\ \E got \in Listed(there \intersect Services) :
          check' = [check EXCEPT ![k].pc = "endpoints", ![k].services = got,
                                 ![k].cut = Cut(k, there \intersect Services)]
    /\ UNCHANGED <<formVars, there, ready, comings, inspecting>>

\* readyEndpointIPs: the slices name the services they belong to.
ListEndpoints(k) ==
    /\ check[k].pc = "endpoints"
    /\ \E got \in Listed(ready \intersect there) :
          check' = [check EXCEPT ![k].pc = "secrets", ![k].endpoints = got,
                                 ![k].cut = Cut(k, ready \intersect there)]
    /\ UNCHANGED <<formVars, there, ready, comings, inspecting>>

ListSecrets(k) ==
    /\ check[k].pc = "secrets"
    /\ \E got \in Listed(there \intersect Secrets) :
          check' = [check EXCEPT ![k].pc = "show", ![k].secrets = got,
                                 ![k].cut = Cut(k, there \intersect Secrets)]
    /\ UNCHANGED <<formVars, there, ready, comings, inspecting>>

ListFails(k) ==
    /\ check[k].pc \in {"services", "endpoints", "secrets"}
    /\ check' = [check EXCEPT ![k].pc = "show"]
    /\ UNCHANGED <<formVars, there, ready, comings, inspecting>>

\* Mutant of BackendStatus: a list that failed is an empty list.
StatusOfEmptyLists(c, b) ==
    CASE b \notin Services -> "unknown"
      [] b \in Services /\ (c.services = Unread \/ b \notin c.services) -> "no-service"
      [] OTHER -> IF c.endpoints = Unread \/ b \notin c.endpoints THEN "no-endpoints" ELSE "ok"

\* backendStatus.
BackendStatus(c, b) ==
    IF b \notin Services \/ c.services = Unread THEN "unknown"
    ELSE IF b \notin c.services THEN "no-service"
    ELSE IF c.endpoints = Unread THEN "unknown"
    ELSE IF b \in c.endpoints THEN "ok" ELSE "no-endpoints"

\* secretStatus.
SecretStatus(c, t) == IF c.secrets = Unread THEN "unknown" ELSE IF t \in c.secrets THEN "ok" ELSE "missing"

\* degraded.
Degraded(c) == Unread \in {c.services, c.endpoints, c.secrets}

\* enrichIngress and ingressIssues: the backends and secrets that have an
\* issue, and whether the check was complete.
Backends(s) == ({s.rules[r] : r \in Rows} \union {s.default}) \ {None, Bare}
Report(c) ==
    [noService   |-> {b \in Backends(c.spec) : BackendStatus(c, b) = "no-service"},
     noEndpoints |-> {b \in Backends(c.spec) : BackendStatus(c, b) = "no-endpoints"},
     missing     |-> {t \in c.spec.tls \ {Blank} : SecretStatus(c, t) = "missing"},
     degraded    |-> Degraded(c)]

Healthy(rep) == ~rep.degraded /\ rep.noService \union rep.noEndpoints \union rep.missing = {}

\* The report is on the screen.
Show(k) ==
    /\ check[k].pc = "show"
    /\ check' = [check EXCEPT ![k] = NoCheck]
    /\ UNCHANGED <<formVars, there, ready, comings, inspecting>>

CheckStep(k) ==
    \/ Begin(k) \/ ListServices(k) \/ ListEndpoints(k) \/ ListSecrets(k)
    \/ ListFails(k) \/ Show(k)

\* The form opens in the place of the panel.
OpenInstead ==
    /\ \E mode \in {"edit", "create"} : OpenForm(mode)
    /\ NoPanel

FormSteps ==
    /\ \/ Others \/ CloseForm \/ ClassesListed \/ LoadEdit \/ EditForm
       \/ \E v \in Saves : SaveStep(v)
    /\ UNCHANGED healthVars

Next ==
    \/ Coming \/ Inspect \/ CloseInspect \/ OpenInstead \/ FormSteps
    \/ \E k \in Checks : CheckStep(k)

Spec == Init /\ [][Next]_vars

-----------------------------------------------------------------------------
\* What a panel is told is missing was missing at some time of the check, also
\* when a list failed (networking.go, the statuses degrade to unknown); but not
\* when a list was cut, what is beyond it counts as missing.
MissingIsMissing(c) ==
    /\ \A x \in Report(c).noService \union Report(c).missing : x \notin c.always
    /\ \A s \in Report(c).noEndpoints : <<s, "ready">> \notin c.always

\* An ingress that looks healthy (IngressDetail.vue) has backends and secrets
\* that were there at some time of the check.
HealthyIsHealthy(c) ==
    /\ \A s \in Backends(c.spec) \ {Resource} : <<s, "ready">> \in c.sometime
    /\ \A t \in c.spec.tls \ {Blank} : t \in c.sometime

ReportIsTrue ==
    \A k \in Checks : check[k].pc = "show" =>
        /\ ~check[k].cut => MissingIsMissing(check[k])
        /\ Healthy(Report(check[k])) => HealthyIsHealthy(check[k])
=============================================================================
