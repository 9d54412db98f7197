------------------------------ MODULE Rollback ------------------------------
(***************************************************************************)
(* The rollout history of one workload and the way back to one of its      *)
(* revisions: the digest and the picker of the page (WorkloadsView.vue,    *)
(* WorkloadRollback.vue), the reads and the patch of the backend           *)
(* (rollback.go, history.go), and around them the controller of the        *)
(* cluster and its other users, who go on while the picker is open.        *)
(*                                                                         *)
(* A revision is known to the page by its number alone.  The template it   *)
(* stands for, its images and its change cause are one model value; the    *)
(* label pod-template-hash is what the controller adds to it.              *)
(***************************************************************************)
EXTENDS Naturals

CONSTANTS
    Kinds,     \* kinds of workload looked at
    Templates, \* pod templates
    Calls,     \* calls of RollbackWorkload
    MaxRev,    \* bound: the highest revision number
    Broken,    \* the data of a ControllerRevision that cannot be decoded
    None

ASSUME RollbackAssumption ==
    /\ Kinds \subseteq {"Deployment", "StatefulSet", "DaemonSet"}
    /\ MaxRev \in Nat /\ MaxRev >= 2
    /\ Broken \notin Templates /\ None \notin Templates \union {Broken}

VARIABLES
    kind,   \* the kind of the workload
    live,   \* the workload: its template, whether it is paused, its revision annotation
    hist,   \* the ReplicaSets or ControllerRevisions it owns
    digest, \* the row of the digest that may be clicked, 0 without one
    panel,  \* the picker
    call    \* call[c]: a call the picker made

clusterVars == <<kind, live, hist>>
vars == <<kind, live, hist, digest, panel, call>>

Numbers  == 0..MaxRev
Entry    == [rev : Numbers \ {0}, tpl : Templates \union {Broken}]
Live     == [tpl : Templates, paused : BOOLEAN, ann : Numbers]
CallPcs  == {"idle", "ask", "get", "list", "patch", "back"}
Results  == {"none", "applied", "skipped", "error"}
PanelState == [pc : {"closed", "first", "second", "shown", "failed"}, want : Numbers,
               rows : SUBSET Entry, current : SUBSET Numbers, selected : Numbers]
CallState == [pc : CallPcs, mine : BOOLEAN, rev : Numbers,
              shown : Templates \union {Broken, None}, read : Live \union {None},
              target : Templates \union {Broken, None}, wrote : Templates \union {None},
              result : Results]

Closed == [pc |-> "closed", want |-> 0, rows |-> {}, current |-> {}, selected |-> 0]
NoCall == [pc |-> "idle", mine |-> FALSE, rev |-> 0, shown |-> None, read |-> None,
           target |-> None, wrote |-> None, result |-> "none"]

TypeOK ==
    /\ kind \in Kinds
    /\ live \in Live
    /\ hist \in SUBSET Entry
    /\ digest \in Numbers
    /\ panel \in PanelState
    /\ call \in [Calls -> CallState]

\* A workload that was rolled out once; a set may own an entry that cannot be
\* read.
Init ==
    /\ kind \in Kinds
    /\ \E t \in Templates :
          /\ live = [tpl |-> t, paused |-> FALSE, ann |-> IF kind = "Deployment" THEN 2 ELSE 0]
          /\ \/ hist = {[rev |-> 2, tpl |-> t]}
             \/ \E b \in (Templates \ {t}) \union (IF kind = "Deployment" THEN {} ELSE {Broken}) :
                   hist = {[rev |-> 2, tpl |-> t], [rev |-> 1, tpl |-> b]}
    /\ digest = 0
    /\ panel = Closed
    /\ call = [c \in Calls |-> NoCall]

Newest(h) == h \in hist /\ \A g \in hist : g.rev <= h.rev

-----------------------------------------------------------------------------
\* Other users of the cluster.
OthersApply ==
    /\ \E t \in Templates \ {live.tpl} : live' = [live EXCEPT !.tpl = t]
    /\ UNCHANGED <<kind, hist, digest, panel, call>>

OthersPause ==
    /\ kind = "Deployment"
    /\ live' = [live EXCEPT !.paused = ~@]
    /\ UNCHANGED <<kind, hist, digest, panel, call>>

\* The controller gives a template it has not seen, or sees again, the next
\* number; it makes no ReplicaSet while the deployment is paused.
Numbering ==
    /\ \E h \in hist :
          /\ Newest(h) /\ h.tpl # live.tpl /\ h.rev < MaxRev
          /\ live.paused => \E g \in hist : g.tpl = live.tpl
          /\ hist' = {g \in hist : g.tpl # live.tpl} \union {[rev |-> h.rev + 1, tpl |-> live.tpl]}
    /\ UNCHANGED <<kind, live, digest, panel, call>>

\* The annotation follows in a write of its own.
Stamping ==
    /\ kind = "Deployment"
    /\ \E h \in hist :
          /\ Newest(h) /\ h.tpl = live.tpl /\ h.rev # live.ann
          /\ live' = [live EXCEPT !.ann = h.rev]
    /\ UNCHANGED <<kind, hist, digest, panel, call>>

\* The history limit: any revision but the newest may be collected.
Collecting ==
    /\ \E h \in hist : ~Newest(h) /\ hist' = hist \ {h}
    /\ UNCHANGED <<kind, live, digest, panel, call>>

Cluster == OthersApply \/ OthersPause \/ Numbering \/ Stamping \/ Collecting

-----------------------------------------------------------------------------
\* History: one row for each ReplicaSet; the one that bears the number of the
\* deployment is marked and has no button.
History ==
    /\ kind = "Deployment"
    /\ \E h \in hist : h.rev # live.ann /\ digest' = h.rev
    /\ UNCHANGED <<clusterVars, panel, call>>

\* openRollback.  The panel is keyed by kind and name: when it is open already
\* it stays as it is, whatever version was clicked.
Open ==
    /\ \E n \in {0, digest} :
          panel' = IF panel.pc = "closed" THEN [Closed EXCEPT !.pc = "first", !.want = n]
                   ELSE [panel EXCEPT !.want = n]
    /\ UNCHANGED <<clusterVars, digest, call>>

\* closeRollback, or the view reloads; an answer finds no panel then.
Close ==
    /\ panel.pc # "closed"
    /\ panel' = Closed
    /\ call' = [c \in Calls |-> [call[c] EXCEPT !.mine = FALSE]]
    /\ UNCHANGED <<clusterVars, digest>>

\* WorkloadRevisions, the first of its two requests: the deployment, or the
\* ControllerRevisions.
ReadFirst ==
    /\ panel.pc = "first"
    /\ panel' = IF kind = "Deployment" THEN [panel EXCEPT !.pc = "second", !.current = {live.ann}]
                ELSE [panel EXCEPT !.pc = "second", !.rows = hist]
    /\ UNCHANGED <<clusterVars, digest, call>>

\* What the picker lists: of the entries of a set, those that can be read, and
\* as current those that equal the template it runs.
Listing ==
    IF kind = "Deployment" THEN [rows |-> hist, current |-> panel.current]
    ELSE [rows    |-> {r \in panel.rows : r.tpl # Broken},
          current |-> {r.rev : r \in {q \in panel.rows : q.tpl = live.tpl}}]

\* The revision on offer: the one that was asked for, else the newest.
Preselected(targets, n) ==
    IF targets = {} THEN n = 0
    ELSE IF panel.want \in targets THEN n = panel.want
    ELSE n \in targets /\ \A k \in targets : k <= n

\* The second request, and the rest of load() in the picker.
ReadSecond ==
    /\ panel.pc = "second"
    /\ \E n \in Numbers :
          /\ Preselected({r.rev : r \in Listing.rows} \ Listing.current, n)
          /\ panel' = [panel EXCEPT !.pc = "shown", !.rows = Listing.rows,
                                    !.current = Listing.current, !.selected = n]
    /\ UNCHANGED <<clusterVars, digest, call>>

LoadFails ==
    /\ panel.pc \in {"first", "second"}
    /\ panel' = [panel EXCEPT !.pc = "failed", !.rows = {}, !.current = {}]
    /\ UNCHANGED <<clusterVars, digest, call>>

Choose ==
    /\ panel.pc = "shown"
    /\ \E r \in panel.rows : /\ r.rev \notin panel.current
                             /\ panel' = [panel EXCEPT !.selected = r.rev]
    /\ UNCHANGED <<clusterVars, digest, call>>

Picker == History \/ Open \/ Close \/ ReadFirst \/ ReadSecond \/ LoadFails \/ Choose

-----------------------------------------------------------------------------
\* The button; it is disabled while the call of this panel is under way.
Click(c) ==
    /\ call[c].pc = "idle"
    /\ panel.pc = "shown" /\ panel.selected # 0
    /\ \A d \in Calls : ~call[d].mine
    /\ \E r \in panel.rows :
          /\ r.rev = panel.selected
          /\ call' = [call EXCEPT ![c] = [NoCall EXCEPT !.pc = "ask", !.mine = TRUE,
                                                        !.rev = r.rev, !.shown = r.tpl]]
    /\ UNCHANGED <<clusterVars, digest, panel>>

\* RollbackWorkload: the dialog.
Confirm(c) ==
    /\ call[c].pc = "ask"
    /\ call' = [call EXCEPT ![c].pc = "get"]
    /\ UNCHANGED <<clusterVars, digest, panel>>

Answer(c, r) == call' = [call EXCEPT ![c].pc = "back", ![c].result = r]

Decline(c) ==
    /\ call[c].pc = "ask"
    /\ Answer(c, "none") \/ Answer(c, "error")
    /\ UNCHANGED <<clusterVars, digest, panel>>

\* The workload is read first, its history next.
Get(c) ==
    /\ call[c].pc = "get"
    /\ call' = [call EXCEPT ![c].pc = "list", ![c].read = live]
    /\ UNCHANGED <<clusterVars, digest, panel>>

\* Mutant of Target: a number that is gone stands for what was there before.
TargetOrPrevious(n) ==
    IF \E h \in hist : h.rev = n THEN {h \in hist : h.rev = n}
    ELSE {h \in hist : h.rev < n /\ \A g \in hist : g.rev < n => g.rev <= h.rev}

\* The entry that bears the number now.  The number 0, the previous revision,
\* is asked for by no caller.
Target(n) == {h \in hist : h.rev = n}

\* Mutant of Same: the hash label of a ReplicaSet is not set aside.
SameWithHash(t, u) == kind # "Deployment" /\ t = u

\* equalIgnoreHash.
Same(t, u) == t = u

\* The history decides: the number is gone or its data cannot be read, the
\* deployment was paused when it was read, its template is the same already,
\* or there is something to do.
List(c) ==
    /\ call[c].pc = "list"
    /\ \/ /\ \A h \in Target(call[c].rev) : h.tpl = Broken \/ call[c].read.paused
          /\ Answer(c, "error")
       \/ \E h \in Target(call[c].rev) :
             /\ h.tpl # Broken /\ ~call[c].read.paused
             /\ call' = IF Same(h.tpl, call[c].read.tpl)
                        THEN [call EXCEPT ![c].pc = "back", ![c].result = "skipped", ![c].target = h.tpl]
                        ELSE [call EXCEPT ![c].pc = "patch", ![c].target = h.tpl]
    /\ UNCHANGED <<clusterVars, digest, panel>>

\* The template is replaced whatever it is by now, and with it the annotations
\* of a deployment, the bookkeeping ones by those it had when it was read.
\* The answer may be lost.
Patch(c) ==
    /\ call[c].pc = "patch"
    /\ live' = [live EXCEPT !.tpl = call[c].target,
                            !.ann = IF kind = "Deployment" THEN call[c].read.ann ELSE @]
    /\ \E r \in {"applied", "error"} :
          call' = [call EXCEPT ![c].pc = "back", ![c].result = r, ![c].wrote = call[c].target]
    /\ UNCHANGED <<kind, hist, digest, panel>>

Fail(c) ==
    /\ call[c].pc \in {"get", "list", "patch"}
    /\ Answer(c, "error")
    /\ UNCHANGED <<clusterVars, digest, panel>>

\* The rest of rollBack(): what was applied closes the panel and reloads.
Returns(c) ==
    /\ call[c].pc = "back"
    /\ call' = [call EXCEPT ![c] = NoCall]
    /\ panel' = IF call[c].mine /\ call[c].result = "applied" THEN Closed ELSE panel
    /\ UNCHANGED <<clusterVars, digest>>

CallStep(c) ==
    \/ Click(c) \/ Confirm(c) \/ Decline(c) \/ Get(c) \/ List(c)
    \/ Patch(c) \/ Fail(c) \/ Returns(c)

Next == Cluster \/ Picker \/ \E c \in Calls : CallStep(c)

Spec == Init /\ [][Next]_vars

-----------------------------------------------------------------------------
\* The template a call goes back to is the one the picker showed under the
\* number that was clicked, whatever was rolled out, renumbered and collected
\* since (rollback.go looks the number up again).
ShownIsRestored ==
    \A c \in Calls : call[c].target \in {None, call[c].shown}

\* Applied means that the template was written, and that it was another one
\* than the workload had; skipped that it was the one it had, and neither
\* that nothing was written.
OutcomeIsTruthful ==
    \A c \in Calls :
        /\ call[c].result = "applied" => call[c].wrote = call[c].target /\ call[c].wrote # None
        /\ call[c].result = "skipped" => call[c].wrote = None /\ call[c].target = call[c].read.tpl
        /\ call[c].result = "none" => call[c].wrote = None
        /\ call[c].wrote # None => call[c].wrote # call[c].read.tpl /\ ~call[c].read.paused
=============================================================================
