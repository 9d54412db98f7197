--------------------------- MODULE RollbackProofs ---------------------------
(***************************************************************************)
(* The way back to a revision, for any templates, numbers and calls.       *)
(***************************************************************************)
EXTENDS Rollback, TLAPS

\* A number is given once: there is a newest revision, and no two bear the
\* same number.
NumbersAreUnique ==
    /\ \E h \in hist : Newest(h)
    /\ \A g, h \in hist : g.rev = h.rev => g = h

\* The number n was given to template t, and not to another one since: it is
\* not above the newest.
Known(n, t) ==
    /\ \E h \in hist : Newest(h) /\ n <= h.rev
    /\ \A g \in hist : g.rev = n => g.tpl = t

\* What the picker shows and what a call was clicked with are such numbers.
ShownIsKnown ==
    /\ \A r \in panel.rows : Known(r.rev, r.tpl)
    /\ \A c \in Calls : call[c].pc # "idle" => Known(call[c].rev, call[c].shown)

\* What a call knows at each of its steps.
CallKnows(k) ==
    /\ k.pc \in {"idle", "ask", "get", "list"} => k.target = None
    /\ k.pc # "back" => k.result = "none" /\ k.wrote = None
    /\ k.pc \in {"list", "patch"} => k.read \in Live
    /\ k.pc = "patch" => /\ k.target \in Templates /\ k.target # k.read.tpl
                         /\ ~k.read.paused
    /\ k.target \in {None, k.shown}
    /\ k.result = "applied" => k.wrote = k.target /\ k.wrote # None
    /\ k.result = "skipped" => k.wrote = None /\ k.read \in Live /\ k.target = k.read.tpl
    /\ k.result = "none" => k.wrote = None
    /\ k.wrote # None => k.read \in Live /\ k.wrote # k.read.tpl /\ ~k.read.paused

CallsKnow == \A c \in Calls : CallKnows(call[c])

IInv == TypeOK /\ NumbersAreUnique /\ ShownIsKnown /\ CallsKnow

-----------------------------------------------------------------------------
\* Records keep their type when a field is replaced.
LEMMA PanelKept ==
    ASSUME NEW p \in PanelState, NEW n \in Numbers, NEW r \in SUBSET Entry, NEW q \in SUBSET Numbers
    PROVE  /\ [p EXCEPT !.want = n] \in PanelState
           /\ [p EXCEPT !.selected = n] \in PanelState
           /\ [p EXCEPT !.pc = "first", !.want = n] \in PanelState
           /\ [p EXCEPT !.pc = "second", !.rows = r] \in PanelState
           /\ [p EXCEPT !.pc = "second", !.current = q] \in PanelState
           /\ [p EXCEPT !.pc = "failed", !.rows = {}, !.current = {}] \in PanelState
           /\ [p EXCEPT !.pc = "shown", !.rows = r, !.current = q, !.selected = n] \in PanelState
<1> USE DEF PanelState
<1>1. [p EXCEPT !.want = n] \in PanelState OBVIOUS
<1>2. [p EXCEPT !.selected = n] \in PanelState OBVIOUS
<1>3. [p EXCEPT !.pc = "first", !.want = n] \in PanelState OBVIOUS
<1>4. [p EXCEPT !.pc = "second", !.rows = r] \in PanelState OBVIOUS
<1>5. [p EXCEPT !.pc = "second", !.current = q] \in PanelState OBVIOUS
<1>6. [p EXCEPT !.pc = "failed", !.rows = {}, !.current = {}] \in PanelState OBVIOUS
<1>7. [p EXCEPT !.pc = "shown", !.rows = r, !.current = q, !.selected = n] \in PanelState OBVIOUS
<1> QED BY <1>1, <1>2, <1>3, <1>4, <1>5, <1>6, <1>7

LEMMA ClosedIsPanel == Closed \in PanelState
BY RollbackAssumption DEF Closed, PanelState, Numbers

LEMMA NoCallIsCall == NoCall \in CallState
BY RollbackAssumption DEF NoCall, CallState, CallPcs, Results, Numbers

LEMMA InitInv == Init => IInv
<1> SUFFICES ASSUME Init PROVE IInv
  OBVIOUS
<1> USE RollbackAssumption
<1>1. PICK t \in Templates :
          /\ live = [tpl |-> t, paused |-> FALSE, ann |-> IF kind = "Deployment" THEN 2 ELSE 0]
          /\ \/ hist = {[rev |-> 2, tpl |-> t]}
             \/ \E b \in (Templates \ {t}) \union (IF kind = "Deployment" THEN {} ELSE {Broken}) :
                   hist = {[rev |-> 2, tpl |-> t], [rev |-> 1, tpl |-> b]}
  BY DEF Init
<1>2. PICK b \in Templates \union {Broken} :
          hist \in {{[rev |-> 2, tpl |-> t]}, {[rev |-> 2, tpl |-> t], [rev |-> 1, tpl |-> b]}}
  BY <1>1
<1>3. TypeOK
  <2>1. live \in Live BY <1>1 DEF Live, Numbers
  <2>2. hist \in SUBSET Entry BY <1>2 DEF Entry, Numbers
  <2>3. kind \in Kinds /\ digest \in Numbers BY DEF Init, Numbers
  <2>4. panel \in PanelState /\ call \in [Calls -> CallState] BY ClosedIsPanel, NoCallIsCall DEF Init
  <2> QED BY <2>1, <2>2, <2>3, <2>4 DEF TypeOK
<1>4. NumbersAreUnique
  <2>1. Newest([rev |-> 2, tpl |-> t]) BY <1>2 DEF Newest
  <2>2. [rev |-> 2, tpl |-> t] \in hist BY <1>2
  <2>3. \A g, h \in hist : g.rev = h.rev => g = h BY <1>2
  <2> QED BY <2>1, <2>2, <2>3 DEF NumbersAreUnique
<1>5. ShownIsKnown BY DEF Init, ShownIsKnown, Closed, NoCall
<1>6. CallsKnow BY DEF Init, CallsKnow, CallKnows, NoCall
<1> QED BY <1>3, <1>4, <1>5, <1>6 DEF IInv

\* Whatever the controller does, a number that was given stays with its
\* template.
LEMMA NumbersKept ==
    ASSUME TypeOK, NumbersAreUnique, Numbering \/ Collecting \/ UNCHANGED hist
    PROVE  /\ NumbersAreUnique'
           /\ \A n \in Numbers : \A t : Known(n, t) => Known(n, t)'
<1>0. hist \in SUBSET Entry /\ MaxRev \in Nat BY RollbackAssumption DEF TypeOK
<1>n. \A h \in Entry : h.rev \in Nat BY RollbackAssumption DEF Entry, Numbers
<1>p. \A n \in Numbers : n \in Nat BY RollbackAssumption DEF Numbers
<1>1. PICK m \in hist : Newest(m) BY DEF NumbersAreUnique
<1>2. CASE UNCHANGED hist
  BY <1>2 DEF NumbersAreUnique, Known, Newest
<1>3. CASE Numbering
  <2>1. PICK h \in hist :
            /\ Newest(h) /\ h.rev < MaxRev
            /\ hist' = {g \in hist : g.tpl # live.tpl} \union {[rev |-> h.rev + 1, tpl |-> live.tpl]}
    BY <1>3 DEF Numbering
  <2>n. PICK new : new = [rev |-> h.rev + 1, tpl |-> live.tpl] OBVIOUS
  <2>2. \A g \in hist : g.rev <= h.rev BY <2>1 DEF Newest
  <2>3. Newest(new)' BY <2>1, <2>2, <2>n, <1>0, <1>n DEF Newest
  <2>4. \A g \in hist' : g = new \/ g \in hist BY <2>1, <2>n
  <2>5. \A g \in hist : g.rev # new.rev BY <2>2, <2>n, <1>0, <1>n
  <2>6. new \in hist' BY <2>1, <2>n
  <2>7. \A g, k \in hist' : g.rev = k.rev => g = k BY <2>4, <2>5 DEF NumbersAreUnique
  <2>8. ASSUME NEW n \in Numbers, NEW t, Known(n, t) PROVE Known(n, t)'
    <3>1. n <= h.rev
      <4>1. PICK g \in hist : Newest(g) /\ n <= g.rev BY <2>8 DEF Known
      <4> QED BY <4>1, <2>2, <1>0, <1>n, <1>p
    <3>2. n <= new.rev /\ n # new.rev BY <3>1, <2>n, <1>0, <1>n, <1>p
    <3>3. \A g \in hist' : g.rev = n => g.tpl = t BY <3>2, <2>4, <2>8 DEF Known
    <3> QED BY <3>2, <3>3, <2>3, <2>6 DEF Known
  <2> QED BY <2>3, <2>6, <2>7, <2>8 DEF NumbersAreUnique
<1>4. CASE Collecting
  <2>1. PICK h \in hist : ~Newest(h) /\ hist' = hist \ {h} BY <1>4 DEF Collecting
  <2>2. \A g \in hist : Newest(g) => g \in hist' /\ Newest(g)' BY <2>1 DEF Newest
  <2>3. ASSUME NEW n \in Numbers, NEW t, Known(n, t) PROVE Known(n, t)'
    BY <2>1, <2>2, <2>3 DEF Known
  <2>4. \A g, k \in hist' : g.rev = k.rev => g = k BY <2>1 DEF NumbersAreUnique
  <2> QED BY <1>1, <2>2, <2>3, <2>4 DEF NumbersAreUnique
<1> QED BY <1>2, <1>3, <1>4

\* What an entry of the history bears is known.
LEMMA OwnedIsKnown ==
    ASSUME TypeOK, NumbersAreUnique
    PROVE  \A h \in hist : Known(h.rev, h.tpl)
BY DEF NumbersAreUnique, Known, Newest

\* The cluster goes on: the page and the calls stay as they are.
LEMMA ClusterInv == IInv /\ Cluster => IInv'
<1> SUFFICES ASSUME IInv, Cluster PROVE IInv'
  OBVIOUS
<1> USE RollbackAssumption
<1>0. TypeOK /\ NumbersAreUnique /\ ShownIsKnown /\ CallsKnow BY DEF IInv
<1>1. UNCHANGED <<kind, digest, panel, call>>
  BY DEF Cluster, OthersApply, OthersPause, Numbering, Stamping, Collecting
<1>2. live' \in Live
  BY <1>0 DEF TypeOK, Live, Entry, Cluster, OthersApply, OthersPause, Numbering, Stamping, Collecting
<1>3. hist' \in SUBSET Entry
  <2>1. CASE Numbering
    <3>1. PICK h \in hist : h.rev < MaxRev /\
              hist' = {g \in hist : g.tpl # live.tpl} \union {[rev |-> h.rev + 1, tpl |-> live.tpl]}
      BY <2>1 DEF Numbering
    <3>2. [rev |-> h.rev + 1, tpl |-> live.tpl] \in Entry
      BY <3>1, <1>0 DEF TypeOK, Entry, Live, Numbers
    <3> QED BY <3>1, <3>2, <1>0 DEF TypeOK
  <2>2. CASE Collecting BY <2>2, <1>0 DEF Collecting, TypeOK
  <2>3. CASE UNCHANGED hist BY <2>3, <1>0 DEF TypeOK
  <2> QED BY <2>1, <2>2, <2>3 DEF Cluster, OthersApply, OthersPause, Stamping
<1>4. TypeOK' BY <1>0, <1>1, <1>2, <1>3 DEF TypeOK
<1>5. Numbering \/ Collecting \/ UNCHANGED hist
  BY DEF Cluster, OthersApply, OthersPause, Stamping
<1>6. NumbersAreUnique' BY <1>0, <1>5, NumbersKept
<1>7. ShownIsKnown'
  <2>1. \A r \in panel.rows : r.rev \in Numbers BY <1>0 DEF TypeOK, PanelState, Entry
  <2>2. \A c \in Calls : call[c].rev \in Numbers BY <1>0 DEF TypeOK, CallState
  <2> QED BY <2>1, <2>2, <1>0, <1>1, <1>5, NumbersKept DEF ShownIsKnown
<1>8. CallsKnow' BY <1>0, <1>1 DEF CallsKnow, CallKnows
<1> QED BY <1>4, <1>6, <1>7, <1>8 DEF IInv

\* The page: what it lists it was told by the history.
LEMMA PickerInv == IInv /\ Picker => IInv'
<1> SUFFICES ASSUME IInv, Picker PROVE IInv'
  OBVIOUS
<1> USE RollbackAssumption
<1>0. TypeOK /\ NumbersAreUnique /\ ShownIsKnown /\ CallsKnow BY DEF IInv
<1>t. /\ kind \in Kinds /\ live \in Live /\ hist \in SUBSET Entry /\ digest \in Numbers
      /\ panel \in PanelState /\ call \in [Calls -> CallState]
  BY <1>0 DEF TypeOK
<1>f. /\ panel.rows \in SUBSET Entry /\ panel.current \in SUBSET Numbers /\ live.ann \in Numbers
      /\ 0 \in Numbers
  BY <1>t DEF PanelState, Live, Numbers
<1>1. UNCHANGED clusterVars
  BY DEF Picker, History, Open, Close, ReadFirst, ReadSecond, LoadFails, Choose
<1>2. UNCHANGED <<kind, live, hist>> BY <1>1 DEF clusterVars
<1>3. NumbersAreUnique' BY <1>0, <1>2 DEF NumbersAreUnique, Newest
<1>k. \A n, t : Known(n, t) => Known(n, t)' BY <1>2 DEF Known, Newest
<1>l. /\ Listing.rows \in SUBSET Entry /\ Listing.current \in SUBSET Numbers
      /\ Listing.rows \subseteq hist \union panel.rows
  BY <1>t, <1>f DEF Listing, Entry
<1>4. digest' \in Numbers /\ panel' \in PanelState
  <2>1. CASE History BY <2>1, <1>t DEF History, Entry
  <2>2. CASE Open
    <3>1. PICK n \in Numbers : panel' = IF panel.pc = "closed"
                                        THEN [Closed EXCEPT !.pc = "first", !.want = n]
                                        ELSE [panel EXCEPT !.want = n]
      BY <2>2, <1>t, <1>f DEF Open
    <3>2. UNCHANGED digest BY <2>2 DEF Open
    <3> QED BY <3>1, <3>2, <1>t, PanelKept, ClosedIsPanel
  <2>3. CASE Close BY <2>3, <1>t, ClosedIsPanel DEF Close
  <2>4. CASE ReadFirst
    <3>1. {live.ann} \in SUBSET Numbers BY <1>f
    <3> QED BY <2>4, <3>1, <1>t, <1>f, PanelKept DEF ReadFirst
  <2>5. CASE ReadSecond
    <3>1. PICK n \in Numbers :
              panel' = [panel EXCEPT !.pc = "shown", !.rows = Listing.rows,
                                     !.current = Listing.current, !.selected = n]
      BY <2>5 DEF ReadSecond
    <3>2. UNCHANGED digest BY <2>5 DEF ReadSecond
    <3> QED BY <3>1, <3>2, <1>t, <1>l, PanelKept
  <2>6. CASE LoadFails BY <2>6, <1>t, PanelKept DEF LoadFails
  <2>7. CASE Choose
    <3>1. \A r \in panel.rows : r.rev \in Numbers BY <1>f DEF Entry
    <3> QED BY <2>7, <3>1, <1>t, PanelKept DEF Choose
  <2> QED BY <2>1, <2>2, <2>3, <2>4, <2>5, <2>6, <2>7 DEF Picker
<1>5. \A r \in panel'.rows : r \in hist \union panel.rows
  <2>1. CASE History \/ Close BY <2>1 DEF History, Close, Closed
  <2>2. CASE Open BY <2>2, <1>t DEF Open, Closed, PanelState
  <2>4. CASE ReadFirst BY <2>4, <1>t DEF ReadFirst, PanelState
  <2>5. CASE ReadSecond
    <3>1. panel'.rows = Listing.rows BY <2>5, <1>t DEF ReadSecond, PanelState
    <3> QED BY <3>1, <1>l
  <2>6. CASE LoadFails BY <2>6, <1>t DEF LoadFails, PanelState
  <2>7. CASE Choose BY <2>7, <1>t DEF Choose, PanelState
  <2> QED BY <2>1, <2>2, <2>4, <2>5, <2>6, <2>7 DEF Picker
<1>6. /\ call' \in [Calls -> CallState]
      /\ \A c \in Calls : \E b \in BOOLEAN : call'[c] = [call[c] EXCEPT !.mine = b]
  <2>1. CASE Close BY <2>1, <1>t DEF Close, CallState
  <2>2. CASE UNCHANGED call BY <2>2, <1>t DEF CallState
  <2> QED BY <2>1, <2>2 DEF Picker, History, Open, ReadFirst, ReadSecond, LoadFails, Choose
<1>7. TypeOK' BY <1>t, <1>2, <1>4, <1>6 DEF TypeOK
<1>8. \A c \in Calls : /\ call'[c].pc = call[c].pc /\ call'[c].rev = call[c].rev
                       /\ call'[c].shown = call[c].shown /\ call'[c].read = call[c].read
                       /\ call'[c].target = call[c].target /\ call'[c].wrote = call[c].wrote
                       /\ call'[c].result = call[c].result
  <2> SUFFICES ASSUME NEW c \in Calls PROVE
          /\ call'[c].pc = call[c].pc /\ call'[c].rev = call[c].rev
          /\ call'[c].shown = call[c].shown /\ call'[c].read = call[c].read
          /\ call'[c].target = call[c].target /\ call'[c].wrote = call[c].wrote
          /\ call'[c].result = call[c].result
    OBVIOUS
  <2>1. call[c] \in CallState BY <1>t
  <2>2. PICK b \in BOOLEAN : call'[c] = [call[c] EXCEPT !.mine = b] BY <1>6
  <2> QED BY <2>1, <2>2 DEF CallState
<1>9. ShownIsKnown'
  <2>1. \A r \in hist \union panel.rows : Known(r.rev, r.tpl)
    BY <1>0, OwnedIsKnown DEF ShownIsKnown
  <2> QED BY <2>1, <1>0, <1>5, <1>8, <1>k DEF ShownIsKnown
<1>10. CallsKnow' BY <1>0, <1>8 DEF CallsKnow, CallKnows
<1> QED BY <1>3, <1>7, <1>9, <1>10 DEF IInv

-----------------------------------------------------------------------------
\* A step of a call changes this call, and of the rest the workload's template
\* and the panel, which it may close.
OneCall(c) ==
    /\ UNCHANGED <<kind, hist, digest>>
    /\ live' \in Live
    /\ panel' \in {panel, Closed}
    /\ call' = [call EXCEPT ![c] = call'[c]]
    /\ call'[c] \in CallState
    /\ CallKnows(call[c])'
    /\ call'[c].pc # "idle" => Known(call'[c].rev, call'[c].shown)

LEMMA OneCallInv ==
    ASSUME IInv, NEW c \in Calls, OneCall(c)
    PROVE  IInv'
<1>0. TypeOK /\ NumbersAreUnique /\ ShownIsKnown /\ CallsKnow BY DEF IInv
<1>1. TypeOK' BY <1>0, ClosedIsPanel DEF OneCall, TypeOK
<1>2. NumbersAreUnique' BY <1>0 DEF OneCall, NumbersAreUnique, Newest
<1>k. \A n, t : Known(n, t) => Known(n, t)' BY DEF OneCall, Known, Newest
<1>3. \A d \in Calls \ {c} : call'[d] = call[d] BY <1>0 DEF OneCall, TypeOK
<1>4. ShownIsKnown'
  <2>1. \A r \in panel'.rows : r \in panel.rows BY DEF OneCall, Closed
  <2>2. \A r \in panel'.rows : Known(r.rev, r.tpl)' BY <2>1, <1>0, <1>k DEF ShownIsKnown
  <2>3. ASSUME NEW d \in Calls, call'[d].pc # "idle", NEW n, NEW t,
               n = call'[d].rev, t = call'[d].shown
        PROVE  Known(n, t)'
    <3>1. CASE d = c BY <3>1, <2>3, <1>k DEF OneCall
    <3>2. CASE d # c BY <3>2, <2>3, <1>3, <1>0, <1>k DEF ShownIsKnown
    <3> QED BY <3>1, <3>2
  <2>4. \A d \in Calls : (call[d].pc # "idle" => Known(call[d].rev, call[d].shown))'
    BY <2>3 DEF Known, Newest
  <2> QED BY <2>2, <2>4 DEF ShownIsKnown
<1>5. CallsKnow'
  <2>1. ASSUME NEW d \in Calls PROVE CallKnows(call[d])'
    <3>1. CASE d = c BY <3>1 DEF OneCall
    <3>2. CASE d # c BY <3>2, <1>3, <1>0 DEF CallsKnow, CallKnows
    <3> QED BY <3>1, <3>2
  <2> QED BY <2>1 DEF CallsKnow
<1> QED BY <1>1, <1>2, <1>4, <1>5 DEF IInv

LEMMA CallStepIsOne ==
    ASSUME IInv, NEW c \in Calls, CallStep(c)
    PROVE  OneCall(c)
<1> USE RollbackAssumption
<1>0. TypeOK /\ NumbersAreUnique /\ ShownIsKnown /\ CallsKnow BY DEF IInv
<1>t. /\ kind \in Kinds /\ live \in Live /\ hist \in SUBSET Entry
      /\ panel \in PanelState /\ call \in [Calls -> CallState] /\ call[c] \in CallState
  BY <1>0 DEF TypeOK
<1>k. CallKnows(call[c]) BY <1>0 DEF CallsKnow
<1>s. call[c].pc # "idle" => Known(call[c].rev, call[c].shown) BY <1>0 DEF ShownIsKnown
<1>1. CASE Click(c)
  <2>1. PICK r \in panel.rows :
            call' = [call EXCEPT ![c] = [NoCall EXCEPT !.pc = "ask", !.mine = TRUE,
                                                       !.rev = r.rev, !.shown = r.tpl]]
    BY <1>1 DEF Click
  <2>2. r \in Entry /\ Known(r.rev, r.tpl) BY <1>0, <1>t DEF PanelState, ShownIsKnown
  <2>3. call'[c] = [NoCall EXCEPT !.pc = "ask", !.mine = TRUE, !.rev = r.rev, !.shown = r.tpl]
    BY <2>1, <1>t
  <2>4. call'[c] \in CallState
    BY <2>2, <2>3, NoCallIsCall DEF CallState, CallPcs, Entry
  <2>5. /\ call'[c].pc = "ask" /\ call'[c].rev = r.rev /\ call'[c].shown = r.tpl
        /\ call'[c].target = None /\ call'[c].result = "none" /\ call'[c].wrote = None
    BY <2>3 DEF NoCall
  <2>6. CallKnows(call[c])' BY <2>5 DEF CallKnows
  <2> QED BY <1>1, <1>t, <2>1, <2>2, <2>3, <2>4, <2>5, <2>6 DEF OneCall, Click, clusterVars
<1>2. CASE Confirm(c)
  <2>1. call'[c] = [call[c] EXCEPT !.pc = "get"] BY <1>2, <1>t DEF Confirm
  <2>2. call'[c] \in CallState BY <2>1, <1>t DEF CallState, CallPcs
  <2>3. CallKnows(call[c])' BY <2>1, <1>2, <1>t, <1>k DEF CallKnows, CallState, Confirm
  <2> QED BY <1>2, <1>t, <1>s, <2>1, <2>2, <2>3 DEF OneCall, Confirm, clusterVars, CallState
<1>3. ASSUME NEW r \in {"none", "error"}, Answer(c, r), UNCHANGED <<clusterVars, digest, panel>>,
             call[c].pc \in {"ask", "get", "list", "patch"}
      PROVE  OneCall(c)
  <2>1. call'[c] = [call[c] EXCEPT !.pc = "back", !.result = r] BY <1>3, <1>t DEF Answer
  <2>2. call'[c] \in CallState BY <2>1, <1>t DEF CallState, CallPcs, Results
  <2>3. CallKnows(call[c])' BY <2>1, <1>3, <1>t, <1>k DEF CallKnows, CallState
  <2> QED BY <1>3, <1>t, <1>s, <2>1, <2>2, <2>3 DEF OneCall, Answer, clusterVars, CallState
<1>4. CASE Decline(c) BY <1>3, <1>4 DEF Decline
<1>5. CASE Get(c)
  <2>1. call'[c] = [call[c] EXCEPT !.pc = "list", !.read = live] BY <1>5, <1>t DEF Get
  <2>2. call'[c] \in CallState BY <2>1, <1>t DEF CallState, CallPcs
  <2>3. CallKnows(call[c])' BY <2>1, <1>5, <1>t, <1>k DEF CallKnows, CallState, Get
  <2> QED BY <1>5, <1>t, <1>s, <2>1, <2>2, <2>3 DEF OneCall, Get, clusterVars, CallState
<1>6. CASE List(c)
  <2>1. CASE Answer(c, "error") BY <2>1, <1>3, <1>6 DEF List
  <2>2. ASSUME NEW h \in Target(call[c].rev), h.tpl # Broken, ~call[c].read.paused,
               call' = IF Same(h.tpl, call[c].read.tpl)
                       THEN [call EXCEPT ![c].pc = "back", ![c].result = "skipped", ![c].target = h.tpl]
                       ELSE [call EXCEPT ![c].pc = "patch", ![c].target = h.tpl]
        PROVE  OneCall(c)
    <3>1. h \in hist /\ h.rev = call[c].rev /\ h \in Entry BY <2>2, <1>t DEF Target
    <3>2. h.tpl = call[c].shown BY <3>1, <1>6, <1>s DEF List, Known
    <3>3. h.tpl \in Templates BY <3>1, <2>2 DEF Entry
    <3>4. CASE Same(h.tpl, call[c].read.tpl)
      <4>1. call'[c] = [call[c] EXCEPT !.pc = "back", !.result = "skipped", !.target = h.tpl]
        BY <2>2, <3>4, <1>t
      <4>2. call'[c] \in CallState BY <4>1, <1>t, <3>3 DEF CallState, CallPcs, Results
      <4>3. CallKnows(call[c])'
        BY <4>1, <1>6, <1>t, <1>k, <3>2, <3>4 DEF CallKnows, CallState, List, Same
      <4> QED BY <1>6, <1>t, <1>s, <2>2, <3>4, <4>1, <4>2, <4>3
              DEF OneCall, List, clusterVars, CallState
    <3>5. CASE ~Same(h.tpl, call[c].read.tpl)
      <4>1. call'[c] = [call[c] EXCEPT !.pc = "patch", !.target = h.tpl]
        BY <2>2, <3>5, <1>t
      <4>2. call'[c] \in CallState BY <4>1, <1>t, <3>3 DEF CallState, CallPcs
      <4>3. CallKnows(call[c])'
        BY <4>1, <1>6, <1>t, <1>k, <2>2, <3>2, <3>3, <3>5 DEF CallKnows, CallState, List, Same
      <4> QED BY <1>6, <1>t, <1>s, <2>2, <3>5, <4>1, <4>2, <4>3
              DEF OneCall, List, clusterVars, CallState
    <3> QED BY <3>4, <3>5
  <2> QED BY <2>1, <2>2, <1>6 DEF List
<1>7. CASE Patch(c)
  <2>1. PICK r \in {"applied", "error"} :
            call' = [call EXCEPT ![c].pc = "back", ![c].result = r, ![c].wrote = call[c].target]
    BY <1>7 DEF Patch
  <2>2. call'[c] = [call[c] EXCEPT !.pc = "back", !.result = r, !.wrote = call[c].target]
    BY <2>1, <1>t
  <2>3. call[c].target \in Templates /\ call[c].read \in Live /\ call[c].pc = "patch"
    BY <1>7, <1>k DEF Patch, CallKnows
  <2>4. call'[c] \in CallState BY <2>2, <2>3, <1>t DEF CallState, CallPcs, Results
  <2>5. CallKnows(call[c])' BY <2>2, <2>3, <1>t, <1>k DEF CallKnows, CallState
  <2>6. live' \in Live BY <2>3, <1>7, <1>t DEF Patch, Live
  <2> QED BY <1>7, <1>t, <1>s, <2>1, <2>2, <2>3, <2>4, <2>5, <2>6 DEF OneCall, Patch, CallState
<1>8. CASE Fail(c) BY <1>3, <1>8 DEF Fail
<1>9. CASE Returns(c)
  <2>1. call'[c] = NoCall BY <1>9, <1>t DEF Returns
  <2>2. CallKnows(call[c])' BY <2>1 DEF CallKnows, NoCall
  <2>3. call'[c].pc = "idle" BY <2>1 DEF NoCall
  <2> QED BY <1>9, <1>t, <2>1, <2>2, <2>3, NoCallIsCall DEF OneCall, Returns, clusterVars
<1> QED BY <1>1, <1>2, <1>4, <1>5, <1>6, <1>7, <1>8, <1>9 DEF CallStep

LEMMA Invariance == Spec => []IInv
<1>1. Init => IInv BY InitInv
<1>2. IInv /\ [Next]_vars => IInv'
  <2> SUFFICES ASSUME IInv, [Next]_vars PROVE IInv'
    OBVIOUS
  <2>1. CASE Cluster \/ Picker BY <2>1, ClusterInv, PickerInv
  <2>2. CASE \E c \in Calls : CallStep(c) BY <2>2, CallStepIsOne, OneCallInv
  <2>3. CASE UNCHANGED vars
    BY <2>3 DEF vars, IInv, TypeOK, NumbersAreUnique, ShownIsKnown, CallsKnow, CallKnows, Known, Newest
  <2> QED BY <2>1, <2>2, <2>3 DEF Next
<1> QED BY <1>1, <1>2, PTL DEF Spec

\* The state of the page, of its calls and of the workload keeps its types
\* (rollback.go, WorkloadRollback.vue).
THEOREM TypeCorrect == Spec => []TypeOK
<1>1. IInv => TypeOK BY DEF IInv
<1> QED BY <1>1, Invariance, PTL

\* A call goes back to the template the picker showed under the number that
\* was clicked, or to none (rollback.go, which looks the number up again).
THEOREM ShownRestored == Spec => []ShownIsRestored
<1>1. IInv => ShownIsRestored BY DEF IInv, CallsKnow, CallKnows, ShownIsRestored
<1> QED BY <1>1, Invariance, PTL

\* Applied, skipped and neither say what was done to the workload
\* (rollback.go, RollbackResult).
THEOREM OutcomeTruthful == Spec => []OutcomeIsTruthful
<1>1. IInv => OutcomeIsTruthful BY DEF IInv, CallsKnow, CallKnows, OutcomeIsTruthful
<1> QED BY <1>1, Invariance, PTL
=============================================================================
