--------------------------- MODULE ForwardsPanel ---------------------------
(***************************************************************************)
(* The port-forward service together with the frontend that shows it       *)
(* (frontend/src/usePortForwards.js): one shared list of rows, fed by the  *)
(* "portforward:status" events and refilled from ListPortForwards when the *)
(* app starts and after every reconnect.                                   *)
(*                                                                         *)
(* The events of one forward arrive in the order they were emitted; the    *)
(* reply of ListPortForwards travels apart from them, so it may be         *)
(* overtaken.  heard[c] counts the events of c the frontend has handled.   *)
(***************************************************************************)
EXTENDS PortForward

CONSTANT Boot      \* names the hydrate call made when the app starts

ASSUME BootIsNoConnect == Boot \notin Connects

VARIABLES
    row,        \* row[c]: the state c is listed with, "none" without a row
    byId,       \* byId[c]: the state c was first listed with, "none" if absent
    finished,   \* ids that reached a terminal state (the tombstones)
    stopping,   \* ids whose stop was requested from the frontend
    heard,      \* heard[c]: how many events of c were handled
    spoken,     \* spoken[c]: the announcements about c, in order
    hpc,        \* hpc[h]: where hydrate call h stands
    snap,       \* snap[h]: the list ListPortForwards returned to h
    clicked     \* the stop calls the user has made

panel == <<row, byId, finished, stopping, heard, spoken, hpc, snap, clicked>>
panelVars == <<vars, panel>>

Hydrates == Connects \union {Boot}
NoRows   == [c \in Starts |-> "none"]

PanelTypeOK ==
    /\ row \in [Starts -> States \union {"none"}]
    /\ byId \in [Starts -> States \union {"none"}]
    /\ finished \in SUBSET Starts
    /\ stopping \in SUBSET Starts
    /\ heard \in [Starts -> Nat]
    /\ spoken \in [Starts -> Seq({"started", "stopped", "failed"})]
    /\ hpc \in [Hydrates -> {"idle", "asked", "answered", "done"}]
    /\ snap \in [Hydrates -> [Starts -> States \union {"none"}]]
    /\ clicked \in SUBSET Stops

PanelInit ==
    /\ Init
    /\ row = NoRows
    /\ byId = NoRows
    /\ finished = {}
    /\ stopping = {}
    /\ heard = [c \in Starts |-> 0]
    /\ spoken = [c \in Starts |-> <<>>]
    /\ hpc = [h \in Hydrates |-> "idle"]
    /\ snap = [h \in Hydrates |-> NoRows]
    /\ clicked = {}

-----------------------------------------------------------------------------
\* upsert(status) on a list of rows r and an index b: a tombstone bars the
\* way; a listed forward is shown with its new state, but the index keeps the
\* status it was first listed with.

\* Mutant of Barred: no tombstones.
NotBarred(c) == FALSE

Barred(c) == c \in finished

Upserted(r, c, s)      == IF Barred(c) THEN r ELSE [r EXCEPT ![c] = s]
UpsertedIndex(b, c, s) == IF Barred(c) \/ b[c] # "none" THEN b ELSE [b EXCEPT ![c] = s]

\* Mutant of Drop: the row goes, the index keeps the id.
DropRowOnly(c) ==
    /\ row' = [row EXCEPT ![c] = "none"]
    /\ UNCHANGED <<byId, stopping>>

\* drop(id): without an entry in the index nothing is forgotten, the stop
\* request included.
Drop(c) ==
    \/ /\ byId[c] = "none"
       /\ UNCHANGED <<row, byId, stopping>>
    \/ /\ byId[c] # "none"
       /\ row' = [row EXCEPT ![c] = "none"]
       /\ byId' = [byId EXCEPT ![c] = "none"]
       /\ stopping' = stopping \ {c}

\* onStatus for the next event of c.
HearEnd(c, s) ==
    /\ s \in Terminal
    /\ spoken' = IF s = "failed" \/ c \in stopping
                   THEN [spoken EXCEPT ![c] = Append(@, s)] ELSE spoken
    /\ finished' = finished \union {c}
    /\ Drop(c)

HearProgress(c, s) ==
    /\ s \notin Terminal
    /\ spoken' = IF s = "active" /\ byId[c] # "active"
                   THEN [spoken EXCEPT ![c] = Append(@, "started")] ELSE spoken
    /\ row' = Upserted(row, c, s)
    /\ byId' = UpsertedIndex(byId, c, s)
    /\ UNCHANGED <<finished, stopping>>

\* Mutant of OnStatus: a final event only marks the row.
OnStatusKeepsRow(c) ==
    /\ heard[c] < Len(emitted[c])
    /\ heard' = [heard EXCEPT ![c] = @ + 1]
    /\ row' = [row EXCEPT ![c] = emitted[c][heard[c] + 1]]
    /\ byId' = [byId EXCEPT ![c] = emitted[c][heard[c] + 1]]
    /\ finished' = finished
    /\ UNCHANGED <<stopping, spoken, hpc, snap, clicked, vars>>

OnStatus(c) ==
    /\ heard[c] < Len(emitted[c])
    /\ LET s == emitted[c][heard[c] + 1] IN HearEnd(c, s) \/ HearProgress(c, s)
    /\ heard' = [heard EXCEPT ![c] = @ + 1]
    /\ UNCHANGED <<hpc, snap, clicked, vars>>

-----------------------------------------------------------------------------
\* hydrate: at startup, and when a Connect that returned bumps the epoch.
Ask(h) ==
    /\ hpc[h] = "idle"
    /\ h \in Connects => kpc[h] = "done"
    /\ hpc' = [hpc EXCEPT ![h] = "asked"]
    /\ UNCHANGED <<row, byId, finished, stopping, heard, spoken, snap, clicked, vars>>

\* ListPortForwards: a snapshot of the registry, under the lock.
ListPortForwards(h) ==
    /\ hpc[h] = "asked"
    /\ snap' = [snap EXCEPT ![h] =
                  [c \in Starts |-> IF c \in registry THEN state[c] ELSE "none"]]
    /\ hpc' = [hpc EXCEPT ![h] = "answered"]
    /\ UNCHANGED <<row, byId, finished, stopping, heard, spoken, clicked, vars>>

\* The reply replaces all rows by the non-terminal ones of the list, except
\* those that bear a tombstone.
Hydrated(h) ==
    [c \in Starts |->
        IF Barred(c) \/ snap[h][c] \in Terminal THEN "none" ELSE snap[h][c]]

ApplyHydrate(h) ==
    /\ hpc[h] = "answered"
    /\ row' = Hydrated(h)
    /\ byId' = Hydrated(h)
    /\ hpc' = [hpc EXCEPT ![h] = "done"]
    /\ snap' = [snap EXCEPT ![h] = NoRows]
    /\ UNCHANGED <<finished, stopping, heard, spoken, clicked, vars>>

HydrateStep(h) == Ask(h) \/ ListPortForwards(h) \/ ApplyHydrate(h)

-----------------------------------------------------------------------------
\* stopForward(f): the button is there while the row shows, and enabled once
\* the row is past "starting".
StopForward(s) ==
    /\ s \notin clicked
    /\ row[aim[s]] = "active"
    /\ clicked' = clicked \union {s}
    /\ stopping' = stopping \union {aim[s]}
    /\ UNCHANGED <<row, byId, finished, heard, spoken, hpc, snap, vars>>

ServiceStep ==
    /\ \/ \E c \in Starts : StartCall(c) \/ Session(c) \/ Lifecycle(c)
       \/ \E s \in clicked : StopCall(s)
       \/ \E k \in tearers : TearCall(k)
       \/ Emit
       \/ Quit
    /\ UNCHANGED panel

PanelNext ==
    \/ ServiceStep
    \/ \E c \in Starts : OnStatus(c)
    \/ \E h \in Hydrates : HydrateStep(h)
    \/ \E s \in Stops : StopForward(s)

PanelSpec == PanelInit /\ [][PanelNext]_panelVars

\* The frontend handles what reaches it; the service is as fair as alone.
PanelFairness ==
    /\ \A c \in Starts :
          /\ WF_panelVars(spc[c] # "idle" /\ StartCall(c) /\ UNCHANGED panel)
          /\ WF_panelVars(Lifecycle(c) /\ UNCHANGED panel)
          /\ WF_panelVars(EndsCleanly(c) /\ UNCHANGED panel)
          /\ WF_panelVars(Watchdog(c) /\ UNCHANGED panel)
          /\ WF_panelVars(EmitFor(<<"start", c>>, c) /\ UNCHANGED panel)
          /\ WF_panelVars(EmitFor(<<"life", c>>, c) /\ UNCHANGED panel)
          /\ WF_panelVars(OnStatus(c))
    /\ \A s \in Stops :
          /\ WF_panelVars(s \in clicked /\ StopCall(s) /\ UNCHANGED panel)
          /\ WF_panelVars(EmitFor(<<"stop", s>>, aim[s]) /\ UNCHANGED panel)
    /\ \A k \in tearers : WF_panelVars(kpc[k] # "idle" /\ TearCall(k) /\ UNCHANGED panel)
    /\ \A h \in Hydrates : WF_panelVars(HydrateStep(h))

FairPanelSpec == PanelSpec /\ PanelFairness

-----------------------------------------------------------------------------
\* Properties.

\* A forward that ended never comes back to the list, whatever late event or
\* late list arrives after its end (the tombstones of usePortForwards.js).
NoResurrection == \A c \in finished : row[c] = "none"

\* The index and the list hold the same forwards, through every upsert, drop
\* and refill: a row can always be found, updated and removed.
IndexMatchesList == \A c \in Starts : (byId[c] = "none") = (row[c] = "none")

\* The end of a forward that nobody tore down reaches the user: its row goes.
EndReachesPanel ==
    \A c \in Starts :
        lpc[c] = "done" /\ ~teardown[c] ~> row[c] = "none" \/ teardown[c]
=============================================================================
