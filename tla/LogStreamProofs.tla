-------------------------- MODULE LogStreamProofs --------------------------
(***************************************************************************)
(* Log streams, for any number of start() and stop() calls, and what one   *)
(* of them says, for any log and for batches and buffers of any size.      *)
(***************************************************************************)
EXTENDS LogStream, LogView, FiniteSetTheorems, SequenceTheorems, TLAPS

\* Where a start() call stands while its stream has no goroutine.
NotOpened == {"idle", "stop-called", "stop-returned", "stopped", "start-called",
              "start-returned", "follow-called", "opening"}

\* An entry is under its own key, and one that is being opened, and that nobody
\* cancelled, is still there.
RegistrySound ==
    /\ \A k \in Starts : reg[k] \in {None, k}
    /\ \A c \in Starts : vpc[c] \in NotOpened => gpc[c] = "none"
    /\ \A c \in Starts : vpc[c] = "opening" =>
          followed[c] = c /\ (c \notin cancelled => reg[c] = c)

\* The viewer subscribes before it follows: from then on the handlers of a
\* stream are there, or were taken off.
HandlersSound ==
    /\ \A s \in subs : s[1] = s[2]
    /\ \A c \in Starts : vpc[c] \in {"follow-called", "opening"} \/ gpc[c] # "none" =>
          <<c, c>> \in subs \/ c \in dropped
    /\ \A e \in Starts : wire[e] # <<>> => gpc[e] # "none"

RegistryInv == RegistrySound /\ RunningCanBeStopped
HandlersInv == HandlersSound /\ OwnLinesOnly /\ NoLineMissed

\* Why the viewer may say it is streaming: a stop() is about to clear the flag,
\* a start() is under way and was not unsubscribed, or a stream is heard.
Stopping(u)  == vpc[u] \in {"stop-called", "stop-returned"}
SettingUp(c) ==
    \/ vpc[c] \in {"stopped", "start-called", "start-returned"}
    \/ vpc[c] \in {"follow-called", "opening", "follow-failed"} /\ <<c, c>> \in subs
IsHeard(c)   == <<c, c>> \in subs /\ (gpc[c] = "pumping" \/ wire[c] # <<>>)

FlagSound ==
    streaming => \/ \E u \in Stops : Stopping(u)
                 \/ \E c \in Starts : SettingUp(c) \/ IsHeard(c)

\* The end is the last event of a stream.
EndIsLast ==
    \A e \in Starts : gpc[e] \in {"ended", "done"} /\ wire[e] # <<>> =>
        wire[e][Len(wire[e])] = "end"

IInv == TypeOK /\ RegistryInv /\ HandlersInv /\ FlagSound /\ EndIsLast

LEMMA InitInv == Init => IInv
<1> SUFFICES ASSUME Init PROVE IInv
  OBVIOUS
<1>1. TypeOK
  <2>1. 0 \in 0..MaxLines BY LogStreamAssumption
  <2>2. <<>> \in Seq({"line", "error", "end"}) OBVIOUS
  <2> QED BY <2>1, <2>2 DEF Init, TypeOK
<1>2. RegistryInv
  BY DEF Init, RegistryInv, RegistrySound, RunningCanBeStopped, Stops
<1>3. HandlersInv
  BY DEF Init, HandlersInv, HandlersSound, OwnLinesOnly, NoLineMissed, Stops
<1>4. FlagSound /\ EndIsLast BY DEF Init, FlagSound, EndIsLast
<1> QED BY <1>1, <1>2, <1>3, <1>4 DEF IInv

-----------------------------------------------------------------------------
\* Types.

LEMMA TypeStep == TypeOK /\ RegistrySound /\ [Next]_vars => TypeOK'
<1> SUFFICES ASSUME TypeOK, RegistrySound, [Next]_vars PROVE TypeOK'
  OBVIOUS
<1> USE DEF TypeOK, viewer, registry, streams, history, GoTo, Key
<1>1. Starts \subseteq Stops BY DEF Stops
<1>2. CASE UNCHANGED vars BY <1>2 DEF vars
<1>3. ASSUME NEW u \in Stops, StopCall(u) PROVE TypeOK'
  <2>1. CASE Begin(u) BY <2>1 DEF Begin
  <2>2. CASE StopLogStream(u)
    <3>1. reg' \in [Starts -> Starts \union {None}] BY <2>2 DEF StopLogStream
    <3> QED BY <2>2, <3>1 DEF StopLogStream
  <2>3. CASE Stopped(u) BY <2>3 DEF Stopped
  <2> QED BY <1>3, <2>1, <2>2, <2>3 DEF StopCall
<1>4. ASSUME NEW c \in Starts, StartCall(c) PROVE TypeOK'
  <2>1. CASE Reset(c) BY <1>1, <2>1 DEF Reset
  <2>2. CASE StartLogStream(c) BY <1>1, <2>2 DEF StartLogStream
  <2>3. CASE Subscribe(c) BY <1>1, <2>3 DEF Subscribe
  <2>4. CASE FollowLogStream(c) BY <1>1, <2>4 DEF FollowLogStream
  <2>5. CASE Opens(c) BY <1>1, <2>5 DEF Opens
  <2>6. CASE OpenFails(c)
    <3>1. followed[c] \in Starts BY <2>6 DEF OpenFails, RegistrySound
    <3>2. reg' \in [Starts -> Starts \union {None}] BY <2>6 DEF OpenFails, Without
    <3> QED BY <1>1, <2>6, <3>1, <3>2 DEF OpenFails
  <2>7. CASE Followed(c) BY <1>1, <2>7 DEF Followed
  <2>8. CASE Failed(c) BY <1>1, <2>8 DEF Failed
  <2> QED BY <1>4, <2>1, <2>2, <2>3, <2>4, <2>5, <2>6, <2>7, <2>8 DEF StartCall
<1>5. ASSUME NEW e \in Starts, Stream(e) PROVE TypeOK'
  <2>1. CASE EmitLine(e)
    <3>1. Append(wire[e], "line") \in Seq({"line", "error", "end"}) OBVIOUS
    <3>2. sent[e] + 1 \in 0..MaxLines BY <2>1, LogStreamAssumption DEF EmitLine
    <3> QED BY <2>1, <3>1, <3>2 DEF EmitLine
  <2>2. CASE LogEnds(e)
    <3>1. wire' \in [Starts -> Seq({"line", "error", "end"})]
      <4>1. wire[e] \o <<"end">> \in Seq({"line", "error", "end"}) OBVIOUS
      <4> QED BY <2>2, <4>1 DEF LogEnds, PumpReturns
    <3> QED BY <2>2, <3>1 DEF LogEnds, PumpReturns
  <2>3. CASE LogBreaks(e)
    <3>1. wire' \in [Starts -> Seq({"line", "error", "end"})]
      <4>1. wire[e] \o <<"error", "end">> \in Seq({"line", "error", "end"}) OBVIOUS
      <4> QED BY <2>3, <4>1 DEF LogBreaks, PumpReturns
    <3> QED BY <2>3, <3>1 DEF LogBreaks, PumpReturns
  <2>4. CASE Finish(e)
    <3>1. reg' \in [Starts -> Starts \union {None}] BY <2>4 DEF Finish, Without
    <3> QED BY <2>4, <3>1 DEF Finish
  <2>5. CASE Dispatch(e)
    <3>1. wire' \in [Starts -> Seq({"line", "error", "end"})] BY <2>5 DEF Dispatch
    <3>2. heard' \subseteq Starts \X Starts BY <2>5 DEF Dispatch
    <3>3. missed' \subseteq Starts BY <2>5 DEF Dispatch
    <3>4. streaming' \in BOOLEAN BY <2>5, Zenon DEF Dispatch
    <3> QED BY <2>5, <3>1, <3>2, <3>3, <3>4 DEF Dispatch
  <2> QED BY <1>5, <2>1, <2>2, <2>3, <2>4, <2>5 DEF Stream
<1> QED BY <1>2, <1>3, <1>4, <1>5 DEF Next

-----------------------------------------------------------------------------
\* The registry.

LEMMA RegistryStep == TypeOK /\ RegistryInv /\ [Next]_vars => RegistryInv'
<1> SUFFICES ASSUME TypeOK, RegistryInv, [Next]_vars PROVE RegistryInv'
  OBVIOUS
<1> USE LogStreamAssumption
    DEF TypeOK, RegistryInv, RegistrySound, RunningCanBeStopped, NotOpened,
        viewer, registry, streams, history, GoTo, Key
<1>1. Starts \subseteq Stops BY DEF Stops
<1>2. CASE UNCHANGED vars BY <1>2 DEF vars
<1>3. ASSUME NEW u \in Stops, StopCall(u) PROVE RegistryInv'
  <2>1. CASE Begin(u) BY <1>1, <2>1 DEF Begin
  <2>2. CASE StopLogStream(u) BY <1>1, <2>2 DEF StopLogStream
  <2>3. CASE Stopped(u) BY <1>1, <2>3 DEF Stopped
  <2> QED BY <1>3, <2>1, <2>2, <2>3 DEF StopCall
<1>4. ASSUME NEW c \in Starts, StartCall(c) PROVE RegistryInv'
  <2>1. CASE Reset(c) BY <1>1, <2>1 DEF Reset
  <2>2. CASE StartLogStream(c) BY <1>1, <2>2 DEF StartLogStream
  <2>3. CASE Subscribe(c) BY <1>1, <2>3 DEF Subscribe
  <2>4. CASE FollowLogStream(c) BY <1>1, <2>4 DEF FollowLogStream
  <2>5. CASE Opens(c) BY <1>1, <2>5 DEF Opens
  <2>6. CASE OpenFails(c) BY <1>1, <2>6 DEF OpenFails, Without
  <2>7. CASE Followed(c) BY <1>1, <2>7 DEF Followed
  <2>8. CASE Failed(c) BY <1>1, <2>8 DEF Failed
  <2> QED BY <1>4, <2>1, <2>2, <2>3, <2>4, <2>5, <2>6, <2>7, <2>8 DEF StartCall
<1>5. ASSUME NEW e \in Starts, Stream(e) PROVE RegistryInv'
  <2>1. CASE EmitLine(e) BY <1>1, <2>1 DEF EmitLine
  <2>2. CASE LogEnds(e) BY <1>1, <2>2 DEF LogEnds, PumpReturns
  <2>3. CASE LogBreaks(e) BY <1>1, <2>3 DEF LogBreaks, PumpReturns
  <2>4. CASE Finish(e) BY <1>1, <2>4 DEF Finish, Without
  <2>5. CASE Dispatch(e) BY <1>1, <2>5 DEF Dispatch
  <2> QED BY <1>5, <2>1, <2>2, <2>3, <2>4, <2>5 DEF Stream
<1> QED BY <1>2, <1>3, <1>4, <1>5 DEF Next

-----------------------------------------------------------------------------
\* The handlers.

LEMMA HandlersStep ==
    TypeOK /\ RegistryInv /\ HandlersInv /\ [Next]_vars => HandlersInv'
<1> SUFFICES ASSUME TypeOK, RegistryInv, HandlersInv, [Next]_vars PROVE HandlersInv'
  OBVIOUS
<1> USE LogStreamAssumption
    DEF TypeOK, HandlersInv, HandlersSound, OwnLinesOnly, NoLineMissed,
        viewer, registry, streams, history, GoTo, Key
<1>1. Starts \subseteq Stops BY DEF Stops
<1>2. CASE UNCHANGED vars BY <1>2 DEF vars
<1>3. ASSUME NEW u \in Stops, StopCall(u) PROVE HandlersInv'
  <2>1. CASE Begin(u)
    <3>1. \A c \in Starts : <<c, c>> \in subs => <<c, c>> \in subs' \/ c \in dropped'
      BY <2>1 DEF Begin
    <3>2. \A c \in Starts : vpc'[c] \in {"follow-called", "opening"} => vpc'[c] = vpc[c]
      <4>1. vpc' \in {[vpc EXCEPT ![u] = "stop-called"], [vpc EXCEPT ![u] = "stopped"]}
        BY <2>1 DEF Begin
      <4> QED BY <1>1, <4>1
    <3>3. subs' \subseteq subs /\ missed' \subseteq dropped' BY <2>1 DEF Begin
    <3>4. UNCHANGED <<gpc, wire, heard>> /\ dropped \subseteq dropped' BY <2>1 DEF Begin
    <3>5. HandlersSound' BY <3>1, <3>2, <3>3, <3>4
    <3>6. OwnLinesOnly' BY <3>4
    <3> QED BY <3>3, <3>5, <3>6
  <2>2. CASE StopLogStream(u) BY <1>1, <2>2 DEF StopLogStream
  <2>3. CASE Stopped(u) BY <1>1, <2>3 DEF Stopped
  <2> QED BY <1>3, <2>1, <2>2, <2>3 DEF StopCall
<1>4. ASSUME NEW c \in Starts, StartCall(c) PROVE HandlersInv'
  <2>1. CASE Reset(c) BY <1>1, <2>1 DEF Reset
  <2>2. CASE StartLogStream(c) BY <1>1, <2>2 DEF StartLogStream
  <2>3. CASE Subscribe(c) BY <1>1, <2>3 DEF Subscribe
  <2>4. CASE FollowLogStream(c) BY <1>1, <2>4 DEF FollowLogStream
  <2>5. CASE Opens(c)
    <3>1. followed[c] = c BY <2>5 DEF Opens, RegistryInv, RegistrySound
    <3> QED BY <1>1, <2>5, <3>1 DEF Opens
  <2>6. CASE OpenFails(c) BY <1>1, <2>6 DEF OpenFails
  <2>7. CASE Followed(c) BY <1>1, <2>7 DEF Followed
  <2>8. CASE Failed(c) BY <1>1, <2>8 DEF Failed
  <2> QED BY <1>4, <2>1, <2>2, <2>3, <2>4, <2>5, <2>6, <2>7, <2>8 DEF StartCall
<1>5. ASSUME NEW e \in Starts, Stream(e) PROVE HandlersInv'
  <2>1. CASE EmitLine(e) BY <1>1, <2>1 DEF EmitLine
  <2>2. CASE LogEnds(e) BY <1>1, <2>2 DEF LogEnds, PumpReturns
  <2>3. CASE LogBreaks(e) BY <1>1, <2>3 DEF LogBreaks, PumpReturns
  <2>4. CASE Finish(e) BY <1>1, <2>4 DEF Finish
  <2>5. CASE Dispatch(e)
    <3> DEFINE hearers == {c \in Starts : <<e, c>> \in subs}
    <3>1. hearers \subseteq {e} OBVIOUS
    <3>2. hearers = {} => e \in dropped BY <2>5 DEF Dispatch
    <3>3. OwnLinesOnly'
      <4>1. heard' \subseteq heard \union (hearers \X {e}) BY <2>5 DEF Dispatch
      <4>2. \A h \in hearers \X {e} : h[1] = h[2] BY <3>1
      <4> QED BY <4>1, <4>2
    <3>4. NoLineMissed' BY <2>5, <3>2 DEF Dispatch
    <3>5. HandlersSound' BY <1>1, <2>5 DEF Dispatch
    <3> QED BY <3>3, <3>4, <3>5
  <2> QED BY <1>5, <2>1, <2>2, <2>3, <2>4, <2>5 DEF Stream
<1> QED BY <1>2, <1>3, <1>4, <1>5 DEF Next

-----------------------------------------------------------------------------
\* The flag.

LEMMA EndStep == TypeOK /\ EndIsLast /\ [Next]_vars => EndIsLast'
<1> SUFFICES ASSUME TypeOK, EndIsLast, [Next]_vars PROVE EndIsLast'
  OBVIOUS
<1> USE DEF TypeOK, EndIsLast, viewer, registry, streams, history
<1>1. CASE UNCHANGED <<gpc, wire>> BY <1>1
<1>2. ASSUME NEW c \in Starts, Opens(c) PROVE EndIsLast'
  BY <1>2 DEF Opens
<1>3. ASSUME NEW e \in Starts, Stream(e) PROVE EndIsLast'
  <2>1. CASE EmitLine(e) BY <2>1 DEF EmitLine
  <2>2. CASE LogEnds(e)
    <3>1. wire' = [wire EXCEPT ![e] = @ \o <<"end">>] BY <2>2 DEF LogEnds, PumpReturns
    <3>2. wire'[e] = wire[e] \o <<"end">> BY <3>1
    <3>3. wire'[e][Len(wire'[e])] = "end" BY <3>2
    <3> QED BY <2>2, <3>1, <3>3 DEF LogEnds, PumpReturns
  <2>3. CASE LogBreaks(e)
    <3>1. wire' = [wire EXCEPT ![e] = @ \o <<"error", "end">>] BY <2>3 DEF LogBreaks, PumpReturns
    <3>2. wire'[e] = wire[e] \o <<"error", "end">> BY <3>1
    <3>3. wire'[e][Len(wire'[e])] = "end" BY <3>2
    <3> QED BY <2>3, <3>1, <3>3 DEF LogBreaks, PumpReturns
  <2>4. CASE Finish(e) BY <2>4 DEF Finish
  <2>5. CASE Dispatch(e)
    <3>1. wire' = [wire EXCEPT ![e] = Tail(@)] /\ wire[e] # <<>> /\ gpc' = gpc
      BY <2>5 DEF Dispatch
    <3>2. wire'[e] # <<>> => wire'[e][Len(wire'[e])] = wire[e][Len(wire[e])] BY <3>1
    <3> QED BY <3>1, <3>2
  <2> QED BY <1>3, <2>1, <2>2, <2>3, <2>4, <2>5 DEF Stream
<1> QED
  BY <1>1, <1>2, <1>3 DEF Next, vars, StopCall, Begin, StopLogStream, Stopped, StartCall,
     Reset, StartLogStream, Subscribe, FollowLogStream, OpenFails, Followed, Failed

\* A sequence whose first and last elements differ has a tail.
LEMMA MoreThanOne ==
    ASSUME NEW S, NEW s \in Seq(S), s # <<>>, Head(s) # s[Len(s)]
    PROVE  Tail(s) # <<>>
<1>1. Len(s) \in Nat /\ Len(s) # 0 BY EmptySeq
<1>2. Len(s) # 1
  <2>1. Head(s) = s[1] OBVIOUS
  <2> QED BY <2>1
<1>3. Len(Tail(s)) = Len(s) - 1 BY HeadTailProperties
<1>4. Len(Tail(s)) # 0 BY <1>1, <1>2, <1>3
<1>5. Len(<<>>) = 0 BY EmptySeq
<1> QED BY <1>4, <1>5, Zenon

LEMMA FlagStep == IInv /\ [Next]_vars => FlagSound'
<1> SUFFICES ASSUME IInv, [Next]_vars, streaming' PROVE FlagSound'
  BY DEF FlagSound
<1> USE DEF IInv, FlagSound, Stopping, SettingUp, IsHeard, viewer, registry, streams, history
<1>1. Starts \subseteq Stops /\ vpc = [u \in Stops |-> vpc[u]]
  BY DEF Stops, TypeOK
<1>2. CASE UNCHANGED vars BY <1>2 DEF vars
<1>3. ASSUME NEW u \in Stops, StopCall(u) PROVE FlagSound'
  <2>1. CASE Begin(u)
    <3>1. vpc' = [vpc EXCEPT ![u] = "stop-called"] BY <2>1 DEF Begin, GoTo
    <3> QED BY <1>1, <3>1
  <2>2. CASE StopLogStream(u)
    <3>1. vpc' = [vpc EXCEPT ![u] = "stop-returned"] BY <2>2 DEF StopLogStream, GoTo
    <3> QED BY <1>1, <3>1
  <2>3. CASE Stopped(u) BY <2>3 DEF Stopped
  <2> QED BY <1>3, <2>1, <2>2, <2>3 DEF StopCall
<1>4. ASSUME NEW c \in Starts, StartCall(c) PROVE FlagSound'
  <2>1. CASE Reset(c)
    <3>1. vpc' = [vpc EXCEPT ![c] = "start-called"] BY <2>1 DEF Reset, GoTo
    <3> QED BY <1>1, <3>1
  <2>2. CASE StartLogStream(c)
    <3>1. vpc' = [vpc EXCEPT ![c] = "start-returned"] BY <2>2 DEF StartLogStream, GoTo
    <3> QED BY <1>1, <3>1
  <2>3. CASE Subscribe(c)
    <3>1. vpc' = [vpc EXCEPT ![c] = "follow-called"] /\ <<c, c>> \in subs'
      BY <2>3 DEF Subscribe, GoTo, Key
    <3> QED BY <1>1, <3>1
  <2>4. CASE FollowLogStream(c)
    <3>1. vpc' \in {[vpc EXCEPT ![c] = "opening"], [vpc EXCEPT ![c] = "follow-failed"]}
      BY <2>4 DEF FollowLogStream, GoTo
    <3>2. vpc[c] = "follow-called" /\ UNCHANGED <<subs, streaming, gpc, wire>>
      BY <2>4 DEF FollowLogStream
    <3> QED BY <1>1, <3>1, <3>2
  <2>5. CASE Opens(c)
    <3>1. followed[c] = c BY <2>5 DEF Opens, RegistryInv, RegistrySound
    <3>2. /\ vpc[c] = "opening" /\ vpc' = [vpc EXCEPT ![c] = "follow-returned"]
          /\ gpc' = [gpc EXCEPT ![c] = "pumping"]
          /\ UNCHANGED <<subs, streaming, wire>>
      BY <2>5, <3>1 DEF Opens, GoTo
    <3> QED BY <1>1, <3>2 DEF TypeOK
  <2>6. CASE OpenFails(c)
    <3>1. /\ vpc[c] = "opening" /\ vpc' = [vpc EXCEPT ![c] = "follow-failed"]
          /\ UNCHANGED <<subs, streaming, gpc, wire>>
      BY <2>6 DEF OpenFails, GoTo
    <3> QED BY <1>1, <3>1
  <2>7. CASE Followed(c)
    <3>1. /\ vpc[c] = "follow-returned" /\ vpc' = [vpc EXCEPT ![c] = "done"]
          /\ UNCHANGED <<subs, streaming, gpc, wire>>
      BY <2>7 DEF Followed, GoTo
    <3> QED BY <1>1, <3>1
  <2>8. CASE Failed(c) BY <2>8 DEF Failed
  <2> QED BY <1>4, <2>1, <2>2, <2>3, <2>4, <2>5, <2>6, <2>7, <2>8 DEF StartCall
<1>5. ASSUME NEW e \in Starts, Stream(e) PROVE FlagSound'
  <2>1. CASE EmitLine(e)
    <3>1. wire' = [wire EXCEPT ![e] = Append(@, "line")] /\ UNCHANGED <<viewer, gpc>>
      BY <2>1 DEF EmitLine
    <3>2. wire'[e] # <<>> BY <3>1 DEF TypeOK
    <3> QED BY <3>1, <3>2 DEF TypeOK
  <2>2. CASE LogEnds(e)
    <3>1. /\ wire' = [wire EXCEPT ![e] = @ \o <<"end">>]
          /\ gpc' = [gpc EXCEPT ![e] = "ended"] /\ UNCHANGED viewer
      BY <2>2 DEF LogEnds, PumpReturns
    <3>2. wire[e] \in Seq({"line", "error", "end"}) BY DEF TypeOK
    <3>3. wire[e] \o <<"end">> # <<>> BY <3>2
    <3> QED BY <3>1, <3>3 DEF TypeOK
  <2>3. CASE LogBreaks(e)
    <3>1. /\ wire' = [wire EXCEPT ![e] = @ \o <<"error", "end">>]
          /\ gpc' = [gpc EXCEPT ![e] = "ended"] /\ UNCHANGED viewer
      BY <2>3 DEF LogBreaks, PumpReturns
    <3>2. wire[e] \in Seq({"line", "error", "end"}) BY DEF TypeOK
    <3>3. wire[e] \o <<"error", "end">> # <<>> BY <3>2
    <3> QED BY <3>1, <3>3 DEF TypeOK
  <2>4. CASE Finish(e)
    <3>1. gpc[e] = "ended" /\ gpc' = [gpc EXCEPT ![e] = "done"] /\ UNCHANGED <<viewer, wire>>
      BY <2>4 DEF Finish
    <3> QED BY <3>1 DEF TypeOK
  <2>5. CASE Dispatch(e)
    <3>1. /\ wire[e] # <<>> /\ wire' = [wire EXCEPT ![e] = Tail(@)]
          /\ UNCHANGED <<vpc, subs, gpc>>
      BY <2>5 DEF Dispatch
    <3>2. streaming BY <2>5 DEF Dispatch
    <3>3. CASE Head(wire[e]) = "line"
      <4>1. IsHeard(e) => IsHeard(e)'
        <5> SUFFICES ASSUME IsHeard(e), gpc[e] # "pumping" PROVE wire'[e] # <<>>
          BY <3>1
        <5>1. gpc[e] \in {"ended", "done"} BY DEF TypeOK, HandlersInv, HandlersSound
        <5>2. wire[e][Len(wire[e])] = "end" BY <3>1, <5>1 DEF EndIsLast
        <5>3. wire[e] \in Seq({"line", "error", "end"}) BY DEF TypeOK
        <5>4. Head(wire[e]) # wire[e][Len(wire[e])] BY <3>3, <5>2
        <5>5. wire[e] # <<>> BY <3>1
        <5>6. Tail(wire[e]) # <<>> BY <5>3, <5>4, <5>5, MoreThanOne
        <5> QED BY <3>1, <5>6 DEF TypeOK
      <4>2. \A c \in Starts \ {e} : IsHeard(c) => IsHeard(c)' BY <3>1 DEF TypeOK
      <4> QED BY <3>1, <3>2, <4>1, <4>2
    <3>4. CASE Head(wire[e]) # "line"
      <4>1. {c \in Starts : <<Key(e), c>> \in subs} = {} BY <2>5, <3>4 DEF Dispatch
      <4>2. ~IsHeard(e) BY <4>1 DEF Key
      <4>3. \A c \in Starts \ {e} : IsHeard(c) => IsHeard(c)' BY <3>1 DEF TypeOK
      <4> QED BY <3>1, <3>2, <4>2, <4>3
    <3> QED BY <3>3, <3>4
  <2> QED BY <1>5, <2>1, <2>2, <2>3, <2>4, <2>5 DEF Stream
<1> QED BY <1>2, <1>3, <1>4, <1>5 DEF Next

-----------------------------------------------------------------------------
LEMMA Invariance == Spec => []IInv
<1>1. IInv /\ [Next]_vars => IInv'
  BY TypeStep, RegistryStep, HandlersStep, EndStep, FlagStep DEF IInv, RegistryInv
<1> QED BY InitInv, <1>1, PTL DEF Spec

\* Every reachable state of the registry and the viewer is well-typed.
THEOREM TypeCorrect == Spec => []TypeOK
<1>1. IInv => TypeOK BY DEF IInv
<1> QED BY <1>1, Invariance, PTL

\* A stream that runs can be stopped, whatever calls overlap.
THEOREM RunningCanBeStoppedHolds == Spec => []RunningCanBeStopped
<1>1. IInv => RunningCanBeStopped BY DEF IInv, RegistryInv
<1> QED BY <1>1, Invariance, PTL

\* Handlers hear the stream their own start() reserved and no other: ids are
\* never used twice.
THEOREM OwnLinesOnlyHolds == Spec => []OwnLinesOnly
<1>1. IInv => OwnLinesOnly BY DEF IInv, HandlersInv
<1> QED BY <1>1, Invariance, PTL

\* No line is dispatched before the handlers of its stream are there, and none
\* is lost before they are taken off: reserve, listen, start (start()).
THEOREM NoLineMissedHolds == Spec => []NoLineMissed
<1>1. IInv => NoLineMissed BY DEF IInv, HandlersInv
<1> QED BY <1>1, Invariance, PTL

\* A viewer at rest that says it is streaming is: overlapping start() and stop()
\* calls, failures and late events do not leave the flag up.
THEOREM StreamingIsTrueHolds == Spec => []StreamingIsTrue
<1>1. IInv => StreamingIsTrue
  <2> SUFFICES ASSUME IInv, streaming, \A u \in Stops : ~Busy(u)
               PROVE  \E s \in subs : \E e \in Starts :
                         s[1] = Key(e) /\ (gpc[e] = "pumping" \/ wire[e] # <<>>)
    BY DEF StreamingIsTrue
  <2>1. \A u \in Stops : ~Stopping(u) BY DEF Busy, Stopping
  <2>2. \A c \in Starts : ~SettingUp(c) BY DEF Busy, SettingUp, Stops
  <2>3. PICK c \in Starts : IsHeard(c) BY <2>1, <2>2 DEF IInv, FlagSound
  <2>4. <<c, c>>[1] = Key(c) BY DEF Key
  <2> QED BY <2>3, <2>4 DEF IsHeard
<1> QED BY <1>1, Invariance, PTL
-----------------------------------------------------------------------------
(***************************************************************************)
(* LogView: the text of one stream.                                        *)
(***************************************************************************)

\* Texts, and sequences of them.
LEMMA NoTexts == /\ Tokens(<<>>) = {} /\ InOrder(<<>>) /\ <<>> \in Seq(Seq(Nat))
                 /\ Rising(<<>>) /\ Range(<<>>) = {}
BY DEF Tokens, InOrder, Rising, Range

LEMMA OneText ==
    ASSUME NEW text \in Seq(Nat)
    PROVE  /\ <<text>> \in Seq(Seq(Nat)) /\ Tokens(<<text>>) = Range(text)
           /\ Rising(text) => InOrder(<<text>>)
<1>1. DOMAIN <<text>> = {1} /\ <<text>>[1] = text OBVIOUS
<1>2. Tokens(<<text>>) = Range(text) BY <1>1 DEF Tokens
<1>3. Rising(text) => InOrder(<<text>>) BY <1>1 DEF InOrder
<1> QED BY <1>2, <1>3

LEMMA TokensAreNumbers ==
    ASSUME NEW texts \in Seq(Seq(Nat)) PROVE Tokens(texts) \subseteq Nat
BY DEF Tokens, Range

\* c is a, of length m, and then b, of length n.
IsJoin(c, a, m, b, n) ==
    /\ m \in Nat /\ n \in Nat
    /\ DOMAIN a = 1..m /\ DOMAIN b = 1..n /\ DOMAIN c = 1..(m + n)
    /\ \A i \in 1..m : c[i] = a[i]
    /\ \A i \in 1..n : c[m + i] = b[i]

LEMMA Joins ==
    ASSUME NEW a, NEW b, NEW c, NEW m, NEW n, IsJoin(c, a, m, b, n)
    PROVE  /\ Tokens(c) = Tokens(a) \union Tokens(b)
           /\ InOrder(a) /\ InOrder(b) /\ Before(Tokens(a), Tokens(b)) => InOrder(c)
<1> USE DEF IsJoin
<1>1. \A i \in 1..m + n : i \in 1..m \/ (i - m \in 1..n /\ c[i] = b[i - m])
  <2> SUFFICES ASSUME NEW i \in 1..m + n, i \notin 1..m PROVE i - m \in 1..n /\ c[i] = b[i - m]
    OBVIOUS
  <2>1. i - m \in 1..n /\ m + (i - m) = i OBVIOUS
  <2> QED BY <2>1
<1>2. Tokens(c) = Tokens(a) \union Tokens(b)
  <2>1. ASSUME NEW x \in Tokens(c) PROVE x \in Tokens(a) \union Tokens(b)
    <3>1. PICK i \in 1..m + n : x \in Range(c[i]) BY <2>1 DEF Tokens
    <3> QED BY <1>1, <3>1 DEF Tokens
  <2>2. ASSUME NEW x \in Tokens(a) PROVE x \in Tokens(c)
    <3>1. PICK i \in 1..m : x \in Range(a[i]) BY <2>2 DEF Tokens
    <3>2. i \in 1..m + n /\ c[i] = a[i] OBVIOUS
    <3> QED BY <3>1, <3>2 DEF Tokens
  <2>3. ASSUME NEW x \in Tokens(b) PROVE x \in Tokens(c)
    <3>1. PICK i \in 1..n : x \in Range(b[i]) BY <2>3 DEF Tokens
    <3>2. m + i \in 1..m + n /\ c[m + i] = b[i] OBVIOUS
    <3> QED BY <3>1, <3>2 DEF Tokens
  <2> QED BY <2>1, <2>2, <2>3
<1>3. ASSUME InOrder(a), InOrder(b), Before(Tokens(a), Tokens(b)) PROVE InOrder(c)
  <2>1. ASSUME NEW i \in 1..m + n PROVE Rising(c[i])
    BY <1>1, <1>3 DEF InOrder
  <2>2. ASSUME NEW i \in 1..m + n, NEW j \in 1..m + n, i < j
        PROVE  Before(Range(c[i]), Range(c[j]))
    <3>1. CASE j \in 1..m
      <4>1. i \in 1..m BY <2>2, <3>1
      <4> QED BY <1>3, <2>2, <3>1, <4>1 DEF InOrder
    <3>2. CASE j \notin 1..m /\ i \notin 1..m
      <4>1. /\ i - m \in 1..n /\ c[i] = b[i - m]
            /\ j - m \in 1..n /\ c[j] = b[j - m]
        BY <1>1, <3>2
      <4>2. i - m < j - m BY <2>2
      <4> QED BY <1>3, <4>1, <4>2 DEF InOrder
    <3>3. CASE j \notin 1..m /\ i \in 1..m
      <4>1. c[i] = a[i] /\ j - m \in 1..n /\ c[j] = b[j - m] BY <1>1, <3>3
      <4>2. Range(c[i]) \subseteq Tokens(a) BY <3>3, <4>1 DEF Tokens
      <4>3. Range(c[j]) \subseteq Tokens(b) BY <4>1 DEF Tokens
      <4> QED BY <1>3, <4>2, <4>3 DEF Before
    <3> QED BY <3>1, <3>2, <3>3
  <2> QED BY <2>1, <2>2 DEF InOrder
<1> QED BY <1>2, <1>3

LEMMA JoinedTexts ==
    ASSUME NEW a \in Seq(Seq(Nat)), NEW b \in Seq(Seq(Nat))
    PROVE  /\ a \o b \in Seq(Seq(Nat)) /\ Tokens(a \o b) = Tokens(a) \union Tokens(b)
           /\ InOrder(a) /\ InOrder(b) /\ Before(Tokens(a), Tokens(b)) => InOrder(a \o b)
<1> DEFINE c == a \o b
           m == Len(a)
           n == Len(b)
<1>1. IsJoin(c, a, m, b, n) /\ c \in Seq(Seq(Nat)) BY DEF IsJoin
<1> HIDE DEF c, m, n
<1>2. /\ Tokens(c) = Tokens(a) \union Tokens(b)
      /\ InOrder(a) /\ InOrder(b) /\ Before(Tokens(a), Tokens(b)) => InOrder(c)
  BY <1>1, Joins
<1> QED BY <1>1, <1>2 DEF c

\* b is the end of a.
LEMMA Ends ==
    ASSUME NEW m \in Nat, NEW k \in Nat, NEW a, NEW b, InOrder(a), Tokens(a) \subseteq Nat,
           DOMAIN a = 1..m + k, DOMAIN b = 1..m, \A i \in 1..m : b[i] = a[i + k]
    PROVE  /\ InOrder(b) /\ Tokens(b) \subseteq Tokens(a)
           /\ \A x \in Tokens(b), y \in Tokens(a) : x < y => y \in Tokens(b)
<1>1. \A i \in 1..m : i + k \in 1..m + k OBVIOUS
<1>2. InOrder(b)
  <2>1. \A i \in 1..m : Rising(b[i]) BY <1>1 DEF InOrder
  <2>2. ASSUME NEW i \in 1..m, NEW j \in 1..m, i < j PROVE Before(Range(b[i]), Range(b[j]))
    <3>1. i + k < j + k /\ i + k \in 1..m + k /\ j + k \in 1..m + k BY <2>2
    <3> QED BY <3>1 DEF InOrder
  <2> QED BY <2>1, <2>2 DEF InOrder
<1>3. Tokens(b) \subseteq Tokens(a) BY <1>1 DEF Tokens
<1>4. ASSUME NEW x \in Tokens(b), NEW y \in Tokens(a), x < y PROVE y \in Tokens(b)
  <2>1. PICK i \in 1..m : x \in Range(b[i]) BY DEF Tokens
  <2>2. PICK j \in 1..m + k : y \in Range(a[j]) BY DEF Tokens
  <2>3. i + k \in 1..m + k /\ x \in Range(a[i + k]) BY <1>1, <2>1
  <2>4. ~(j < i + k)
    <3> SUFFICES ASSUME j < i + k PROVE FALSE OBVIOUS
    <3>1. Before(Range(a[j]), Range(a[i + k])) BY <2>3 DEF InOrder
    <3>2. y < x BY <2>2, <2>3, <3>1 DEF Before
    <3>3. x \in Nat /\ y \in Nat BY <1>3
    <3> QED BY <1>4, <3>2, <3>3
  <2>5. j - k \in 1..m /\ (j - k) + k = j BY <2>4
  <2>6. b[j - k] = a[j] BY <2>5
  <2> QED BY <2>2, <2>5, <2>6 DEF Tokens
<1> QED BY <1>2, <1>3, <1>4

\* The last texts of texts that are in order.
LEMMA LastTexts ==
    ASSUME NEW a \in Seq(Seq(Nat)), InOrder(a), NEW k \in 0..Len(a)
    PROVE  LET b == SubSeq(a, k + 1, Len(a)) IN
           /\ b \in Seq(Seq(Nat)) /\ InOrder(b) /\ Tokens(b) \subseteq Tokens(a)
           /\ \A x \in Tokens(b), y \in Tokens(a) : x < y => y \in Tokens(b)
           /\ k = 0 => b = a
<1> DEFINE b == SubSeq(a, k + 1, Len(a))
<1>1. /\ DOMAIN a = 1..(Len(a) - k) + k /\ Len(a) - k \in Nat /\ k \in Nat
      /\ b \in Seq(Seq(Nat)) /\ DOMAIN b = 1..Len(a) - k
      /\ \A i \in 1..Len(a) - k : b[i] = a[i + k]
      /\ k = 0 => b = a
  OBVIOUS
<1> HIDE DEF b
<1>2. Tokens(a) \subseteq Nat BY TokensAreNumbers
<1>3. /\ InOrder(b) /\ Tokens(b) \subseteq Tokens(a)
      /\ \A x \in Tokens(b), y \in Tokens(a) : x < y => y \in Tokens(b)
  BY <1>1, <1>2, Ends
<1> QED BY <1>1, <1>3 DEF b

\* A text goes on.
LEMMA JoinedText ==
    ASSUME NEW p \in Seq(Nat), NEW q \in Seq(Nat)
    PROVE  /\ p \o q \in Seq(Nat) /\ Range(p \o q) = Range(p) \union Range(q)
           /\ Rising(p) /\ Rising(q) /\ Before(Range(p), Range(q)) => Rising(p \o q)
<1> DEFINE c == p \o q
<1>1. /\ c \in Seq(Nat) /\ Len(c) = Len(p) + Len(q)
      /\ \A i \in 1..Len(p) : c[i] = p[i]
      /\ \A i \in 1..Len(c) : i \in 1..Len(p) \/ (i - Len(p) \in 1..Len(q) /\ c[i] = q[i - Len(p)])
  OBVIOUS
<1>2. Range(c) = Range(p) \union Range(q) BY RangeConcatenation
<1> HIDE DEF c
<1>3. ASSUME Rising(p), Rising(q), Before(Range(p), Range(q)) PROVE Rising(c)
  <2>1. ASSUME NEW i \in 1..Len(c), NEW j \in 1..Len(c), i < j PROVE c[i] < c[j]
    <3>1. CASE j \in 1..Len(p)
      <4>1. i \in 1..Len(p) BY <2>1, <3>1
      <4>2. c[i] = p[i] /\ c[j] = p[j] BY <1>1, <3>1, <4>1
      <4>3. i \in DOMAIN p /\ j \in DOMAIN p BY <3>1, <4>1
      <4> QED BY <1>3, <2>1, <4>2, <4>3 DEF Rising
    <3>2. CASE j \notin 1..Len(p) /\ i \notin 1..Len(p)
      <4>1. /\ i - Len(p) \in 1..Len(q) /\ c[i] = q[i - Len(p)]
            /\ j - Len(p) \in 1..Len(q) /\ c[j] = q[j - Len(p)]
        BY <1>1, <3>2
      <4>2. i - Len(p) < j - Len(p) BY <2>1
      <4> QED BY <1>3, <4>1, <4>2 DEF Rising
    <3>3. CASE j \notin 1..Len(p) /\ i \in 1..Len(p)
      <4>1. c[i] = p[i] /\ j - Len(p) \in 1..Len(q) /\ c[j] = q[j - Len(p)] BY <1>1, <3>3
      <4>2. c[i] \in Range(p) /\ c[j] \in Range(q)
        <5>1. i \in DOMAIN p BY <3>3
        <5>2. j - Len(p) \in DOMAIN q BY <4>1
        <5> QED BY <4>1, <5>1, <5>2 DEF Range
      <4> QED BY <1>3, <4>2 DEF Before
    <3> QED BY <3>1, <3>2, <3>3
  <2>2. DOMAIN c = 1..Len(c) BY <1>1
  <2> QED BY <2>1, <2>2 DEF Rising
<1> QED BY <1>1, <1>2, <1>3 DEF c

\* The first of a batch of lines, and the others.
LEMMA FirstText ==
    ASSUME NEW a \in Seq(Seq(Nat)), InOrder(a), a # <<>>
    PROVE  /\ a[1] \in Seq(Nat) /\ Rising(a[1])
           /\ Tail(a) \in Seq(Seq(Nat)) /\ InOrder(Tail(a))
           /\ Before(Range(a[1]), Tokens(Tail(a)))
           /\ Tokens(a) = Range(a[1]) \union Tokens(Tail(a))
<1> DEFINE b == Tail(a)
           m == Len(a) - 1
<1>1. /\ m \in Nat /\ DOMAIN a = 1..m + 1 /\ a[1] \in Seq(Nat) /\ b \in Seq(Seq(Nat))
      /\ DOMAIN b = 1..m /\ \A i \in 1..m : b[i] = a[i + 1]
  OBVIOUS
<1>2. Tokens(a) \subseteq Nat BY TokensAreNumbers
<1> HIDE DEF b, m
<1>3. InOrder(b) /\ Tokens(b) \subseteq Tokens(a) BY <1>1, <1>2, Ends
<1>4. Rising(a[1])
  <2>1. 1 \in DOMAIN a BY <1>1
  <2> QED BY <2>1 DEF InOrder
<1>5. Before(Range(a[1]), Tokens(b))
  <2> SUFFICES ASSUME NEW x \in Range(a[1]), NEW y \in Tokens(b) PROVE x < y
    BY DEF Before
  <2>1. PICK i \in 1..m : y \in Range(b[i]) BY <1>1 DEF Tokens
  <2>2. i + 1 \in 1..m + 1 /\ 1 < i + 1 /\ b[i] = a[i + 1] /\ 1 \in 1..m + 1 BY <1>1
  <2>3. Before(Range(a[1]), Range(a[i + 1])) BY <1>1, <2>2 DEF InOrder
  <2> QED BY <2>1, <2>2, <2>3 DEF Before
<1>6. Tokens(a) \subseteq Range(a[1]) \union Tokens(b)
  <2> SUFFICES ASSUME NEW x \in Tokens(a) PROVE x \in Range(a[1]) \union Tokens(b)
    OBVIOUS
  <2>1. PICK i \in 1..m + 1 : x \in Range(a[i]) BY <1>1 DEF Tokens
  <2>2. CASE i # 1
    <3>1. i - 1 \in 1..m /\ (i - 1) + 1 = i BY <1>1, <2>2
    <3>2. b[i - 1] = a[i] BY <1>1, <3>1
    <3> QED BY <1>1, <2>1, <3>1, <3>2 DEF Tokens
  <2> QED BY <2>1, <2>2
<1>7. Range(a[1]) \subseteq Tokens(a)
  <2>1. 1 \in DOMAIN a BY <1>1
  <2> QED BY <2>1 DEF Tokens
<1> QED BY <1>1, <1>3, <1>4, <1>5, <1>6, <1>7 DEF b
-----------------------------------------------------------------------------
(***************************************************************************)
(* The text on its way.  Each place it is in is in order, each is older    *)
(* than the next, and together they hold what is due, or the end of it.    *)
(***************************************************************************)
BufferLines == [seq : Nat, text : Seq(Nat)]
Events == [name : {"batch", "part", "end"}, lines : Seq(Seq(Nat))]

\* What each kind of event carries.
Formed(ev) ==
    /\ ev.name = "batch" => ev.lines # <<>>
    /\ ev.name = "part" => ev.lines = <<ev.lines[1]>> /\ ev.lines[1] \in Seq(Nat)
    /\ ev.name = "end" => ev.lines = <<>>

\* Events on the wire, and the tokens they carry.
Carried(events) == UNION {Tokens(events[e].lines) : e \in DOMAIN events}
Queued(events) ==
    /\ events \in Seq(Events)
    /\ \A e \in DOMAIN events : Formed(events[e])
    /\ \A e \in DOMAIN events : InOrder(events[e].lines)
    /\ \A e, f \in DOMAIN events :
          e < f => Before(Tokens(events[e].lines), Tokens(events[f].lines))

\* A buffer, and the texts of its lines.
TextsOf(raw) == [i \in DOMAIN raw |-> raw[i].text]
Buffers(b) ==
    /\ b = [raw |-> b.raw, view |-> b.view, matches |-> b.matches, next |-> b.next]
    /\ b.raw \in Seq(BufferLines) /\ b.next \in Nat
    /\ Len(b.raw) <= b.next /\ Len(b.raw) <= BufferSize
    /\ InOrder(TextsOf(b.raw))

Places ==
    /\ log \in Seq([kind : Kinds \union {Blank}, partial : BOOLEAN])
    /\ due \subseteq 1..Len(log)
    /\ Buffers(buf)
    /\ late \in Seq(Seq(Nat)) /\ InOrder(late)
    /\ partial \in Seq(Nat) /\ Rising(partial) /\ Len(partial) <= MaxPartial
    /\ Queued(emitted)
    /\ pending \in Seq(Seq(Nat)) /\ InOrder(pending) /\ Len(pending) < BatchSize
    /\ rebuild = [on |-> rebuild.on, pos |-> rebuild.pos, rows |-> rebuild.rows,
                  committed |-> rebuild.committed]
    /\ ~rebuild.on => late = <<>>

Chain(A, B, C, D, E) ==
    /\ Before(A, B) /\ Before(A, C) /\ Before(A, D) /\ Before(A, E)
    /\ Before(B, C) /\ Before(B, D) /\ Before(B, E)
    /\ Before(C, D) /\ Before(C, E) /\ Before(D, E)

Raw == Tokens(TextsOf(buf.raw))
InPlaceOrder == Chain(Raw, Tokens(late), Range(partial), Carried(emitted), Tokens(pending))

Held == Raw \union Tokens(late) \union Range(partial) \union Carried(emitted)
            \union Tokens(pending)

NewestHeld ==
    /\ Held \subseteq due
    /\ \A x \in Held, y \in due : x < y => y \in Held
    /\ buf.next <= BufferSize => due \subseteq Held

TextInv == Places /\ InPlaceOrder /\ NewestHeld

LEMMA TextInitially == TextInit => TextInv
<1> SUFFICES ASSUME TextInit PROVE TextInv
  OBVIOUS
<1>1. buf = Empty /\ rebuild = Idle /\ log = <<>> /\ due = {} BY DEF TextInit
<1>2. TextsOf(buf.raw) = <<>> BY <1>1 DEF TextsOf, Empty
<1>3. Carried(emitted) = {} /\ Queued(emitted) BY DEF TextInit, Carried, Queued
<1>4. Raw = {} /\ Tokens(late) = {} /\ Range(partial) = {} /\ Tokens(pending) = {}
  BY <1>2, NoTexts DEF TextInit, Raw
<1>5. Buffers(buf) BY <1>1, <1>2, NoTexts, LogViewAssumption DEF Buffers, Empty
<1>6. Places BY <1>1, <1>3, <1>5, NoTexts, LogViewAssumption DEF TextInit, Places, Idle
<1>7. InPlaceOrder BY <1>3, <1>4 DEF InPlaceOrder, Chain, Before
<1>8. NewestHeld BY <1>1, <1>3, <1>4 DEF NewestHeld, Held
<1> QED BY <1>6, <1>7, <1>8 DEF TextInv

\* c is a, of length k, then b, then z.
IsBetween(c, a, k, b, z) ==
    /\ DOMAIN c = 1..(Len(b) + k + 1)
    /\ c[Len(b) + k + 1] = z
    /\ \A i \in 1..k : c[i] = a[i]
    /\ \A i \in 1..Len(b) : c[i + k] = b[i]

LEMMA Between ==
    ASSUME NEW S, NEW a \in Seq(S), NEW b \in Seq(S), NEW z \in S, NEW k \in Nat, Len(a) = k
    PROVE  IsBetween(a \o b \o <<z>>, a, k, b, z)
<1> DEFINE ab == a \o b
           c == ab \o <<z>>
<1>1. ab \in Seq(S) /\ Len(ab) = Len(b) + k /\ Len(b) \in Nat
  OBVIOUS
<1>2. \A i \in 1..k : ab[i] = a[i]
  OBVIOUS
<1>3. ASSUME NEW i \in 1..Len(b) PROVE ab[i + k] = b[i] /\ i + k \in 1..(Len(b) + k)
  <2>1. i + k \in 1..(Len(b) + k) /\ ~(i + k <= k) /\ (i + k) - k = i BY <1>1
  <2> QED BY <2>1
<1> HIDE DEF ab
<1>4. /\ DOMAIN c = 1..(Len(b) + k + 1) /\ c[Len(b) + k + 1] = z
      /\ \A i \in 1..(Len(b) + k) : c[i] = ab[i]
  <2>1. ab \in Seq(S) /\ Len(ab) \in Nat BY <1>1
  <2>2. DOMAIN c = 1..(Len(ab) + 1) /\ c[Len(ab) + 1] = z BY <2>1
  <2>3. \A i \in 1..Len(ab) : c[i] = ab[i] BY <2>1
  <2> QED BY <1>1, <2>2, <2>3
<1> HIDE DEF c
<1>5. \A i \in 1..k : c[i] = a[i] BY <1>1, <1>2, <1>4
<1>6. \A i \in 1..Len(b) : c[i + k] = b[i] BY <1>3, <1>4
<1>7. IsBetween(c, a, k, b, z) BY <1>4, <1>5, <1>6 DEF IsBetween
<1> QED BY <1>7 DEF c, ab

\* The invariant is the property, stage by stage.
LEMMA PlacesAreStages == TextInv => TextKeptInOrder
<1> SUFFICES ASSUME TextInv PROVE TextKeptInOrder
  OBVIOUS
<1> DEFINE n == Len(emitted)
           OnWire == Carried(emitted)
<1>0. n \in Nat /\ DOMAIN emitted = 1..n /\ partial \in Seq(Nat) /\ Buffered = TextsOf(buf.raw)
  BY DEF TextInv, Places, Queued, Buffered, TextsOf
<1>1. /\ DOMAIN Stages = 1..n + 4
      /\ Stages[1] = Buffered /\ Stages[2] = late /\ Stages[3] = <<partial>>
      /\ Stages[n + 4] = pending
      /\ \A e \in 1..n : Stages[e + 3] = emitted[e].lines
  <2> DEFINE a == <<Buffered, late, <<partial>>>>
             b == [e \in DOMAIN emitted |-> emitted[e].lines]
             S == {Buffered, late, <<partial>>, pending} \union Seq(Seq(Nat))
  <2>1. /\ Len(a) = 3 /\ a[1] = Buffered /\ a[2] = late /\ a[3] = <<partial>>
        /\ a \in Seq(S) /\ <<pending>> \in Seq(S) /\ Len(<<pending>>) = 1
        /\ <<pending>>[1] = pending
    OBVIOUS
  <2>2. b \in Seq(S) /\ Len(b) = n /\ \A e \in 1..n : b[e] = emitted[e].lines
    <3>1. emitted \in Seq(Events) BY DEF TextInv, Places, Queued
    <3>2. \A e \in 1..n : emitted[e].lines \in Seq(Seq(Nat))
      <4>1. \A e \in 1..n : emitted[e] \in Events BY <1>0, <3>1
      <4> QED BY <4>1 DEF Events
    <3>3. b = [e \in 1..n |-> emitted[e].lines] BY <1>0
    <3> QED BY <1>0, <3>2, <3>3
  <2>3. pending \in S OBVIOUS
  <2> HIDE DEF a, b, n, S
  <2>4. Stages = a \o b \o <<pending>> BY DEF Stages, a, b
  <2> DEFINE k == 3
  <2>5. k \in Nat /\ k = 3 OBVIOUS
  <2>6. Len(a) = k BY <2>1
  <2> HIDE DEF k
  <2>7. IsBetween(Stages, a, k, b, pending)
    <3>1. a \in Seq(S) /\ b \in Seq(S) /\ k \in Nat /\ pending \in S BY <2>1, <2>2, <2>3, <2>5
    <3> QED BY <2>4, <2>6, <3>1, Between
  <2> QED BY <1>0, <2>1, <2>2, <2>5, <2>7 DEF IsBetween
<1> HIDE DEF n
<1>2. Tokens(Stages[3]) = Range(partial) /\ InOrder(Stages[3])
  BY <1>0, <1>1, OneText DEF TextInv, Places
<1>3. \A i \in 1..n + 4 : i \in {1, 2, 3, n + 4} \/ (i - 3 \in 1..n /\ (i - 3) + 3 = i)
  BY <1>0
<1>4. \A i \in 1..n + 4 :
         i \in {1, 2, 3, n + 4} \/ (i - 3 \in 1..n /\ Stages[i] = emitted[i - 3].lines)
  BY <1>1, <1>3
<1>5. \A i \in DOMAIN Stages : InOrder(Stages[i])
  BY <1>0, <1>1, <1>2, <1>4 DEF TextInv, Places, Queued, Buffers
<1>6. \A e \in 1..n : Tokens(emitted[e].lines) \subseteq OnWire BY <1>0 DEF Carried
<1>7. ASSUME NEW i \in 1..n + 4, NEW j \in 1..n + 4, i < j
      PROVE  Before(Tokens(Stages[i]), Tokens(Stages[j]))
  <2>1. Chain(Tokens(Stages[1]), Tokens(Stages[2]), Tokens(Stages[3]), OnWire,
              Tokens(Stages[n + 4]))
    BY <1>0, <1>1, <1>2 DEF TextInv, InPlaceOrder, Raw
  <2>2. CASE i \in {1, 2, 3} /\ j \in {1, 2, 3, n + 4} BY <1>0, <1>7, <2>1, <2>2 DEF Chain
  <2>3. CASE i \in {1, 2, 3} /\ j \notin {1, 2, 3, n + 4}
    <3>1. Tokens(Stages[j]) \subseteq OnWire BY <1>4, <1>6, <2>3
    <3>2. Before(Tokens(Stages[i]), OnWire) BY <2>1, <2>3 DEF Chain
    <3> QED BY <3>1, <3>2 DEF Before
  <2>4. CASE i \notin {1, 2, 3, n + 4} /\ j = n + 4
    <3>1. Tokens(Stages[i]) \subseteq OnWire BY <1>4, <1>6, <2>4
    <3>2. Before(OnWire, Tokens(Stages[j])) BY <2>1, <2>4 DEF Chain
    <3> QED BY <3>1, <3>2 DEF Before
  <2>5. CASE i \notin {1, 2, 3, n + 4} /\ j \notin {1, 2, 3, n + 4}
    <3>1. i - 3 \in 1..n /\ j - 3 \in 1..n /\ i - 3 < j - 3 BY <1>0, <1>3, <1>7, <2>5
    <3> QED BY <1>0, <1>4, <2>5, <3>1 DEF TextInv, Places, Queued
  <2>6. i # n + 4 /\ (j \in {1, 2, 3} => i \in {1, 2, 3}) BY <1>0, <1>7
  <2> QED BY <2>2, <2>3, <2>4, <2>5, <2>6
<1>8. OnTheWay = Held
  <2>1. Held \subseteq OnTheWay
    <3>1. \A i \in 1..n + 4 : Tokens(Stages[i]) \subseteq OnTheWay BY <1>1 DEF OnTheWay
    <3>2. \A e \in 1..n : e + 3 \in 1..n + 4 BY <1>0
    <3>3. \A e \in 1..n : Tokens(emitted[e].lines) \subseteq OnTheWay BY <1>1, <3>1, <3>2
    <3>4. OnWire \subseteq OnTheWay BY <1>0, <3>3 DEF Carried
    <3>5. {1, 2, 3, n + 4} \subseteq 1..n + 4 BY <1>0
    <3> QED BY <1>0, <1>1, <1>2, <3>1, <3>4, <3>5 DEF Held, Raw
  <2>2. OnTheWay \subseteq Held
    <3> SUFFICES ASSUME NEW i \in 1..n + 4 PROVE Tokens(Stages[i]) \subseteq Held
      BY <1>1 DEF OnTheWay
    <3>1. CASE i \in {1, 2, 3, n + 4} BY <1>0, <1>1, <1>2, <3>1 DEF Held, Raw
    <3>2. CASE i \notin {1, 2, 3, n + 4} BY <1>4, <1>6, <3>2 DEF Held
    <3> QED BY <3>1, <3>2
  <2> QED BY <2>1, <2>2
<1> QED BY <1>1, <1>5, <1>7, <1>8 DEF TextKeptInOrder, TextInv, NewestHeld
-----------------------------------------------------------------------------
\* The wire: an event is emitted, and the first one is heard.
LEMMA Emits ==
    ASSUME NEW w, Queued(w), NEW ev \in Events, Formed(ev),
           InOrder(ev.lines), Before(Carried(w), Tokens(ev.lines))
    PROVE  Queued(w \o <<ev>>) /\ Carried(w \o <<ev>>) = Carried(w) \union Tokens(ev.lines)
<1> DEFINE c == w \o <<ev>>
           n == Len(w)
<1>1. w \in Seq(Events) BY DEF Queued
<1>2. /\ c \in Seq(Events) /\ n \in Nat /\ DOMAIN w = 1..n /\ DOMAIN c = 1..(n + 1)
      /\ c[n + 1] = ev
      /\ \A e \in 1..n : c[e] = w[e]
  BY <1>1
<1> HIDE DEF c, n
<1>3. \A e \in 1..(n + 1) : e = n + 1 \/ e \in 1..n BY <1>2
<1>4. \A e \in 1..n : e \in 1..(n + 1) /\ Tokens(w[e].lines) \subseteq Carried(w)
  BY <1>2 DEF Carried
<1>5. \A e \in 1..(n + 1) : Formed(c[e])
  BY <1>2, <1>3 DEF Queued
<1>6. \A e \in 1..(n + 1) : InOrder(c[e].lines) BY <1>2, <1>3 DEF Queued
<1>7. ASSUME NEW e \in 1..(n + 1), NEW f \in 1..(n + 1), e < f
      PROVE  Before(Tokens(c[e].lines), Tokens(c[f].lines))
  <2>1. e \in 1..n BY <1>2, <1>7
  <2>2. CASE f \in 1..n BY <1>2, <1>7, <2>1, <2>2 DEF Queued
  <2>3. CASE f = n + 1
    <3>1. Tokens(c[e].lines) \subseteq Carried(w) BY <1>2, <1>4, <2>1
    <3> QED BY <1>2, <2>3, <3>1 DEF Before
  <2> QED BY <1>3, <2>2, <2>3
<1>8. Queued(c) BY <1>2, <1>5, <1>6, <1>7 DEF Queued
<1>9. Carried(c) = Carried(w) \union Tokens(ev.lines)
  <2>1. n + 1 \in 1..(n + 1) BY <1>2
  <2>2. Tokens(ev.lines) \subseteq Carried(c) BY <1>2, <2>1 DEF Carried
  <2>3. \A e \in 1..n : Tokens(w[e].lines) \subseteq Carried(c) BY <1>2, <1>4 DEF Carried
  <2>4. Carried(w) \subseteq Carried(c) BY <1>2, <2>3 DEF Carried
  <2>5. \A e \in 1..(n + 1) : Tokens(c[e].lines) \subseteq Carried(w) \union Tokens(ev.lines)
    BY <1>2, <1>3, <1>4
  <2>6. Carried(c) \subseteq Carried(w) \union Tokens(ev.lines) BY <1>2, <2>5 DEF Carried
  <2> QED BY <2>2, <2>4, <2>6
<1> QED BY <1>8, <1>9 DEF c

LEMMA EmitsBatch ==
    ASSUME NEW w, Queued(w), NEW texts \in Seq(Seq(Nat)), InOrder(texts),
           Before(Carried(w), Tokens(texts))
    PROVE  Queued(w \o Batch(texts)) /\ Carried(w \o Batch(texts)) = Carried(w) \union Tokens(texts)
<1>1. CASE texts = <<>>
  <2>1. w \o <<>> = w
    <3>1. w \in Seq(Events) BY DEF Queued
    <3> QED BY <3>1
  <2> QED BY <1>1, <2>1, NoTexts DEF Batch
<1>2. CASE texts # <<>>
  <2> DEFINE ev == [name |-> "batch", lines |-> texts]
  <2>1. ev \in Events /\ ev.name = "batch" /\ ev.lines = texts BY DEF Events
  <2>2. Batch(texts) = <<ev>> BY <1>2 DEF Batch
  <2>3. Formed(ev) BY <1>2, <2>1 DEF Formed
  <2> HIDE DEF ev
  <2> QED BY <1>2, <2>1, <2>2, <2>3, Emits
<1> QED BY <1>1, <1>2

LEMMA EmitsPart ==
    ASSUME NEW w, Queued(w), NEW text \in Seq(Nat), Rising(text), Before(Carried(w), Range(text))
    PROVE  Queued(w \o Part(text)) /\ Carried(w \o Part(text)) = Carried(w) \union Range(text)
<1> DEFINE ev == [name |-> "part", lines |-> <<text>>]
<1>1. ev \in Events /\ ev.name = "part" /\ ev.lines = <<text>> BY OneText DEF Events
<1>2. Part(text) = <<ev>> /\ Formed(ev) BY DEF Part, Formed
<1> HIDE DEF ev
<1>3. Tokens(ev.lines) = Range(text) /\ InOrder(ev.lines) BY <1>1, OneText
<1> QED BY <1>1, <1>2, <1>3, Emits

LEMMA EmitsEnd ==
    ASSUME NEW w, Queued(w) PROVE Queued(w \o End) /\ Carried(w \o End) = Carried(w)
<1> DEFINE ev == [name |-> "end", lines |-> <<>>]
<1>1. ev \in Events /\ ev.name = "end" /\ ev.lines = <<>> BY NoTexts DEF Events
<1>2. End = <<ev>> /\ Formed(ev) BY DEF End, Formed
<1> HIDE DEF ev
<1>3. Before(Carried(w), {}) BY DEF Before
<1> QED BY <1>1, <1>2, <1>3, NoTexts, Emits

LEMMA Heard ==
    ASSUME NEW w, Queued(w), w # <<>>
    PROVE  /\ Head(w) \in Events /\ InOrder(Head(w).lines)
           /\ Formed(Head(w))
           /\ Queued(Tail(w))
           /\ Carried(w) = Tokens(Head(w).lines) \union Carried(Tail(w))
           /\ Before(Tokens(Head(w).lines), Carried(Tail(w)))
<1> DEFINE c == Tail(w)
           n == Len(w) - 1
           h == Head(w)
<1>1. w \in Seq(Events) BY DEF Queued
<1>2. /\ n \in Nat /\ DOMAIN w = 1..(n + 1) /\ h = w[1] /\ h \in Events /\ c \in Seq(Events)
      /\ DOMAIN c = 1..n
      /\ \A e \in 1..n : c[e] = w[e + 1]
  BY <1>1
<1> HIDE DEF c, n, h
<1>3. \A e \in 1..n : e + 1 \in 1..(n + 1) /\ 1 < e + 1 BY <1>2
<1>4. 1 \in 1..(n + 1) BY <1>2
<1>5. InOrder(h.lines) /\ Formed(h) BY <1>2, <1>4 DEF Queued
<1>6. Queued(c)
  <2>1. \A e \in 1..n : InOrder(c[e].lines) /\ Formed(c[e])
    BY <1>2, <1>3 DEF Queued
  <2>2. ASSUME NEW e \in 1..n, NEW f \in 1..n, e < f
        PROVE  Before(Tokens(c[e].lines), Tokens(c[f].lines))
    <3>1. e + 1 < f + 1 BY <2>2
    <3> QED BY <1>2, <1>3, <3>1 DEF Queued
  <2> QED BY <1>2, <2>1, <2>2 DEF Queued
<1>7. \A e \in 1..n : Before(Tokens(h.lines), Tokens(c[e].lines)) BY <1>2, <1>3, <1>4 DEF Queued
<1>8. Before(Tokens(h.lines), Carried(c)) BY <1>2, <1>7 DEF Before, Carried
<1>9. Carried(w) = Tokens(h.lines) \union Carried(c)
  <2>1. \A e \in 1..(n + 1) : Tokens(w[e].lines) \subseteq Carried(w) BY <1>2 DEF Carried
  <2>2. \A e \in 1..n : Tokens(c[e].lines) \subseteq Carried(w) BY <1>2, <1>3, <2>1
  <2>3. Carried(c) \subseteq Carried(w) BY <1>2, <2>2 DEF Carried
  <2>4. Tokens(h.lines) \subseteq Carried(w) BY <1>2, <1>4, <2>1
  <2>5. \A e \in 1..n : Tokens(c[e].lines) \subseteq Carried(c) BY <1>2 DEF Carried
  <2>6. ASSUME NEW e \in 1..(n + 1)
        PROVE  Tokens(w[e].lines) \subseteq Tokens(h.lines) \union Carried(c)
    <3>1. CASE e # 1
      <4>1. e - 1 \in 1..n /\ (e - 1) + 1 = e BY <1>2, <3>1
      <4>2. c[e - 1] = w[e] BY <1>2, <4>1
      <4> QED BY <2>5, <4>1, <4>2
    <3> QED BY <1>2, <3>1
  <2>7. Carried(w) \subseteq Tokens(h.lines) \union Carried(c) BY <1>2, <2>6 DEF Carried
  <2> QED BY <2>3, <2>4, <2>7
<1> QED BY <1>2, <1>5, <1>6, <1>8, <1>9 DEF c, h
-----------------------------------------------------------------------------
\* The buffer.  S is the end of T.
IsEnd(S, T) == S \subseteq T /\ \A x \in S, y \in T : x < y => y \in S

LEMMA RawTexts ==
    ASSUME NEW r \in Seq(BufferLines)
    PROVE  TextsOf(r) \in Seq(Seq(Nat)) /\ Len(TextsOf(r)) = Len(r) /\ DOMAIN TextsOf(r) = 1..Len(r)
<1>1. DOMAIN r = 1..Len(r) /\ \A i \in 1..Len(r) : r[i] \in BufferLines OBVIOUS
<1>2. \A i \in 1..Len(r) : r[i].text \in Seq(Nat) BY <1>1 DEF BufferLines
<1>3. TextsOf(r) = [i \in 1..Len(r) |-> r[i].text] BY <1>1 DEF TextsOf
<1> QED BY <1>2, <1>3

LEMMA JoinedRaw ==
    ASSUME NEW r \in Seq(BufferLines), NEW l \in Seq(BufferLines)
    PROVE  TextsOf(r \o l) = TextsOf(r) \o TextsOf(l)
<1> DEFINE rl == r \o l
           t  == TextsOf(rl)
           u  == TextsOf(r)
           v  == TextsOf(l)
           uv == u \o v
<1>1. rl \in Seq(BufferLines) /\ Len(rl) = Len(r) + Len(l) OBVIOUS
<1>2. \A i \in 1..Len(rl) : rl[i] = IF i <= Len(r) THEN r[i] ELSE l[i - Len(r)] OBVIOUS
<1>3. /\ t \in Seq(Seq(Nat)) /\ Len(t) = Len(rl)
      /\ u \in Seq(Seq(Nat)) /\ Len(u) = Len(r)
      /\ v \in Seq(Seq(Nat)) /\ Len(v) = Len(l)
  BY <1>1, RawTexts
<1>4. /\ \A i \in 1..Len(rl) : t[i] = rl[i].text
      /\ \A i \in 1..Len(r) : u[i] = r[i].text
      /\ \A i \in 1..Len(l) : v[i] = l[i].text
  BY <1>1 DEF TextsOf
<1> HIDE DEF rl, t, u, v
<1>5. uv \in Seq(Seq(Nat)) /\ Len(uv) = Len(u) + Len(v)
  <2>1. u \in Seq(Seq(Nat)) /\ v \in Seq(Seq(Nat)) BY <1>3
  <2> QED BY <2>1
<1>6. \A i \in 1..(Len(u) + Len(v)) : uv[i] = IF i <= Len(u) THEN u[i] ELSE v[i - Len(u)] BY <1>3
<1> HIDE DEF uv
<1>7. ASSUME NEW i \in 1..Len(t) PROVE t[i] = uv[i]
  <2>1. i \in 1..Len(rl) /\ i \in 1..(Len(u) + Len(v)) BY <1>1, <1>3
  <2>2. CASE i <= Len(r)
    <3>1. i \in 1..Len(r) BY <2>1, <2>2
    <3>2. rl[i] = r[i] BY <1>2, <2>1, <2>2
    <3>3. uv[i] = u[i] BY <1>3, <1>6, <2>1, <2>2
    <3> QED BY <1>4, <2>1, <3>1, <3>2, <3>3
  <2>3. CASE ~(i <= Len(r))
    <3>1. i - Len(r) \in 1..Len(l) BY <1>1, <2>1, <2>3
    <3>2. rl[i] = l[i - Len(r)] BY <1>2, <2>1, <2>3
    <3>3. uv[i] = v[i - Len(r)] BY <1>3, <1>6, <2>1, <2>3
    <3> QED BY <1>4, <2>1, <3>1, <3>2, <3>3
  <2> QED BY <2>2, <2>3
<1>8. t = uv BY <1>1, <1>3, <1>5, <1>7
<1> QED BY <1>8 DEF rl, t, u, v, uv

LEMMA LastRaw ==
    ASSUME NEW r \in Seq(BufferLines), NEW k \in 0..Len(r)
    PROVE  /\ SubSeq(r, k + 1, Len(r)) \in Seq(BufferLines)
           /\ Len(SubSeq(r, k + 1, Len(r))) = Len(r) - k
           /\ TextsOf(SubSeq(r, k + 1, Len(r))) = SubSeq(TextsOf(r), k + 1, Len(TextsOf(r)))
<1> DEFINE s == SubSeq(r, k + 1, Len(r))
           u == TextsOf(r)
           v == SubSeq(u, k + 1, Len(u))
           m == Len(r) - k
<1>1. /\ s \in Seq(BufferLines) /\ Len(s) = m /\ DOMAIN s = 1..m /\ m \in Nat
      /\ \A i \in 1..m : s[i] = r[i + k] /\ i + k \in 1..Len(r)
  OBVIOUS
<1>2. u \in Seq(Seq(Nat)) /\ Len(u) = Len(r) BY RawTexts
<1>3. \A i \in 1..Len(r) : u[i] = r[i].text BY DEF TextsOf
<1> HIDE DEF s, u
<1>4. v \in Seq(Seq(Nat)) /\ DOMAIN v = 1..m /\ \A i \in 1..m : v[i] = u[i + k] BY <1>2
<1>5. v = [i \in 1..m |-> v[i]]
  BY <1>4
<1> HIDE DEF v, m
<1>6. TextsOf(s) = [i \in 1..m |-> s[i].text] BY <1>1 DEF TextsOf
<1>7. \A i \in 1..m : v[i] = s[i].text BY <1>1, <1>3, <1>4
<1>8. TextsOf(s) = v BY <1>5, <1>6, <1>7
<1>9. Len(s) = Len(r) - k BY <1>1 DEF m
<1> QED BY <1>1, <1>8, <1>9 DEF s, u, v

\* Lines are applied: eviction drops the oldest text, when the buffer is full.
LEMMA Applied ==
    ASSUME NEW b, Buffers(b), NEW texts \in Seq(Seq(Nat)), InOrder(texts),
           Before(Tokens(TextsOf(b.raw)), Tokens(texts))
    PROVE  LET c   == Apply(b, texts)
               new == Tokens(TextsOf(c.raw))
               all == Tokens(TextsOf(b.raw)) \union Tokens(texts) IN
           /\ Buffers(c)
           /\ IsEnd(new, all)
           /\ c.next <= BufferSize => b.next <= BufferSize /\ all \subseteq new
<1> DEFINE lines == [i \in DOMAIN texts |-> [seq |-> b.next + i - 1, text |-> texts[i]]]
           raw   == b.raw \o lines
           view  == b.view \o Shown(lines)
           hits  == b.matches \o Hits(Shown(lines))
           next  == b.next + Len(texts)
           d     == [raw |-> raw, view |-> view, matches |-> hits, next |-> next]
           c     == Apply(b, texts)
           new   == Tokens(TextsOf(c.raw))
           all   == Tokens(TextsOf(b.raw)) \union Tokens(texts)
<1>1. c = Evict(raw, view, hits, next) BY DEF Apply
<1>2. /\ b.raw \in Seq(BufferLines) /\ b.next \in Nat /\ Len(b.raw) <= b.next
      /\ InOrder(TextsOf(b.raw))
  BY DEF Buffers
<1>3. DOMAIN texts = 1..Len(texts) /\ Len(texts) \in Nat OBVIOUS
<1>4. lines \in Seq(BufferLines) /\ Len(lines) = Len(texts) /\ TextsOf(lines) = texts
  <2>1. lines = [i \in 1..Len(texts) |-> [seq |-> b.next + i - 1, text |-> texts[i]]] BY <1>3
  <2>2. ASSUME NEW i \in 1..Len(texts)
        PROVE  [seq |-> b.next + i - 1, text |-> texts[i]] \in BufferLines
    <3>1. b.next + i - 1 \in Nat BY <1>2, <1>3
    <3>2. texts[i] \in Seq(Nat) BY <1>3
    <3> QED BY <3>1, <3>2 DEF BufferLines
  <2>3. lines \in Seq(BufferLines) /\ Len(lines) = Len(texts) BY <1>3, <2>1, <2>2
  <2>4. TextsOf(lines) = [i \in 1..Len(texts) |-> texts[i]] BY <2>1 DEF TextsOf
  <2>5. texts = [i \in 1..Len(texts) |-> texts[i]] BY <1>3
  <2> QED BY <2>3, <2>4, <2>5
<1>5. /\ d.raw = raw /\ d.next = b.next + Len(texts)
      /\ d = [raw |-> d.raw, view |-> d.view, matches |-> d.matches, next |-> d.next]
  OBVIOUS
<1> HIDE DEF lines, view, hits, d
<1>6. raw \in Seq(BufferLines) /\ Len(raw) = Len(b.raw) + Len(texts)
  <2>1. b.raw \in Seq(BufferLines) /\ lines \in Seq(BufferLines) BY <1>2, <1>4
  <2>2. raw \in Seq(BufferLines) /\ Len(raw) = Len(b.raw) + Len(lines) BY <2>1
  <2> QED BY <1>4, <2>2
<1>7. TextsOf(raw) = TextsOf(b.raw) \o texts BY <1>2, <1>4, JoinedRaw
<1> HIDE DEF raw
<1>8. TextsOf(raw) \in Seq(Seq(Nat)) /\ Tokens(TextsOf(raw)) = all /\ InOrder(TextsOf(raw))
  BY <1>2, <1>7, RawTexts, JoinedTexts
<1>9. Len(raw) <= d.next /\ b.next <= d.next /\ d.next \in Nat /\ Len(raw) \in Nat
  BY <1>2, <1>3, <1>5, <1>6
<1>10. BufferSize \in Nat /\ BufferSize > 0 BY LogViewAssumption
<1>11. CASE ~Full(raw)
  <2>1. c = d BY <1>1, <1>11 DEF Evict, d
  <2>2. new = all BY <1>5, <1>8, <2>1
  <2>3. Buffers(c)
    <3>1. Len(raw) <= BufferSize BY <1>9, <1>10, <1>11 DEF Full
    <3> QED BY <1>5, <1>6, <1>8, <1>9, <2>1, <3>1 DEF Buffers
  <2>4. c.next <= BufferSize => b.next <= BufferSize BY <1>2, <1>9, <1>10, <2>1
  <2> QED BY <2>2, <2>3, <2>4 DEF IsEnd
<1>12. CASE Full(raw)
  <2> DEFINE k    == Len(raw) - BufferSize
             last == SubSeq(raw, k + 1, Len(raw))
  <2>1. k \in 0..Len(raw) /\ k > 0 BY <1>9, <1>10, <1>12 DEF Full
  <2>2. c.raw = last /\ c.next = d.next
        /\ c = [raw |-> c.raw, view |-> c.view, matches |-> c.matches, next |-> c.next]
    <3> DEFINE first   == raw[k + 1].seq
               newView == KeptFrom(first, view, [i \in DOMAIN view |-> view[i].seq])
               newHits == KeptFrom(first, hits, hits)
    <3>1. c = [raw |-> last, view |-> newView, matches |-> newHits, next |-> next]
      BY <1>1, <1>12 DEF Evict
    <3> HIDE DEF newView, newHits, last
    <3> QED BY <1>5, <3>1
  <2> HIDE DEF c
  <2>3. last \in Seq(BufferLines) /\ Len(last) = Len(raw) - k
    BY <1>6, <2>1, LastRaw
  <2>4. TextsOf(last) = SubSeq(TextsOf(raw), k + 1, Len(TextsOf(raw))) BY <1>6, <2>1, LastRaw
  <2>5. k \in 0..Len(TextsOf(raw)) BY <1>6, <2>1, RawTexts
  <2> HIDE DEF k, last
  <2>6. /\ InOrder(TextsOf(last)) /\ IsEnd(Tokens(TextsOf(last)), Tokens(TextsOf(raw)))
    BY <1>8, <2>4, <2>5, LastTexts DEF IsEnd
  <2>7. Buffers(c)
    <3>1. Len(last) <= c.next /\ Len(last) <= BufferSize BY <1>9, <1>10, <2>1, <2>2, <2>3 DEF k
    <3> QED BY <1>9, <2>2, <2>3, <2>6, <3>1 DEF Buffers
  <2>8. ~(c.next <= BufferSize) BY <1>9, <1>10, <1>12, <2>2 DEF Full
  <2>9. new = Tokens(TextsOf(last)) /\ all = Tokens(TextsOf(raw)) BY <1>8, <2>2
  <2>10. IsEnd(new, all) BY <2>6, <2>9
  <2> QED BY <2>7, <2>8, <2>10 DEF c
<1> QED BY <1>11, <1>12
-----------------------------------------------------------------------------
\* The viewer takes the tokens of T in; what it drops is the oldest it holds.
Gathered == Raw \union Tokens(late)

Takes(T) ==
    /\ Buffers(buf')
    /\ late' \in Seq(Seq(Nat)) /\ InOrder(late') /\ Before(Raw', Tokens(late'))
    /\ IsEnd(Gathered', Gathered \union T)
    /\ buf'.next <= BufferSize => buf.next <= BufferSize /\ Gathered \union T \subseteq Gathered'

LEMMA TakesNothing ==
    ASSUME TextInv, Buffers(buf'), buf'.raw = buf.raw, buf'.next = buf.next, late' = late
    PROVE  Takes({})
<1>1. Raw' = Raw /\ Gathered' = Gathered BY DEF Raw, Gathered
<1>2. late \in Seq(Seq(Nat)) /\ InOrder(late) /\ Before(Raw, Tokens(late))
  BY DEF TextInv, Places, InPlaceOrder, Chain
<1> QED BY <1>1, <1>2 DEF Takes, IsEnd

LEMMA TakesPushed ==
    ASSUME TextInv, NEW texts \in Seq(Seq(Nat)), InOrder(texts), Before(Gathered, Tokens(texts)),
           Push(texts)
    PROVE  Takes(Tokens(texts)) /\ (~rebuild.on => late' = <<>>)
<1>1. /\ late \in Seq(Seq(Nat)) /\ InOrder(late) /\ Before(Raw, Tokens(late)) /\ Buffers(buf)
      /\ ~rebuild.on => late = <<>>
  BY DEF TextInv, Places, InPlaceOrder, Chain
<1>2. CASE rebuild.on
  <2>1. late' = late \o texts /\ buf' = buf BY <1>2 DEF Push
  <2>2. Raw' = Raw BY <2>1 DEF Raw
  <2>3. Before(Tokens(late), Tokens(texts)) /\ Before(Raw, Tokens(texts)) BY DEF Before, Gathered
  <2>4. /\ late' \in Seq(Seq(Nat)) /\ Tokens(late') = Tokens(late) \union Tokens(texts)
        /\ InOrder(late')
    BY <1>1, <2>1, <2>3, JoinedTexts
  <2>5. Before(Raw', Tokens(late')) BY <1>1, <2>2, <2>3, <2>4 DEF Before
  <2>6. Gathered' = Gathered \union Tokens(texts) BY <2>2, <2>4 DEF Gathered
  <2> QED BY <1>1, <1>2, <2>1, <2>4, <2>5, <2>6 DEF Takes, IsEnd
<1>3. CASE ~rebuild.on
  <2>1. late = <<>> /\ late' = <<>> /\ buf' = Apply(buf, texts) BY <1>1, <1>3 DEF Push
  <2>2. Tokens(late) = {} /\ Tokens(late') = {} /\ late' \in Seq(Seq(Nat)) /\ InOrder(late')
    BY <2>1, NoTexts
  <2>3. Gathered = Raw /\ Gathered' = Raw' BY <2>2 DEF Gathered
  <2>4. Before(Raw, Tokens(texts)) BY <2>3
  <2>5. /\ Buffers(buf')
        /\ IsEnd(Raw', Raw \union Tokens(texts))
        /\ buf'.next <= BufferSize =>
              buf.next <= BufferSize /\ Raw \union Tokens(texts) \subseteq Raw'
    BY <1>1, <2>1, <2>4, Applied DEF Raw
  <2>6. Before(Raw', Tokens(late')) BY <2>2 DEF Before
  <2> QED BY <2>1, <2>2, <2>3, <2>5, <2>6 DEF Takes
<1> QED BY <1>2, <1>3

LEMMA TakesLate ==
    ASSUME TextInv, NEW b, Buffers(b), b.raw = buf.raw, b.next = buf.next, ShowLate(b)
    PROVE  Takes({}) /\ late' = <<>>
<1>1. late' = <<>> /\ buf' = Apply(b, late) BY DEF ShowLate
<1>2. late \in Seq(Seq(Nat)) /\ InOrder(late) /\ Before(Tokens(TextsOf(b.raw)), Tokens(late))
  BY DEF TextInv, Places, InPlaceOrder, Chain, Raw
<1>3. Tokens(late') = {} /\ late' \in Seq(Seq(Nat)) /\ InOrder(late') BY <1>1, NoTexts
<1>4. /\ Buffers(buf')
      /\ IsEnd(Raw', Gathered)
      /\ buf'.next <= BufferSize => buf.next <= BufferSize /\ Gathered \subseteq Raw'
  BY <1>1, <1>2, Applied DEF Raw, Gathered
<1>5. Gathered' = Raw' BY <1>3 DEF Gathered
<1>6. Before(Raw', Tokens(late')) BY <1>3 DEF Before
<1> QED BY <1>1, <1>3, <1>4, <1>5, <1>6 DEF Takes

\* The viewer moves on: of what was in the partial line and on the wire, T goes
\* to the buffer and the lines that wait, the rest stays, in its order.
LEMMA ViewerSteps ==
    ASSUME TextInv, NEW T, Takes(T), Queued(emitted'),
           partial' \in Seq(Nat), Rising(partial'), Len(partial') <= MaxPartial,
           T \union Range(partial') \union Carried(emitted')
              = Range(partial) \union Carried(emitted),
           Before(T, Range(partial')), Before(T, Carried(emitted')),
           Before(Range(partial'), Carried(emitted')),
           rebuild' = [on |-> rebuild'.on, pos |-> rebuild'.pos, rows |-> rebuild'.rows,
                       committed |-> rebuild'.committed],
           ~rebuild'.on => late' = <<>>,
           UNCHANGED <<log, pending, due>>
    PROVE  TextInv'
<1> DEFINE C  == Range(partial)
           D  == Carried(emitted)
           E  == Tokens(pending)
           C1 == Range(partial')
           D1 == Carried(emitted')
<1>1. /\ Before(Gathered, C) /\ Before(Gathered, D) /\ Before(Gathered, E)
      /\ Before(C, E) /\ Before(D, E)
  BY DEF TextInv, InPlaceOrder, Chain, Gathered, Before
<1>2. E' = E /\ C' = C1 /\ D' = D1 /\ due' = due OBVIOUS
<1>3. /\ Before(Gathered', C1) /\ Before(Gathered', D1) /\ Before(Gathered', E)
      /\ Before(C1, E) /\ Before(D1, E)
  <2>1. Gathered' \subseteq Gathered \union C \union D BY DEF Takes, IsEnd
  <2>2. C1 \subseteq C \union D /\ D1 \subseteq C \union D /\ T \subseteq C \union D OBVIOUS
  <2>3. Gathered' \subseteq Gathered \union T BY DEF Takes, IsEnd
  <2>4. Before(Gathered', C1) BY <1>1, <2>2, <2>3 DEF Before
  <2>5. Before(Gathered', D1) BY <1>1, <2>2, <2>3 DEF Before
  <2>6. Before(Gathered', E) BY <1>1, <2>1 DEF Before
  <2>7. Before(C1, E) /\ Before(D1, E) BY <1>1, <2>2 DEF Before
  <2> QED BY <2>4, <2>5, <2>6, <2>7
<1>4. InPlaceOrder'
  <2>1. /\ Raw' \subseteq Gathered' /\ Tokens(late') \subseteq Gathered'
        /\ Before(Raw', Tokens(late'))
    BY DEF Gathered, Takes
  <2>2. /\ Before(Raw', C1) /\ Before(Raw', D1) /\ Before(Raw', E)
        /\ Before(Tokens(late'), C1) /\ Before(Tokens(late'), D1) /\ Before(Tokens(late'), E)
    BY <1>3, <2>1 DEF Before
  <2>3. Before(C1, D1) OBVIOUS
  <2> QED BY <1>2, <1>3, <2>1, <2>2, <2>3 DEF InPlaceOrder, Chain
<1>5. NewestHeld'
  <2> DEFINE rest == C1 \union D1 \union E
             mine == Gathered \union T
  <2>1. Held = mine \union rest /\ Held' = Gathered' \union rest BY <1>2 DEF Held, Gathered
  <2>2. Held \subseteq due /\ \A x \in Held, y \in due : x < y => y \in Held
    BY DEF TextInv, NewestHeld
  <2>3. Gathered' \subseteq mine /\ \A x \in Gathered', y \in mine : x < y => y \in Gathered'
    BY DEF Takes, IsEnd
  <2>4. Before(mine, rest)
    <3>1. C1 \subseteq C \union D /\ D1 \subseteq C \union D /\ T \subseteq C \union D OBVIOUS
    <3> QED BY <1>1, <3>1 DEF Before
  <2>5. due \subseteq Nat /\ mine \subseteq Nat /\ rest \subseteq Nat
    <3>1. due \subseteq Nat BY DEF TextInv, Places
    <3> QED BY <2>1, <2>2, <3>1
  <2>6. buf'.next <= BufferSize => due \subseteq mine \union rest /\ mine \subseteq Gathered'
    BY <2>1 DEF TextInv, NewestHeld, Takes
  <2> HIDE DEF mine, rest
  <2>7. ASSUME NEW x \in Gathered' \union rest, NEW y \in due, x < y
        PROVE  y \in Gathered' \union rest
    <3>1. y \in mine \union rest BY <2>1, <2>2, <2>3, <2>7
    <3>2. CASE x \in rest /\ y \in mine
      <4>1. y < x BY <2>4, <3>2 DEF Before
      <4>2. x \in Nat /\ y \in Nat BY <2>5, <3>2
      <4> QED BY <2>7, <4>1, <4>2
    <3>3. CASE x \in Gathered' /\ y \in mine BY <2>3, <2>7, <3>3
    <3> QED BY <2>7, <3>1, <3>2, <3>3
  <2>8. Gathered' \union rest \subseteq due BY <2>1, <2>2, <2>3
  <2> QED BY <1>2, <2>1, <2>6, <2>7, <2>8 DEF NewestHeld
<1>6. Places'
  <2>1. Buffers(buf') /\ late' \in Seq(Seq(Nat)) /\ InOrder(late') BY DEF Takes
  <2> QED BY <2>1 DEF TextInv, Places
<1> QED BY <1>4, <1>5, <1>6 DEF TextInv

\* The pump moves on: new tokens follow all there are, nothing else changes.
LEMMA PumpSteps ==
    ASSUME TextInv, NEW N, N \subseteq {Len(log) + 1}, due' = due \union N,
           log' \in Seq([kind : Kinds \union {Blank}, partial : BOOLEAN]),
           Len(log') >= Len(log), N # {} => Len(log') > Len(log),
           Queued(emitted'), pending' \in Seq(Seq(Nat)), InOrder(pending'), Len(pending') < BatchSize,
           Before(Carried(emitted'), Tokens(pending')),
           Carried(emitted') \union Tokens(pending')
              = Carried(emitted) \union Tokens(pending) \union N,
           UNCHANGED <<partial, buf, late, rebuild>>
    PROVE  TextInv'
<1> DEFINE C   == Range(partial)
           old == Carried(emitted) \union Tokens(pending)
           D1  == Carried(emitted')
           E1  == Tokens(pending')
<1>1. Len(log) \in Nat /\ due \subseteq 1..Len(log) /\ Len(log') \in Nat BY DEF TextInv, Places
<1>2. Raw' = Raw /\ Tokens(late)' = Tokens(late) /\ C' = C BY DEF Raw
<1>3. Held = Gathered \union C \union old /\ Held' = Held \union N BY <1>2 DEF Held, Gathered
<1>4. Held \subseteq due /\ \A x \in Held, y \in due : x < y => y \in Held
    BY DEF TextInv, NewestHeld
<1>5. \A x \in Held, y \in N : x < y BY <1>1, <1>4
<1>6. InPlaceOrder'
  <2>1. Before(Raw, old) /\ Before(Tokens(late), old) /\ Before(C, old)
    BY DEF TextInv, InPlaceOrder, Chain, Before
  <2>2. Before(Raw, N) /\ Before(Tokens(late), N) /\ Before(C, N) BY <1>3, <1>5 DEF Before, Gathered
  <2>3. D1 \subseteq old \union N /\ E1 \subseteq old \union N OBVIOUS
  <2>4. /\ Before(Raw, D1) /\ Before(Raw, E1) /\ Before(Tokens(late), D1)
        /\ Before(Tokens(late), E1) /\ Before(C, D1) /\ Before(C, E1)
    BY <2>1, <2>2, <2>3 DEF Before
  <2>5. Before(Raw, Tokens(late)) /\ Before(Raw, C) /\ Before(Tokens(late), C)
    BY DEF TextInv, InPlaceOrder, Chain
  <2> QED BY <1>2, <2>4, <2>5 DEF InPlaceOrder, Chain
<1>7. NewestHeld'
  <2>1. ASSUME NEW x \in Held \union N, NEW y \in due \union N, x < y PROVE y \in Held \union N
    <3>1. CASE x \in N /\ y \in due
      <4>1. x = Len(log) + 1 /\ y \in 1..Len(log) BY <1>1, <3>1
      <4> QED BY <1>1, <2>1, <4>1
    <3>2. CASE x \in Held /\ y \in due BY <1>4, <2>1, <3>2
    <3> QED BY <2>1, <3>1, <3>2
  <2>2. Held \union N \subseteq due \union N BY <1>4
  <2>3. buf.next <= BufferSize => due \union N \subseteq Held \union N BY DEF TextInv, NewestHeld
  <2> QED BY <1>3, <2>1, <2>2, <2>3 DEF NewestHeld
<1>8. Places'
  <2>1. due \union N \subseteq 1..Len(log')
    <3>1. \A x \in 1..Len(log) : x \in 1..Len(log') BY <1>1
    <3>2. \A x \in N : x = Len(log) + 1 /\ x \in 1..Len(log') BY <1>1
    <3> QED BY <1>1, <3>1, <3>2
  <2> QED BY <2>1 DEF TextInv, Places
<1> QED BY <1>6, <1>7, <1>8 DEF TextInv
-----------------------------------------------------------------------------
\* One lemma per part of the program.
LEMMA PumpKeepsText ==
    ASSUME TextInv,
           \/ \E kind \in Kinds \union {Blank} : TakeLine(kind)
           \/ \E kind \in Kinds : TakePiece(kind)
           \/ Tick
           \/ ScanEnds
    PROVE  TextInv'
<1>1. /\ Queued(emitted) /\ pending \in Seq(Seq(Nat)) /\ InOrder(pending)
      /\ Before(Carried(emitted), Tokens(pending))
      /\ log \in Seq([kind : Kinds \union {Blank}, partial : BOOLEAN])
      /\ Len(log) \in Nat /\ Len(pending) < BatchSize
  BY DEF TextInv, Places, InPlaceOrder, Chain
<1>2. Carried(emitted) \subseteq 1..Len(log) /\ Tokens(pending) \subseteq 1..Len(log)
  BY DEF TextInv, Places, NewestHeld, Held
<1>3. /\ Queued(emitted \o Batch(pending))
      /\ Carried(emitted \o Batch(pending)) = Carried(emitted) \union Tokens(pending)
  BY <1>1, EmitsBatch
<1>4. /\ <<>> \in Seq(Seq(Nat)) /\ InOrder(<<>>) /\ Tokens(<<>>) = {} /\ Len(<<>>) < BatchSize
      /\ \A S : Before(S, {})
  BY NoTexts, LogViewAssumption DEF Before
<1>5. ASSUME NEW kind \in Kinds \union {Blank}, NEW isPartial \in BOOLEAN, Read(kind, isPartial)
      PROVE  /\ Text(kind) \in Seq(Nat) /\ Rising(Text(kind))
             /\ Range(Text(kind)) \subseteq {Len(log) + 1}
             /\ due' = due \union Range(Text(kind))
             /\ log' \in Seq([kind : Kinds \union {Blank}, partial : BOOLEAN])
             /\ Len(log') = Len(log) + 1
             /\ UNCHANGED <<partial, buf, late, rebuild>>
  <2>1. Text(kind) = <<>> \/ Text(kind) = <<Len(log) + 1>> BY DEF Text
  <2>2. /\ Text(kind) \in Seq(Nat) /\ Rising(Text(kind)) /\ Range(Text(kind)) \subseteq {Len(log) + 1}
    <3>1. CASE Text(kind) = <<>> BY <3>1, NoTexts
    <3>2. CASE Text(kind) = <<Len(log) + 1>>
      <4> DEFINE x == Len(log) + 1
      <4>1. x \in Nat BY <1>1
      <4> HIDE DEF x
      <4>2. <<x>> \in Seq(Nat) /\ Rising(<<x>>) /\ Range(<<x>>) = {x} BY <4>1 DEF Rising, Range
      <4> QED BY <3>2, <4>2 DEF x
    <3> QED BY <2>1, <3>1, <3>2
  <2>3. /\ log' \in Seq([kind : Kinds \union {Blank}, partial : BOOLEAN])
        /\ Len(log') = Len(log) + 1
    <3>1. log' = Append(log, [kind |-> kind, partial |-> isPartial]) BY <1>5 DEF Read
    <3>2. [kind |-> kind, partial |-> isPartial] \in [kind : Kinds \union {Blank}, partial : BOOLEAN]
      OBVIOUS
    <3> QED BY <1>1, <3>1, <3>2
  <2> QED BY <1>5, <2>2, <2>3 DEF Read
<1>6. ASSUME NEW kind \in Kinds \union {Blank}, TakeLine(kind) PROVE TextInv'
  <2> DEFINE t     == Text(kind)
             lines == Append(pending, t)
  <2>1. Read(kind, FALSE) BY <1>6 DEF TakeLine
  <2>2. /\ t \in Seq(Nat) /\ Rising(t) /\ Range(t) \subseteq {Len(log) + 1}
        /\ due' = due \union Range(t)
        /\ log' \in Seq([kind : Kinds \union {Blank}, partial : BOOLEAN])
        /\ Len(log') = Len(log) + 1
        /\ UNCHANGED <<partial, buf, late, rebuild>>
    BY <1>5, <2>1
  <2>3. \/ emitted' = emitted \o Batch(lines) /\ pending' = <<>>
        \/ pending' = lines /\ emitted' = emitted /\ ~(Len(lines) >= BatchSize)
    BY <1>6 DEF TakeLine
  <2> HIDE DEF t
  <2>4. Before(Tokens(pending), Range(t)) /\ Before(Carried(emitted), Range(t))
    BY <1>1, <1>2, <2>2 DEF Before
  <2>5. lines \in Seq(Seq(Nat)) /\ InOrder(lines) /\ Tokens(lines) = Tokens(pending) \union Range(t)
    <3>1. lines = pending \o <<t>>
      <4>1. pending \in Seq(Seq(Nat)) /\ t \in Seq(Nat) BY <1>1, <2>2
      <4> QED BY <4>1, AppendIsConcat
    <3>2. <<t>> \in Seq(Seq(Nat)) /\ Tokens(<<t>>) = Range(t) /\ InOrder(<<t>>) BY <2>2, OneText
    <3> HIDE DEF lines
    <3> QED BY <1>1, <2>4, <3>1, <3>2, JoinedTexts
  <2> HIDE DEF lines
  <2>6. Before(Carried(emitted), Tokens(lines)) BY <1>1, <2>4, <2>5 DEF Before
  <2>7. Len(log') >= Len(log) /\ Len(log') > Len(log) BY <1>1, <2>2
  <2>8. CASE emitted' = emitted \o Batch(lines) /\ pending' = <<>>
    <3>1. /\ Queued(emitted')
          /\ Carried(emitted') = Carried(emitted) \union Tokens(pending) \union Range(t)
      <4>1. /\ Queued(emitted \o Batch(lines))
            /\ Carried(emitted \o Batch(lines)) = Carried(emitted) \union Tokens(lines)
        <5>1. Queued(emitted) BY <1>1
        <5> QED BY <2>5, <2>6, <5>1, EmitsBatch
      <4> QED BY <2>5, <2>8, <4>1
    <3>2. /\ pending' \in Seq(Seq(Nat)) /\ InOrder(pending') /\ Tokens(pending') = {}
          /\ Len(pending') < BatchSize
          /\ Before(Carried(emitted'), Tokens(pending'))
      BY <1>4, <2>8
    <3> QED BY <2>2, <2>7, <3>1, <3>2, PumpSteps
  <2>9. CASE pending' = lines /\ emitted' = emitted /\ ~(Len(lines) >= BatchSize)
    <3>0. Len(pending') < BatchSize
      <4>1. Len(lines) \in Nat BY <2>5
      <4> QED BY <2>9, <4>1, LogViewAssumption
    <3>1. /\ Queued(emitted') /\ pending' \in Seq(Seq(Nat)) /\ InOrder(pending')
          /\ Before(Carried(emitted'), Tokens(pending'))
          /\ Carried(emitted') \union Tokens(pending')
                = Carried(emitted) \union Tokens(pending) \union Range(t)
      BY <1>1, <2>5, <2>6, <2>9
    <3> QED BY <2>2, <2>7, <3>0, <3>1, PumpSteps
  <2> QED BY <2>3, <2>8, <2>9
<1>7. ASSUME NEW kind \in Kinds, TakePiece(kind) PROVE TextInv'
  <2> DEFINE t     == Text(kind)
             batch == emitted \o Batch(pending)
  <2>1. Read(kind, TRUE) BY <1>7 DEF TakePiece
  <2>2. /\ t \in Seq(Nat) /\ Rising(t) /\ Range(t) \subseteq {Len(log) + 1}
        /\ due' = due \union Range(t)
        /\ log' \in Seq([kind : Kinds \union {Blank}, partial : BOOLEAN])
        /\ Len(log') = Len(log) + 1
        /\ UNCHANGED <<partial, buf, late, rebuild>>
    BY <1>5, <2>1
  <2>3. emitted' = batch \o Part(t) /\ pending' = <<>> BY <1>7 DEF TakePiece
  <2>4. Queued(batch) /\ Carried(batch) = Carried(emitted) \union Tokens(pending) BY <1>3
  <2> HIDE DEF t, batch
  <2>5. Before(Carried(batch), Range(t)) BY <1>1, <1>2, <2>2, <2>4 DEF Before
  <2>6. Queued(emitted') /\ Carried(emitted') = Carried(batch) \union Range(t)
    BY <2>2, <2>3, <2>4, <2>5, EmitsPart
  <2>7. /\ pending' \in Seq(Seq(Nat)) /\ InOrder(pending') /\ Tokens(pending') = {}
        /\ Len(pending') < BatchSize
        /\ Before(Carried(emitted'), Tokens(pending'))
    BY <1>4, <2>3
  <2>8. Carried(emitted') \union Tokens(pending')
          = Carried(emitted) \union Tokens(pending) \union Range(t)
    BY <2>4, <2>6, <2>7
  <2>9. Len(log') >= Len(log) /\ Len(log') > Len(log) BY <1>1, <2>2
  <2> QED BY <2>2, <2>6, <2>7, <2>8, <2>9, PumpSteps
<1>8. ASSUME UNCHANGED <<log, screen>>, pending' = <<>>,
             \/ emitted' = emitted \o Batch(pending)
             \/ emitted' = emitted \o Batch(pending) \o End
      PROVE  TextInv'
  <2>1. /\ Queued(emitted') /\ Carried(emitted') = Carried(emitted) \union Tokens(pending)
    BY <1>3, <1>8, EmitsEnd
  <2>2. /\ pending' \in Seq(Seq(Nat)) /\ InOrder(pending') /\ Tokens(pending') = {}
        /\ Len(pending') < BatchSize
        /\ Before(Carried(emitted'), Tokens(pending'))
    BY <1>4, <1>8
  <2>3. /\ due' = due \union {} /\ log' = log /\ UNCHANGED <<partial, buf, late, rebuild>>
    BY <1>8 DEF screen
  <2>4. Len(log') >= Len(log) BY <1>1, <2>3
  <2>5. Carried(emitted') \union Tokens(pending')
          = Carried(emitted) \union Tokens(pending) \union {}
    BY <2>1, <2>2
  <2>6. log' \in Seq([kind : Kinds \union {Blank}, partial : BOOLEAN]) BY <1>1, <2>3
  <2> QED BY <2>1, <2>2, <2>3, <2>4, <2>5, <2>6, PumpSteps
<1>9. Tick => TextInv' BY <1>8 DEF Tick
<1>10. ScanEnds => TextInv' BY <1>8 DEF ScanEnds
<1> QED BY <1>6, <1>7, <1>9, <1>10

LEMMA ListenKeepsText ==
    ASSUME TextInv, Listen PROVE TextInv'
<1> DEFINE head == Head(emitted)
           H    == Tokens(head.lines)
           C    == Range(partial)
           D1   == Carried(Tail(emitted))
<1>1. emitted # <<>> /\ emitted' = Tail(emitted) /\ UNCHANGED <<log, pending, rebuild, due>>
  BY DEF Listen, OnBatch, OnPart, OnEnd, Hear, pump
<1>2. /\ Queued(emitted) /\ partial \in Seq(Nat) /\ Rising(partial) /\ Buffers(buf)
      /\ Len(partial) <= MaxPartial
      /\ Before(Gathered, C) /\ Before(Gathered, Carried(emitted)) /\ Before(C, Carried(emitted))
      /\ rebuild = [on |-> rebuild.on, pos |-> rebuild.pos, rows |-> rebuild.rows,
                    committed |-> rebuild.committed]
      /\ ~rebuild.on => late = <<>>
  BY DEF TextInv, Places, InPlaceOrder, Chain, Gathered, Before
<1>3. /\ head.lines \in Seq(Seq(Nat)) /\ InOrder(head.lines)
      /\ Formed(head)
      /\ Queued(emitted') /\ Carried(emitted') = D1
      /\ Carried(emitted) = H \union D1 /\ Before(H, D1)
  <2>1. /\ head \in Events /\ InOrder(head.lines)
        /\ Formed(head)
        /\ Queued(Tail(emitted)) /\ Carried(emitted) = H \union D1 /\ Before(H, D1)
    BY <1>1, <1>2, Heard
  <2>2. head.lines \in Seq(Seq(Nat)) BY <2>1 DEF Events
  <2> QED BY <1>1, <2>1, <2>2
<1>4. Before(Gathered, H) /\ Before(C, H) /\ Before(C, D1) BY <1>2, <1>3 DEF Before
<1>5. /\ <<>> \in Seq(Nat) /\ Rising(<<>>) /\ Range(<<>>) = {} /\ Len(<<>>) <= MaxPartial
      /\ \A S : Before(S, {}) /\ Before({}, S)
  BY NoTexts, LogViewAssumption DEF Before
\* Texts of the partial line and of the event are pushed, and no partial line is left.
<1>6. ASSUME NEW texts \in Seq(Seq(Nat)), InOrder(texts), Tokens(texts) = C \union H,
             Push(texts), partial' = <<>>
      PROVE  TextInv'
  <2>1. Before(Gathered, Tokens(texts)) BY <1>2, <1>4, <1>6 DEF Before
  <2>2. Takes(Tokens(texts)) /\ (~rebuild.on => late' = <<>>) BY <1>6, <2>1, TakesPushed
  <2>3. Before(Tokens(texts), Carried(emitted')) BY <1>3, <1>4, <1>6 DEF Before
  <2>4. /\ partial' \in Seq(Nat) /\ Rising(partial') /\ Range(partial') = {}
        /\ Len(partial') <= MaxPartial
        /\ Before(Tokens(texts), Range(partial')) /\ Before(Range(partial'), Carried(emitted'))
    BY <1>5, <1>6
  <2>5. Tokens(texts) \union Range(partial') \union Carried(emitted') = C \union Carried(emitted)
    BY <1>3, <1>6, <2>4
  <2>6. /\ rebuild' = [on |-> rebuild'.on, pos |-> rebuild'.pos, rows |-> rebuild'.rows,
                       committed |-> rebuild'.committed]
        /\ ~rebuild'.on => late' = <<>>
    BY <1>1, <1>2, <2>2
  <2> QED BY <1>1, <1>3, <2>2, <2>3, <2>4, <2>5, <2>6, ViewerSteps
\* They become the partial line.
<1>7. ASSUME partial' \in Seq(Nat), Rising(partial'), Range(partial') = C \union H,
             Len(partial') <= MaxPartial, UNCHANGED <<buf, late>>
      PROVE  TextInv'
  <2>1. Takes({}) BY <1>2, <1>7, TakesNothing
  <2>2. Before(Range(partial'), Carried(emitted')) BY <1>3, <1>4, <1>7 DEF Before
  <2>3. {} \union Range(partial') \union Carried(emitted') = C \union Carried(emitted) BY <1>3, <1>7
  <2>4. Before({}, Range(partial')) /\ Before({}, Carried(emitted')) BY <1>5
  <2>5. /\ rebuild' = [on |-> rebuild'.on, pos |-> rebuild'.pos, rows |-> rebuild'.rows,
                       committed |-> rebuild'.committed]
        /\ ~rebuild'.on => late' = <<>>
    BY <1>1, <1>2, <1>7
  <2> QED BY <1>1, <1>3, <1>7, <2>1, <2>2, <2>3, <2>4, <2>5, ViewerSteps
<1>8. CASE OnBatch
  <2>1. head.name = "batch" /\ head.lines # <<>> BY <1>3, <1>8 DEF OnBatch, Hear, Formed
  <2> DEFINE first == head.lines[1]
             rest  == Tail(head.lines)
             line  == partial \o first
  <2>2. /\ first \in Seq(Nat) /\ Rising(first) /\ rest \in Seq(Seq(Nat)) /\ InOrder(rest)
        /\ Before(Range(first), Tokens(rest)) /\ H = Range(first) \union Tokens(rest)
    BY <1>3, <2>1, FirstText
  <2>3. CASE head.lines = <<<<>>>>
    <3>1. UNCHANGED <<partial, buf, late>> BY <1>8, <2>3 DEF OnBatch
    <3>2. H = {}
      <4>1. H = Range(<<>>) BY <1>5, <2>3, OneText
      <4> QED BY <1>5, <4>1
    <3> QED BY <1>2, <1>7, <3>1, <3>2
  <2>4. CASE head.lines # <<<<>>>>
    <3>1. Push(<<line>> \o rest) /\ partial' = <<>> BY <1>8, <2>4 DEF OnBatch
    <3> HIDE DEF first, rest, H, C
    <3>2. line \in Seq(Nat) /\ Range(line) = C \union Range(first) /\ Rising(line)
      <4>1. Before(C, Range(first)) BY <1>4, <2>2 DEF Before
      <4> QED BY <1>2, <2>2, <4>1, JoinedText DEF C
    <3> HIDE DEF line
    <3>3. <<line>> \in Seq(Seq(Nat)) /\ Tokens(<<line>>) = Range(line) /\ InOrder(<<line>>)
      BY <3>2, OneText
    <3>4. Before(Tokens(<<line>>), Tokens(rest)) BY <1>4, <2>2, <3>2, <3>3 DEF Before
    <3> DEFINE a == <<line>>
    <3>5. /\ a \in Seq(Seq(Nat)) /\ InOrder(a) /\ Tokens(a) = C \union Range(first)
          /\ Before(Tokens(a), Tokens(rest)) /\ Push(a \o rest)
      BY <3>1, <3>2, <3>3, <3>4
    <3> HIDE DEF a
    <3>6. /\ a \o rest \in Seq(Seq(Nat)) /\ InOrder(a \o rest)
          /\ Tokens(a \o rest) = Tokens(a) \union Tokens(rest)
      <4>1. a \in Seq(Seq(Nat)) /\ rest \in Seq(Seq(Nat)) /\ InOrder(a) /\ InOrder(rest)
        BY <2>2, <3>5
      <4> QED BY <3>5, <4>1, JoinedTexts
    <3>7. Tokens(a \o rest) = C \union H BY <2>2, <3>5, <3>6
    <3> QED BY <1>6, <3>1, <3>5, <3>6, <3>7
  <2> QED BY <2>3, <2>4
<1>9. CASE OnPart
  <2> DEFINE first == head.lines[1]
             line  == partial \o first
  <2>1. head.name = "part" BY <1>9 DEF OnPart, Hear
  <2>2. first \in Seq(Nat) /\ head.lines = <<first>> BY <1>3, <2>1 DEF Formed
  <2>3. H = Range(first) /\ Rising(first)
    <3> HIDE DEF first
    <3>1. <<first>>[1] = first /\ 1 \in DOMAIN <<first>> OBVIOUS
    <3> QED BY <1>3, <2>2, <3>1, OneText DEF InOrder
  <2>4. \/ Push(<<line>>) /\ partial' = <<>>
        \/ partial' = line /\ ~(Len(line) > MaxPartial) /\ UNCHANGED <<buf, late>>
    BY <1>9 DEF OnPart
  <2> HIDE DEF first
  <2>5. line \in Seq(Nat) /\ Rising(line) /\ Range(line) = C \union H
    BY <1>2, <1>4, <2>2, <2>3, JoinedText
  <2> HIDE DEF line
  <2>6. <<line>> \in Seq(Seq(Nat)) /\ Tokens(<<line>>) = C \union H /\ InOrder(<<line>>)
    BY <2>5, OneText
  <2>7. ~(Len(line) > MaxPartial) => Len(line) <= MaxPartial
    <3>1. Len(line) \in Nat BY <2>5
    <3> QED BY <3>1, LogViewAssumption
  <2> QED BY <1>6, <1>7, <2>4, <2>5, <2>6, <2>7
<1>10. CASE OnEnd
  <2>1. head.lines = <<>> BY <1>3, <1>10 DEF OnEnd, Hear, Formed
  <2>2. H = {} BY <2>1, NoTexts
  <2>3. partial' = <<>> BY <1>10 DEF OnEnd
  <2>4. CASE partial # <<>>
    <3>1. Push(<<partial>>) BY <1>10, <2>4 DEF OnEnd
    <3>2. <<partial>> \in Seq(Seq(Nat)) /\ Tokens(<<partial>>) = C \union H /\ InOrder(<<partial>>)
      BY <1>2, <2>2, OneText
    <3> QED BY <1>6, <2>3, <3>1, <3>2
  <2>5. CASE partial = <<>>
    <3>1. UNCHANGED <<buf, late>> BY <1>10, <2>5 DEF OnEnd
    <3>2. C = {} BY <1>5, <2>5
    <3> QED BY <1>5, <1>7, <2>2, <2>3, <3>1, <3>2
  <2> QED BY <2>4, <2>5
<1> QED BY <1>8, <1>9, <1>10 DEF Listen

LEMMA UserKeepsText ==
    ASSUME TextInv, (\E q \in Kinds \union {Blank} : Search(q)) \/ Filter \/ Clear
    PROVE  TextInv'
<1>1. CASE (\E q \in Kinds \union {Blank} : Search(q)) \/ Filter
  <2>1. UNCHANGED <<log, pending, emitted, partial, buf, late, due>>
        /\ rebuild' = [Idle EXCEPT !.on = TRUE]
    BY <1>1 DEF Search, Filter, Change, pump
  <2>2. /\ rebuild' = [on |-> rebuild'.on, pos |-> rebuild'.pos, rows |-> rebuild'.rows,
                       committed |-> rebuild'.committed]
        /\ rebuild'.on
    BY <2>1 DEF Idle
  <2>3. Places' BY <2>1, <2>2 DEF TextInv, Places
  <2>4. Raw' = Raw BY <2>1 DEF Raw
  <2>5. InPlaceOrder' /\ NewestHeld'
    BY <2>1, <2>4 DEF TextInv, InPlaceOrder, NewestHeld, Held
  <2> QED BY <2>3, <2>5 DEF TextInv
<1>2. CASE Clear
  <2>1. /\ partial' = <<>> /\ buf' = Empty /\ late' = <<>> /\ rebuild' = Idle /\ due' = InTransit
        /\ UNCHANGED <<log, pending, emitted>>
    BY <1>2 DEF Clear, pump
  <2>2. TextsOf(buf'.raw) = <<>> BY <2>1 DEF TextsOf, Empty
  <2>3. Raw' = {} /\ Tokens(late') = {} /\ Range(partial') = {} BY <2>1, <2>2, NoTexts DEF Raw
  <2>4. due' = Carried(emitted) \union Tokens(pending) BY <2>1 DEF InTransit, Carried
  <2>5. Held' = due' BY <2>1, <2>3, <2>4 DEF Held
  <2>6. NewestHeld' BY <2>5 DEF NewestHeld
  <2>7. InPlaceOrder'
    <3>1. Before(Carried(emitted), Tokens(pending)) BY DEF TextInv, InPlaceOrder, Chain
    <3>2. \A S : Before({}, S) BY DEF Before
    <3> QED BY <2>1, <2>3, <3>1, <3>2 DEF InPlaceOrder, Chain
  <2>8. Places'
    <3>1. due' \subseteq 1..Len(log') BY <2>1, <2>4 DEF TextInv, Places, NewestHeld, Held
    <3>2. Buffers(buf') BY <2>1, <2>2, NoTexts, LogViewAssumption DEF Buffers, Empty
    <3>3. rebuild' = [on |-> rebuild'.on, pos |-> rebuild'.pos, rows |-> rebuild'.rows,
                      committed |-> rebuild'.committed]
      BY <2>1 DEF Idle
    <3> QED BY <2>1, <3>1, <3>2, <3>3, NoTexts, LogViewAssumption DEF TextInv, Places
  <2> QED BY <2>6, <2>7, <2>8 DEF TextInv
<1> QED BY <1>1, <1>2

LEMMA FrameKeepsText ==
    ASSUME TextInv, Frame PROVE TextInv'
<1>1. rebuild.on /\ UNCHANGED <<log, pending, emitted, partial, due>> BY DEF Frame, pump
<1>2. /\ Queued(emitted) /\ partial \in Seq(Nat) /\ Rising(partial) /\ Buffers(buf)
      /\ Len(partial) <= MaxPartial
      /\ Before(Range(partial), Carried(emitted))
      /\ rebuild = [on |-> rebuild.on, pos |-> rebuild.pos, rows |-> rebuild.rows,
                    committed |-> rebuild.committed]
  BY DEF TextInv, Places, InPlaceOrder, Chain
<1>3. ASSUME Takes({}), rebuild'.on \/ late' = <<>>,
             rebuild' = [on |-> rebuild'.on, pos |-> rebuild'.pos, rows |-> rebuild'.rows,
                         committed |-> rebuild'.committed]
      PROVE  TextInv'
  <2>1. \A S : Before({}, S) BY DEF Before
  <2>2. /\ Queued(emitted') /\ partial' \in Seq(Nat) /\ Rising(partial')
        /\ Len(partial') <= MaxPartial
        /\ Before(Range(partial'), Carried(emitted'))
        /\ {} \union Range(partial') \union Carried(emitted')
              = Range(partial) \union Carried(emitted)
        /\ Before({}, Range(partial')) /\ Before({}, Carried(emitted'))
    BY <1>1, <1>2, <2>1
  <2> QED BY <1>1, <1>3, <2>2, ViewerSteps
\* A frame that goes on changes the view at most.
<1>4. ASSUME NEW pos, NEW rows, NEW committed, NEW view, late' = late,
             buf' = [buf EXCEPT !.view = view],
             rebuild' = [rebuild EXCEPT !.pos = pos, !.rows = rows, !.committed = committed]
      PROVE  TextInv'
  <2>1. buf'.raw = buf.raw /\ buf'.next = buf.next /\ Buffers(buf') BY <1>2, <1>4 DEF Buffers
  <2>2. Takes({}) BY <1>4, <2>1, TakesNothing
  <2>3. /\ rebuild'.on
        /\ rebuild' = [on |-> rebuild'.on, pos |-> rebuild'.pos, rows |-> rebuild'.rows,
                       committed |-> rebuild'.committed]
    BY <1>1, <1>2, <1>4
  <2> QED BY <1>3, <2>2, <2>3
<1>5. buf = [buf EXCEPT !.view = buf.view] BY <1>2 DEF Buffers
<1>6. rebuild.committed = rebuild.committed /\ \A pos, rows :
         [rebuild EXCEPT !.pos = pos, !.rows = rows]
            = [rebuild EXCEPT !.pos = pos, !.rows = rows, !.committed = rebuild.committed]
  BY <1>2
<1>7. ASSUME NEW rows, NEW from, Commit(rows, from) PROVE TextInv'
  <2> DEFINE to       == Min({from + CommitChunk, Len(rows)})
             finished == [buf EXCEPT !.view = rows, !.matches = Hits(rows)]
             cut      == SubSeq(buf.view, 1, Len(buf.view) - CommitChunk)
             more     == SubSeq(rows, 1, to)
  <2>1. \/ /\ buf' = [buf EXCEPT !.view = cut]
           /\ rebuild' = [rebuild EXCEPT !.pos = Len(buf.raw), !.rows = rows]
           /\ late' = late
        \/ /\ buf' = [buf EXCEPT !.view = more]
           /\ rebuild' = [rebuild EXCEPT !.pos = Len(buf.raw), !.rows = rows, !.committed = to]
           /\ late' = late
        \/ ShowLate(finished) /\ rebuild' = Idle
    BY <1>7 DEF Commit
  <2> HIDE DEF to, cut, more
  <2>2. CASE /\ buf' = [buf EXCEPT !.view = cut]
             /\ rebuild' = [rebuild EXCEPT !.pos = Len(buf.raw), !.rows = rows]
             /\ late' = late
    <3>1. rebuild' = [rebuild EXCEPT !.pos = Len(buf.raw), !.rows = rows,
                                     !.committed = rebuild.committed]
      BY <1>6, <2>2
    <3>2. buf' = [buf EXCEPT !.view = cut] /\ late' = late BY <2>2
    <3> QED BY <1>4, <3>1, <3>2
  <2>3. CASE /\ buf' = [buf EXCEPT !.view = more]
             /\ rebuild' = [rebuild EXCEPT !.pos = Len(buf.raw), !.rows = rows, !.committed = to]
             /\ late' = late
    BY <1>4, <2>3
  <2>4. CASE ShowLate(finished) /\ rebuild' = Idle
    <3> DEFINE hits == Hits(rows)
    <3>0. finished = [raw |-> buf.raw, view |-> rows, matches |-> hits, next |-> buf.next]
      <4>1. buf = [raw |-> buf.raw, view |-> buf.view, matches |-> buf.matches, next |-> buf.next]
        BY <1>2 DEF Buffers
      <4> HIDE DEF hits
      <4>2. finished = [buf EXCEPT !.view = rows, !.matches = hits] BY DEF hits
      <4> HIDE DEF finished
      <4> QED BY <4>1, <4>2
    <3> HIDE DEF finished, hits
    <3>1. Buffers(finished) /\ finished.raw = buf.raw /\ finished.next = buf.next
      BY <1>2, <3>0 DEF Buffers
    <3>2. Takes({}) /\ late' = <<>> BY <2>4, <3>1, TakesLate
    <3>3. rebuild' = [on |-> rebuild'.on, pos |-> rebuild'.pos, rows |-> rebuild'.rows,
                      committed |-> rebuild'.committed]
      BY <2>4 DEF Idle
    <3> QED BY <1>3, <3>2, <3>3
  <2> QED BY <2>1, <2>2, <2>3, <2>4
<1>8. ASSUME NEW to, Scan(to) PROVE TextInv'
  <2> DEFINE rows == rebuild.rows \o Shown(SubSeq(buf.raw, rebuild.pos + 1, to))
  <2>1. \/ /\ rebuild' = [rebuild EXCEPT !.pos = to, !.rows = rows]
           /\ buf' = buf /\ late' = late
        \/ Commit(rows, 0)
    BY <1>8 DEF Scan
  <2> HIDE DEF rows
  <2>2. CASE /\ rebuild' = [rebuild EXCEPT !.pos = to, !.rows = rows]
             /\ buf' = buf /\ late' = late
    <3>1. rebuild' = [rebuild EXCEPT !.pos = to, !.rows = rows, !.committed = rebuild.committed]
      BY <1>6, <2>2
    <3>2. buf' = [buf EXCEPT !.view = buf.view] /\ late' = late BY <1>5, <2>2
    <3> QED BY <1>4, <3>1, <3>2
  <2> QED BY <1>7, <2>1, <2>2
<1> QED BY <1>7, <1>8 DEF Frame

LEMMA TextStep == TextInv /\ [TextNext]_textVars => TextInv'
<1> SUFFICES ASSUME TextInv, [TextNext]_textVars PROVE TextInv'
  OBVIOUS
<1>1. CASE UNCHANGED textVars
  <2>1. UNCHANGED <<log, pending, emitted, partial, buf, late, rebuild, due>>
    BY <1>1 DEF textVars, pump, screen
  <2>2. Raw' = Raw BY <2>1 DEF Raw
  <2>3. Places' /\ InPlaceOrder' /\ NewestHeld'
    BY <2>1, <2>2 DEF TextInv, Places, InPlaceOrder, NewestHeld, Held
  <2> QED BY <2>3 DEF TextInv
<1>2. CASE TextNext
  BY <1>2, PumpKeepsText, ListenKeepsText, UserKeepsText, FrameKeepsText DEF TextNext
<1> QED BY <1>1, <1>2

LEMMA TextInvHolds == TextSpec => []TextInv
BY TextInitially, TextStep, PTL DEF TextSpec

\* From the scan of the log to the buffer of the viewer no text is lost,
\* duplicated or reordered, whatever the sizes of batches, partial lines and
\* the buffer: pieces never overtake lines (pumpLogStream), lines that wait for
\* a rebuild follow those in the buffer, and eviction drops the oldest only.
THEOREM TextKeptInOrderHolds == TextSpec => []TextKeptInOrder
BY TextInvHolds, PlacesAreStages, PTL

\* Nothing on the way to the screen grows without bound: the pump flushes a
\* batch that is full, the viewer cuts a line that never ends and evicts the
\* lines its buffer has no room for, during a rebuild as at any other time.
THEOREM MemoryBoundedHolds == TextSpec => []MemoryBounded
<1>1. TextInv => MemoryBounded BY DEF TextInv, Places, Buffers, MemoryBounded
<1> QED BY <1>1, TextInvHolds, PTL
-----------------------------------------------------------------------------
\* What a selection picks.  Upto(K, i) are the positions in K up to i.
Upto(K, i) == {k \in K : k <= i}
Rank(K, i) == Cardinality(Upto(K, i))

LEMMA Ranks ==
    ASSUME NEW n \in Nat, NEW K, K \subseteq 1..n
    PROVE  /\ IsFiniteSet(K) /\ Cardinality(K) \in Nat
           /\ \A i \in K : Rank(K, i) \in 1..Cardinality(K) /\ Nth(K, Rank(K, i)) = i
           /\ \A j \in 1..Cardinality(K) : Nth(K, j) \in K /\ Rank(K, Nth(K, j)) = j
<1>1. IsFiniteSet(K) /\ Cardinality(K) \in Nat
  <2>1. IsFiniteSet(1..n)
    <3>1. 1 \in Int /\ n \in Int OBVIOUS
    <3> QED BY <3>1, FS_Interval
  <2>2. K \in SUBSET (1..n) OBVIOUS
  <2>3. IsFiniteSet(K) BY <2>1, <2>2, FS_Subset
  <2> QED BY <2>3, FS_CardinalityType
<1>2. \A i \in K : IsFiniteSet(Upto(K, i)) /\ Rank(K, i) \in 1..Cardinality(K)
  <2> SUFFICES ASSUME NEW i \in K
               PROVE  IsFiniteSet(Upto(K, i)) /\ Rank(K, i) \in 1..Cardinality(K)
    OBVIOUS
  <2>1. Upto(K, i) \in SUBSET K /\ i \in Upto(K, i) BY DEF Upto
  <2>2. IsFiniteSet(Upto(K, i)) /\ Rank(K, i) <= Cardinality(K)
    BY <1>1, <2>1, FS_Subset DEF Rank
  <2>3. Rank(K, i) \in Nat /\ Rank(K, i) # 0
    BY <2>1, <2>2, FS_CardinalityType, FS_EmptySet DEF Rank
  <2> QED BY <1>1, <2>2, <2>3
<1>3. ASSUME NEW i \in K, NEW j \in K, i < j PROVE Rank(K, i) < Rank(K, j)
  <2>1. Upto(K, i) \in SUBSET Upto(K, j)
    <3>1. \A k \in K : k <= i => k <= j
      <4> SUFFICES ASSUME NEW k \in K, k <= i PROVE k <= j
        OBVIOUS
      <4>1. k \in Nat /\ i \in Nat /\ j \in Nat OBVIOUS
      <4> QED BY <1>3, <4>1
    <3> QED BY <3>1 DEF Upto
  <2>2. j \in Upto(K, j) /\ j \notin Upto(K, i) BY <1>3 DEF Upto
  <2>3. Rank(K, i) <= Rank(K, j) /\ Rank(K, i) # Rank(K, j)
    BY <1>2, <2>1, <2>2, FS_Subset DEF Rank
  <2> QED BY <1>2, <2>3
<1>4. \A i, j \in K : Rank(K, i) = Rank(K, j) => i = j
  <2> SUFFICES ASSUME NEW i \in K, NEW j \in K, Rank(K, i) = Rank(K, j), i # j PROVE FALSE
    OBVIOUS
  <2>1. i < j \/ j < i OBVIOUS
  <2> QED BY <1>2, <1>3, <2>1
<1>5. \A j \in 1..Cardinality(K) : \E i \in K : Rank(K, i) = j
  <2> DEFINE c == Cardinality(K)
             f == [i \in K |-> Rank(K, i)]
  <2>1. IsFiniteSet(1..c) /\ Cardinality(1..c) = c BY <1>1, FS_Interval
  <2>2. f \in Injection(K, 1..c) BY <1>2, <1>4 DEF Injection, IsInjective
  <2> HIDE DEF f
  <2>3. f \in Surjection(K, 1..c) BY <2>1, <2>2, FS_Injection
  <2>4. \A j \in 1..c : \E i \in K : f[i] = j BY <2>3 DEF Surjection
  <2> QED BY <2>4 DEF f
<1>6. \A j \in 1..Cardinality(K) : Nth(K, j) \in K /\ Rank(K, Nth(K, j)) = j
  BY <1>5 DEF Nth, Rank, Upto
<1> QED BY <1>1, <1>2, <1>4, <1>6

\* The positions B, m further on.
Shift(B, m) == {m + i : i \in B}

LEMMA Shifted ==
    ASSUME NEW m \in Nat, NEW B, B \subseteq Nat, IsFiniteSet(B)
    PROVE  IsFiniteSet(Shift(B, m)) /\ Cardinality(Shift(B, m)) = Cardinality(B)
<1> DEFINE f == [i \in B |-> m + i]
<1>1. f \in Bijection(B, Shift(B, m))
  BY DEF Bijection, Injection, IsInjective, Surjection, Shift
<1>2. ExistsBijection(B, Shift(B, m)) BY <1>1 DEF ExistsBijection
<1> QED BY <1>2, FS_Bijection

LEMMA SelectionJoins ==
    ASSUME NEW a, NEW b, NEW c, NEW m, NEW n, IsJoin(c, a, m, b, n),
           NEW A, NEW B, A \subseteq 1..m, B \subseteq 1..n
    PROVE  IsJoin(Selection(c, A \union Shift(B, m)), Selection(a, A), Cardinality(A),
                  Selection(b, B), Cardinality(B))
<1> DEFINE S == Shift(B, m)
           K == A \union S
           p == Cardinality(A)
           q == Cardinality(B)
<1>1. m \in Nat /\ n \in Nat /\ m + n \in Nat /\ K \subseteq 1..m + n
  <2>1. m \in Nat /\ n \in Nat /\ m + n \in Nat BY DEF IsJoin
  <2>2. \A i \in 1..n : m + i \in 1..m + n BY <2>1
  <2>3. \A i \in 1..m : i \in 1..m + n BY <2>1
  <2>4. S \subseteq 1..m + n BY <2>2 DEF Shift
  <2> QED BY <2>1, <2>3, <2>4
<1>2. IsFiniteSet(A) /\ IsFiniteSet(B) /\ p \in Nat /\ q \in Nat BY <1>1, Ranks
<1>3. /\ \A j \in 1..p : Nth(A, j) \in A /\ Rank(A, Nth(A, j)) = j
      /\ \A j \in 1..q : Nth(B, j) \in B /\ Rank(B, Nth(B, j)) = j
      /\ \A i \in K : Nth(K, Rank(K, i)) = i
  BY <1>1, Ranks
<1>4. ASSUME NEW T, T \subseteq B
      PROVE  /\ IsFiniteSet(T) /\ Cardinality(A \union Shift(T, m)) = p + Cardinality(T)
             /\ Cardinality(T) \in Nat
  <2>1. IsFiniteSet(T) /\ Cardinality(T) \in Nat BY <1>2, <1>4, FS_Subset, FS_CardinalityType
  <2>2. IsFiniteSet(Shift(T, m)) /\ Cardinality(Shift(T, m)) = Cardinality(T)
    <3>1. T \subseteq Nat BY <1>1, <1>4
    <3> QED BY <1>1, <2>1, <3>1, Shifted
  <2>3. A \cap Shift(T, m) = {} BY <1>1, <1>4 DEF Shift
  <2>4. Cardinality(A \cap Shift(T, m)) = 0 BY <2>3, FS_EmptySet
  <2>5. Cardinality(A \union Shift(T, m))
          = p + Cardinality(Shift(T, m)) - Cardinality(A \cap Shift(T, m))
    BY <1>2, <2>2, FS_Union
  <2> QED BY <1>2, <2>1, <2>2, <2>4, <2>5
<1>5. Cardinality(K) = p + q BY <1>4
<1>6. ASSUME NEW j \in 1..p PROVE Nth(K, j) = Nth(A, j) /\ Nth(A, j) \in 1..m
  <2> DEFINE i == Nth(A, j)
  <2>1. i \in A /\ Rank(A, i) = j BY <1>3
  <2>2. Upto(K, i) = Upto(A, i) BY <1>1, <2>1 DEF Upto, Shift
  <2>3. i \in K /\ Rank(K, i) = j BY <2>1, <2>2 DEF Rank
  <2> QED BY <1>3, <2>1, <2>3
<1>7. ASSUME NEW j \in 1..q PROVE Nth(K, p + j) = m + Nth(B, j) /\ Nth(B, j) \in 1..n
  <2> DEFINE i == Nth(B, j)
             T == Upto(B, i)
  <2>1. i \in B /\ Cardinality(T) = j /\ T \subseteq B BY <1>3 DEF Rank, Upto
  <2>2. Upto(K, m + i) = A \union Shift(T, m)
    <3>0. i \in 1..n BY <2>1
    <3>1. \A k \in 1..m : k <= m + i BY <1>1, <3>0
    <3>2. \A k \in 1..n : m + k <= m + i <=> k <= i BY <1>1, <3>0
    <3>3. ASSUME NEW x \in Upto(K, m + i) PROVE x \in A \union Shift(T, m)
      BY <3>2 DEF Upto, Shift
    <3>4. ASSUME NEW x \in A \union Shift(T, m) PROVE x \in Upto(K, m + i)
      BY <3>1, <3>2 DEF Upto, Shift
    <3> QED BY <3>3, <3>4
  <2>3. Rank(K, m + i) = p + j BY <1>4, <2>1, <2>2 DEF Rank
  <2>4. m + i \in K BY <2>1 DEF Shift
  <2> QED BY <1>3, <2>1, <2>3, <2>4
<1> HIDE DEF K, p, q
<1> DEFINE sc == Selection(c, K)
           sa == Selection(a, A)
           sb == Selection(b, B)
<1>8. DOMAIN sc = 1..p + q /\ DOMAIN sa = 1..p /\ DOMAIN sb = 1..q
  BY <1>5 DEF Selection, p, q
<1>9. \A j \in 1..p : sc[j] = sa[j]
  <2> SUFFICES ASSUME NEW j \in 1..p PROVE sc[j] = sa[j]
    OBVIOUS
  <2>1. j \in 1..p + q BY <1>2
  <2>2. sc[j] = c[Nth(K, j)] BY <1>5, <2>1 DEF Selection
  <2>3. sa[j] = a[Nth(A, j)] BY DEF Selection, p
  <2> QED BY <1>6, <2>2, <2>3 DEF IsJoin
<1>10. \A j \in 1..q : sc[p + j] = sb[j]
  <2> SUFFICES ASSUME NEW j \in 1..q PROVE sc[p + j] = sb[j]
    OBVIOUS
  <2>1. p + j \in 1..p + q BY <1>2
  <2>2. sc[p + j] = c[Nth(K, p + j)] BY <1>5, <2>1 DEF Selection
  <2>3. sb[j] = b[Nth(B, j)] BY DEF Selection, q
  <2> QED BY <1>7, <2>2, <2>3 DEF IsJoin
<1>11. IsJoin(sc, sa, p, sb, q) BY <1>2, <1>8, <1>9, <1>10 DEF IsJoin
<1> QED BY <1>11 DEF K, p, q
-----------------------------------------------------------------------------
\* s is the end of t.
IsEnding(s, t) ==
    \E m, n \in Nat : /\ DOMAIN s = 1..n /\ DOMAIN t = 1..m + n
                      /\ \A i \in 1..n : s[i] = t[m + i]

LEMMA JoinOfSequences ==
    ASSUME NEW S, NEW a \in Seq(S), NEW b \in Seq(S)
    PROVE  IsJoin(a \o b, a, Len(a), b, Len(b)) /\ a \o b \in Seq(S)
BY DEF IsJoin

\* A join of two sequences is their concatenation.
LEMMA JoinIsConcatenation ==
    ASSUME NEW S, NEW a \in Seq(S), NEW b \in Seq(S), NEW c \in Seq(S), NEW m, NEW n,
           IsJoin(c, a, m, b, n)
    PROVE  c = a \o b
<1> DEFINE d == a \o b
<1>1. /\ d \in Seq(S) /\ Len(d) = Len(a) + Len(b)
      /\ \A i \in 1..Len(a) : d[i] = a[i]
      /\ \A i \in 1..Len(b) : d[Len(a) + i] = b[i]
  OBVIOUS
<1>2. m = Len(a) /\ n = Len(b) /\ Len(c) = m + n BY DEF IsJoin
<1> HIDE DEF d
<1>3. \A i \in 1..m + n : c[i] = d[i]
  <2> SUFFICES ASSUME NEW i \in 1..m + n PROVE c[i] = d[i]
    OBVIOUS
  <2>1. CASE i \in 1..m BY <1>1, <1>2, <2>1 DEF IsJoin
  <2>2. CASE i \notin 1..m
    <3>1. m \in Nat /\ n \in Nat BY DEF IsJoin
    <3>2. i - m \in 1..n /\ m + (i - m) = i BY <2>2, <3>1
    <3>3. c[m + (i - m)] = b[i - m] BY <3>2 DEF IsJoin
    <3>4. d[m + (i - m)] = b[i - m] BY <1>1, <1>2, <3>2
    <3> QED BY <3>2, <3>3, <3>4
  <2> QED BY <2>1, <2>2
<1>4. c = d BY <1>1, <1>2, <1>3
<1> QED BY <1>4 DEF d

LEMMA EndOfJoin ==
    ASSUME NEW a, NEW b, NEW c, NEW m, NEW n, IsJoin(c, a, m, b, n) PROVE IsEnding(b, c)
BY DEF IsJoin, IsEnding

LEMMA EndingIsTransitive ==
    ASSUME NEW s, NEW t, NEW u, IsEnding(s, t), IsEnding(t, u) PROVE IsEnding(s, u)
<1>1. PICK m \in Nat, n \in Nat : /\ DOMAIN s = 1..n /\ DOMAIN t = 1..m + n
                                  /\ \A i \in 1..n : s[i] = t[m + i]
  BY DEF IsEnding
<1>2. PICK k \in Nat, l \in Nat : /\ DOMAIN t = 1..l /\ DOMAIN u = 1..k + l
                                  /\ \A i \in 1..l : t[i] = u[k + i]
  BY DEF IsEnding
<1>3. l = m + n
  <2>1. 1..l = 1..m + n BY <1>1, <1>2
  <2> QED BY <2>1
<1>4. k + m \in Nat /\ DOMAIN u = 1..(k + m) + n BY <1>2, <1>3
<1>5. \A i \in 1..n : s[i] = u[(k + m) + i]
  <2> SUFFICES ASSUME NEW i \in 1..n PROVE s[i] = u[(k + m) + i]
    OBVIOUS
  <2>1. m + i \in 1..l /\ k + (m + i) = (k + m) + i BY <1>3
  <2> QED BY <1>1, <1>2, <2>1
<1> QED BY <1>1, <1>4, <1>5 DEF IsEnding

\* The same is appended to both.
LEMMA EndingGrows ==
    ASSUME NEW s, NEW t, NEW b, NEW u, NEW v, NEW k, NEW l, NEW n, NEW o,
           IsEnding(s, t), IsJoin(u, s, k, b, n), IsJoin(v, t, l, b, o)
    PROVE  IsEnding(u, v)
<1>1. PICK m \in Nat, j \in Nat : /\ DOMAIN s = 1..j /\ DOMAIN t = 1..m + j
                                  /\ \A i \in 1..j : s[i] = t[m + i]
  BY DEF IsEnding
<1>2. j = k /\ l = m + k /\ n = o /\ k \in Nat /\ l \in Nat /\ n \in Nat
  <2>1. k \in Nat /\ l \in Nat /\ n \in Nat /\ o \in Nat BY DEF IsJoin
  <2>2. 1..j = 1..k /\ 1..l = 1..m + j /\ 1..n = 1..o BY <1>1 DEF IsJoin
  <2>3. j = k BY <2>1, <2>2
  <2>4. l = m + j BY <2>1, <2>2
  <2>5. n = o BY <2>1, <2>2
  <2> QED BY <2>1, <2>3, <2>4, <2>5
<1>3. k + n \in Nat /\ DOMAIN u = 1..k + n /\ DOMAIN v = 1..m + (k + n)
  <2>1. l + n = m + (k + n) BY <1>2
  <2> QED BY <1>2, <2>1 DEF IsJoin
<1>4. ASSUME NEW i \in 1..k + n PROVE u[i] = v[m + i]
  <2>1. CASE i \in 1..k
    <3>1. m + i \in 1..l BY <1>2, <2>1
    <3> QED BY <1>1, <1>2, <2>1, <3>1 DEF IsJoin
  <2>2. CASE i \notin 1..k
    <3>1. i - k \in 1..n /\ k + (i - k) = i /\ l + (i - k) = m + i BY <1>2, <2>2
    <3>2. u[k + (i - k)] = b[i - k] BY <3>1 DEF IsJoin
    <3>3. v[l + (i - k)] = b[i - k] BY <1>2, <3>1 DEF IsJoin
    <3> QED BY <3>1, <3>2, <3>3
  <2> QED BY <2>1, <2>2
<1> QED BY <1>3, <1>4 DEF IsEnding

LEMMA EndingIsSuffix ==
    ASSUME NEW S, NEW s \in Seq(S), NEW t \in Seq(S), IsEnding(s, t) PROVE IsSuffix(s, t)
<1> DEFINE rs == Reverse(s)
           rt == Reverse(t)
<1>1. PICK m \in Nat, n \in Nat : /\ DOMAIN s = 1..n /\ DOMAIN t = 1..m + n
                                  /\ \A i \in 1..n : s[i] = t[m + i]
  BY DEF IsEnding
<1>2. Len(s) = n /\ Len(t) = m + n BY <1>1
<1>3. /\ rs \in Seq(S) /\ Len(rs) = n /\ \A i \in 1..n : rs[i] = s[(n - i) + 1]
      /\ rt \in Seq(S) /\ Len(rt) = m + n /\ \A i \in 1..m + n : rt[i] = t[((m + n) - i) + 1]
  <2>1. rs = [i \in 1..n |-> s[(n - i) + 1]] BY <1>2 DEF Reverse
  <2>2. rt = [i \in 1..m + n |-> t[((m + n) - i) + 1]] BY <1>2 DEF Reverse
  <2>3. \A i \in 1..n : s[(n - i) + 1] \in S
    <3> SUFFICES ASSUME NEW i \in 1..n PROVE s[(n - i) + 1] \in S
      OBVIOUS
    <3>1. (n - i) + 1 \in 1..Len(s) BY <1>2
    <3> QED BY <3>1
  <2>4. \A i \in 1..m + n : t[((m + n) - i) + 1] \in S
    <3> SUFFICES ASSUME NEW i \in 1..m + n PROVE t[((m + n) - i) + 1] \in S
      OBVIOUS
    <3>1. ((m + n) - i) + 1 \in 1..Len(t) BY <1>2
    <3> QED BY <3>1
  <2> HIDE DEF rs, rt
  <2>5. rs \in Seq(S) /\ Len(rs) = n BY <2>1, <2>3
  <2>6. rt \in Seq(S) /\ Len(rt) = m + n BY <2>2, <2>4
  <2> QED BY <2>1, <2>2, <2>5, <2>6
<1> HIDE DEF rs, rt
<1>4. \A i \in 1..n : rs[i] = rt[i]
  <2> SUFFICES ASSUME NEW i \in 1..n PROVE rs[i] = rt[i]
    OBVIOUS
  <2>1. (n - i) + 1 \in 1..n /\ m + ((n - i) + 1) = ((m + n) - i) + 1 /\ i \in 1..m + n OBVIOUS
  <2>2. s[(n - i) + 1] = t[m + ((n - i) + 1)] BY <1>1, <2>1
  <2> QED BY <1>3, <2>1, <2>2
<1>5. SubSeq(rs, 1, n) = [i \in 1..n |-> rs[i]] BY <1>3
<1>6. SubSeq(rt, 1, n) = [i \in 1..n |-> rt[i]] BY <1>3
<1>7. IsPrefix(rs, rt) BY <1>3, <1>4, <1>5, <1>6 DEF IsPrefix
<1> QED BY <1>7 DEF IsSuffix, rs, rt

\* What is of a line from first on is kept.
LEMMA KeepsEnding ==
    ASSUME NEW T, NEW s, NEW t \in Seq(T), IsEnding(s, t), NEW numbers, NEW first,
           \A i \in DOMAIN t, j \in DOMAIN s : s[j] = t[i] => numbers[i] >= first
    PROVE  KeptFrom(first, t, numbers) \in Seq(T) /\ IsEnding(s, KeptFrom(first, t, numbers))
<1> DEFINE kept == {i \in DOMAIN t : numbers[i] >= first}
           from == Min(kept)
           u    == SubSeq(t, from, Len(t))
<1>1. PICK m \in Nat, n \in Nat : /\ DOMAIN s = 1..n /\ DOMAIN t = 1..m + n
                                  /\ \A i \in 1..n : s[i] = t[m + i]
  BY DEF IsEnding
<1>2. Len(t) = m + n BY <1>1
<1>3. kept \subseteq 1..m + n BY <1>1
<1>4. \A i \in 1..n : m + i \in kept
  <2> SUFFICES ASSUME NEW i \in 1..n PROVE m + i \in kept
    OBVIOUS
  <2>1. m + i \in DOMAIN t BY <1>1
  <2> QED BY <1>1, <2>1
<1>5. KeptFrom(first, t, numbers) = IF kept = {} THEN t ELSE u BY DEF KeptFrom
<1> HIDE DEF kept
<1>6. CASE kept = {} BY <1>5, <1>6
<1>7. CASE kept # {}
  <2>1. from \in kept /\ \A i \in kept : from <= i
    <3>0. m + n \in Nat OBVIOUS
    <3>1. /\ IsFiniteSet(kept) /\ Cardinality(kept) \in Nat
          /\ \A i \in kept : Rank(kept, i) \in 1..Cardinality(kept)
          /\ \A j \in 1..Cardinality(kept) : Nth(kept, j) \in kept /\ Rank(kept, Nth(kept, j)) = j
      BY <1>3, <3>0, Ranks
    <3>2. Cardinality(kept) # 0 BY <1>7, <3>1, FS_EmptySet
    <3> DEFINE x == Nth(kept, 1)
    <3>3. x \in kept /\ Rank(kept, x) = 1 BY <3>1, <3>2
    <3> HIDE DEF x
    <3>4. \A i \in kept : x <= i
      <4> SUFFICES ASSUME NEW i \in kept, ~(x <= i) PROVE FALSE
        OBVIOUS
      <4>1. x \in Nat /\ i \in Nat /\ i < x BY <1>3, <3>3
      <4>2. Upto(kept, x) \in SUBSET kept /\ {i, x} \in SUBSET Upto(kept, x)
        BY <3>3, <4>1 DEF Upto
      <4>3. IsFiniteSet(Upto(kept, x)) BY <3>1, <4>2, FS_Subset
      <4>4. PICK e : Upto(kept, x) = {e} BY <3>3, <4>3, FS_Singleton DEF Rank
      <4> QED BY <4>1, <4>2, <4>4
    <3> QED BY <3>3, <3>4 DEF Min
  <2> HIDE DEF from
  <2>2. from \in 1..m + n BY <1>3, <2>1
  <2>3. n = 0 \/ from <= m + 1
    <3>1. CASE n # 0
      <4>1. m + 1 \in kept BY <1>4, <3>1
      <4> QED BY <2>1, <4>1
    <3> QED BY <3>1
  <2> DEFINE k == (m + 1) - from
  <2>4. k \in Nat /\ k = (m + 1) - from
    <3>1. n = 0 => from <= m + 1 BY <2>2
    <3> QED BY <2>2, <2>3, <3>1
  <2> HIDE DEF k
  <2>5. u \in Seq(T) /\ DOMAIN u = 1..k + n
    <3>1. u \in Seq(T) /\ Len(u) = ((m + n) - from) + 1 BY <1>2, <2>2
    <3>2. ((m + n) - from) + 1 = k + n BY <2>2, <2>4
    <3> QED BY <3>1, <3>2
  <2>6. \A i \in 1..n : s[i] = u[k + i]
    <3> SUFFICES ASSUME NEW i \in 1..n PROVE s[i] = u[k + i]
      OBVIOUS
    <3>1. k + i \in 1..((m + n) - from) + 1 /\ from + (k + i) - 1 = m + i BY <2>2, <2>4
    <3>2. u[k + i] = t[from + (k + i) - 1] BY <1>2, <2>2, <3>1
    <3> QED BY <1>1, <3>1, <3>2
  <2>7. IsEnding(s, u) BY <1>1, <2>4, <2>5, <2>6 DEF IsEnding
  <2> QED BY <1>5, <1>7, <2>5, <2>7
<1> QED BY <1>6, <1>7
-----------------------------------------------------------------------------
\* The rows shown, as a function of the log, the query and the filter.
Finds(text, lg, q)  == q # Blank /\ \E i \in 1..Len(text) : lg[text[i]].kind = q
RowOf(line, lg, q)  == [seq |-> line.seq, text |-> line.text, hit |-> Finds(line.text, lg, q)]
RowsOf(lines, lg, q) == [i \in DOMAIN lines |-> RowOf(lines[i], lg, q)]
Chosen(lines, lg, q, o) ==
    {i \in DOMAIN lines : o /\ q # Blank => Finds(lines[i].text, lg, q)}
ShownOf(lines, lg, q, o) == Selection(RowsOf(lines, lg, q), Chosen(lines, lg, q, o))

Numbers(rows)  == [i \in DOMAIN rows |-> rows[i].seq]
Matching(rows) == {i \in DOMAIN rows : rows[i].hit}

LEMMA ShownIs == \A lines : Shown(lines) = ShownOf(lines, log, query, only)
BY DEF Shown, ShownOf, RowsOf, RowOf, Chosen, Finds, Row, Wanted, Matches

LEMMA HitsAre == \A rows : Hits(rows) = Selection(Numbers(rows), Matching(rows))
BY DEF Hits, Numbers, Matching

LEMMA ShownJoins ==
    ASSUME NEW a, NEW b, NEW c, NEW m, NEW n, IsJoin(c, a, m, b, n), NEW lg, NEW q, NEW o
    PROVE  \E k, l : IsJoin(ShownOf(c, lg, q, o), ShownOf(a, lg, q, o), k, ShownOf(b, lg, q, o), l)
<1> DEFINE A  == Chosen(a, lg, q, o)
           B  == Chosen(b, lg, q, o)
           C  == Chosen(c, lg, q, o)
           ra == RowsOf(a, lg, q)
           rb == RowsOf(b, lg, q)
           rc == RowsOf(c, lg, q)
<1>0. m \in Nat /\ n \in Nat BY DEF IsJoin
<1>1. /\ \A i \in 1..m : i \in 1..m + n
      /\ \A i \in 1..n : m + i \in 1..m + n
      /\ \A i \in 1..m + n : i \in 1..m \/ (i - m \in 1..n /\ m + (i - m) = i)
  BY <1>0
<1>2. IsJoin(rc, ra, m, rb, n)
  <2>1. DOMAIN rc = 1..m + n /\ DOMAIN ra = 1..m /\ DOMAIN rb = 1..n
    BY DEF RowsOf, IsJoin
  <2>2. \A i \in 1..m : rc[i] = ra[i] BY <1>1 DEF RowsOf, IsJoin
  <2>3. \A i \in 1..n : rc[m + i] = rb[i] BY <1>1 DEF RowsOf, IsJoin
  <2> QED BY <1>0, <2>1, <2>2, <2>3 DEF IsJoin
<1>3. C = A \union Shift(B, m)
  <2>1. ASSUME NEW i \in C PROVE i \in A \union Shift(B, m)
    <3>1. i \in 1..m + n BY DEF Chosen, IsJoin
    <3>2. CASE i \in 1..m BY <3>2 DEF Chosen, IsJoin
    <3>3. CASE i \notin 1..m
      <4>1. i - m \in 1..n /\ m + (i - m) = i BY <1>1, <3>1, <3>3
      <4>2. c[i] = b[i - m] BY <4>1 DEF IsJoin
      <4>3. i - m \in B BY <4>1, <4>2 DEF Chosen, IsJoin
      <4> QED BY <4>1, <4>3 DEF Shift
    <3> QED BY <3>2, <3>3
  <2>2. ASSUME NEW i \in A PROVE i \in C BY <1>1 DEF Chosen, IsJoin
  <2>3. ASSUME NEW i \in B PROVE m + i \in C BY <1>1 DEF Chosen, IsJoin
  <2> QED BY <2>1, <2>2, <2>3 DEF Shift
<1>4. A \subseteq 1..m /\ B \subseteq 1..n BY DEF Chosen, IsJoin
<1> HIDE DEF A, B, C, ra, rb, rc
<1>5. IsJoin(Selection(rc, C), Selection(ra, A), Cardinality(A), Selection(rb, B), Cardinality(B))
  BY <1>2, <1>3, <1>4, SelectionJoins
<1> QED BY <1>5 DEF ShownOf, A, B, C, ra, rb, rc

LEMMA HitsJoin ==
    ASSUME NEW a, NEW b, NEW c, NEW m, NEW n, IsJoin(c, a, m, b, n)
    PROVE  \E k, l : IsJoin(Hits(c), Hits(a), k, Hits(b), l)
<1> DEFINE A  == Matching(a)
           B  == Matching(b)
           C  == Matching(c)
           na == Numbers(a)
           nb == Numbers(b)
           nc == Numbers(c)
<1>0. m \in Nat /\ n \in Nat BY DEF IsJoin
<1>1. /\ \A i \in 1..m : i \in 1..m + n
      /\ \A i \in 1..n : m + i \in 1..m + n
      /\ \A i \in 1..m + n : i \in 1..m \/ (i - m \in 1..n /\ m + (i - m) = i)
  BY <1>0
<1>2. IsJoin(nc, na, m, nb, n)
  <2>1. DOMAIN nc = 1..m + n /\ DOMAIN na = 1..m /\ DOMAIN nb = 1..n
    BY DEF Numbers, IsJoin
  <2>2. \A i \in 1..m : nc[i] = na[i] BY <1>1 DEF Numbers, IsJoin
  <2>3. \A i \in 1..n : nc[m + i] = nb[i] BY <1>1 DEF Numbers, IsJoin
  <2> QED BY <1>0, <2>1, <2>2, <2>3 DEF IsJoin
<1>3. C = A \union Shift(B, m)
  <2>1. ASSUME NEW i \in C PROVE i \in A \union Shift(B, m)
    <3>1. i \in 1..m + n BY DEF Matching, IsJoin
    <3>2. CASE i \in 1..m BY <3>2 DEF Matching, IsJoin
    <3>3. CASE i \notin 1..m
      <4>1. i - m \in 1..n /\ m + (i - m) = i BY <1>1, <3>1, <3>3
      <4>2. c[i] = b[i - m] BY <4>1 DEF IsJoin
      <4>3. i - m \in B BY <4>1, <4>2 DEF Matching, IsJoin
      <4> QED BY <4>1, <4>3 DEF Shift
    <3> QED BY <3>2, <3>3
  <2>2. ASSUME NEW i \in A PROVE i \in C BY <1>1 DEF Matching, IsJoin
  <2>3. ASSUME NEW i \in B PROVE m + i \in C BY <1>1 DEF Matching, IsJoin
  <2> QED BY <2>1, <2>2, <2>3 DEF Shift
<1>4. A \subseteq 1..m /\ B \subseteq 1..n BY DEF Matching, IsJoin
<1> HIDE DEF A, B, C, na, nb, nc
<1>5. IsJoin(Selection(nc, C), Selection(na, A), Cardinality(A), Selection(nb, B), Cardinality(B))
  BY <1>2, <1>3, <1>4, SelectionJoins
<1>6. IsJoin(Hits(c), Hits(a), Cardinality(A), Hits(b), Cardinality(B))
  BY <1>5, HitsAre DEF A, B, C, na, nb, nc
<1> QED BY <1>6

\* What a selection holds.
Typed(s, n, T)         == \A i \in 1..n : s[i] \in T
IsSelection(t, s, K, T) == t \in Seq(T) /\ \A j \in DOMAIN t : \E i \in K : t[j] = s[i]

LEMMA Selected ==
    ASSUME NEW n \in Nat, NEW s, NEW T, Typed(s, n, T), NEW K, K \subseteq 1..n
    PROVE  IsSelection(Selection(s, K), s, K, T)
<1> DEFINE c == Cardinality(K)
           t == Selection(s, K)
<1>1. c \in Nat /\ \A j \in 1..c : Nth(K, j) \in K BY Ranks
<1> HIDE DEF c
<1>2. t = [j \in 1..c |-> s[Nth(K, j)]] BY DEF Selection, c
<1>3. \A j \in 1..c : s[Nth(K, j)] \in T BY <1>1 DEF Typed
<1> HIDE DEF t
<1>4. t \in Seq(T) BY <1>1, <1>2, <1>3
<1>5. \A j \in DOMAIN t : \E i \in K : t[j] = s[i] BY <1>1, <1>2
<1> QED BY <1>4, <1>5 DEF t, IsSelection

\* Rows whose texts are in T.
RowsIn(T)  == [seq : Nat, text : T, hit : BOOLEAN]
LinesIn(T) == [seq : Nat, text : T]

LEMMA ShownRows ==
    ASSUME NEW T, NEW lines \in Seq(LinesIn(T)), NEW lg, NEW q, NEW o
    PROVE  /\ ShownOf(lines, lg, q, o) \in Seq(RowsIn(T))
           /\ \A j \in DOMAIN ShownOf(lines, lg, q, o) :
                 \E i \in DOMAIN lines : ShownOf(lines, lg, q, o)[j].seq = lines[i].seq
<1> DEFINE n    == Len(lines)
           rows == RowsOf(lines, lg, q)
           K    == Chosen(lines, lg, q, o)
           t    == Selection(rows, K)
<1>1. n \in Nat /\ DOMAIN lines = 1..n /\ \A i \in 1..n : lines[i] \in LinesIn(T) OBVIOUS
<1>2. K \subseteq 1..n BY <1>1 DEF Chosen
<1>3. \A i \in 1..n : rows[i] = RowOf(lines[i], lg, q) BY <1>1 DEF RowsOf
<1>4. \A i \in 1..n : RowOf(lines[i], lg, q) \in RowsIn(T)
  <2> SUFFICES ASSUME NEW i \in 1..n PROVE RowOf(lines[i], lg, q) \in RowsIn(T)
    OBVIOUS
  <2>1. lines[i].seq \in Nat /\ lines[i].text \in T BY <1>1 DEF LinesIn
  <2>2. Finds(lines[i].text, lg, q) \in BOOLEAN BY DEF Finds
  <2> QED BY <2>1, <2>2 DEF RowOf, RowsIn
<1> HIDE DEF n, rows, K
<1>5. /\ t \in Seq(RowsIn(T))
      /\ \A j \in DOMAIN t : \E i \in K : t[j] = rows[i]
  <2>1. n \in Nat /\ Typed(rows, n, RowsIn(T)) BY <1>1, <1>3, <1>4 DEF Typed
  <2>2. IsSelection(t, rows, K, RowsIn(T)) BY <1>2, <2>1, Selected
  <2> QED BY <2>2 DEF IsSelection
<1> HIDE DEF t
<1>6. \A i \in 1..n : rows[i].seq = lines[i].seq
  <2>1. \A i \in 1..n : RowOf(lines[i], lg, q).seq = lines[i].seq BY DEF RowOf
  <2> QED BY <1>3, <2>1
<1>7. \A j \in DOMAIN t : \E i \in DOMAIN lines : t[j].seq = lines[i].seq
  BY <1>1, <1>2, <1>5, <1>6
<1> QED BY <1>5, <1>7 DEF ShownOf, t, rows, K

LEMMA HitNumbers ==
    ASSUME NEW T, NEW rows \in Seq(RowsIn(T))
    PROVE  /\ Hits(rows) \in Seq(Nat)
           /\ \A j \in DOMAIN Hits(rows) : \E i \in DOMAIN rows : Hits(rows)[j] = rows[i].seq
<1> DEFINE n    == Len(rows)
           nums == Numbers(rows)
           K    == Matching(rows)
           t    == Selection(nums, K)
<1>1. n \in Nat /\ DOMAIN rows = 1..n /\ \A i \in 1..n : rows[i] \in RowsIn(T) OBVIOUS
<1>2. K \subseteq 1..n BY <1>1 DEF Matching
<1>3. \A i \in 1..n : nums[i] = rows[i].seq BY <1>1 DEF Numbers
<1>4. \A i \in 1..n : nums[i] \in Nat BY <1>1, <1>3 DEF RowsIn
<1> HIDE DEF n, nums, K
<1>5. t \in Seq(Nat) /\ \A j \in DOMAIN t : \E i \in K : t[j] = nums[i]
  <2>1. n \in Nat /\ Typed(nums, n, Nat) BY <1>1, <1>4 DEF Typed
  <2>2. IsSelection(t, nums, K, Nat) BY <1>2, <2>1, Selected
  <2> QED BY <2>2 DEF IsSelection
<1>6. t = Hits(rows) BY HitsAre DEF t, nums, K
<1> HIDE DEF t
<1>7. \A j \in DOMAIN t : \E i \in DOMAIN rows : t[j] = rows[i].seq
  BY <1>1, <1>2, <1>3, <1>5
<1> QED BY <1>5, <1>6, <1>7

\* What is shown of lines does not change when the log goes on.
LEMMA ShownStays ==
    ASSUME NEW L, NEW lg \in Seq(L), NEW x \in L,
           NEW lines \in Seq(LinesIn(Seq(1..Len(lg)))), NEW q, NEW o
    PROVE  ShownOf(lines, Append(lg, x), q, o) = ShownOf(lines, lg, q, o)
<1> DEFINE more == Append(lg, x)
<1>1. \A i \in 1..Len(lg) : more[i] = lg[i] OBVIOUS
<1> HIDE DEF more
<1>2. \A i \in DOMAIN lines : Finds(lines[i].text, more, q) = Finds(lines[i].text, lg, q)
  <2> SUFFICES ASSUME NEW i \in DOMAIN lines
               PROVE  Finds(lines[i].text, more, q) = Finds(lines[i].text, lg, q)
    OBVIOUS
  <2> DEFINE text == lines[i].text
  <2>1. text \in Seq(1..Len(lg))
    <3>1. lines[i] \in LinesIn(Seq(1..Len(lg))) OBVIOUS
    <3> QED BY <3>1 DEF LinesIn
  <2> HIDE DEF text
  <2>2. \A j \in 1..Len(text) : more[text[j]] = lg[text[j]] BY <1>1, <2>1
  <2>3. Finds(text, more, q) = Finds(text, lg, q) BY <2>2 DEF Finds
  <2> QED BY <2>3 DEF text
<1>3. RowsOf(lines, more, q) = RowsOf(lines, lg, q) BY <1>2 DEF RowsOf, RowOf
<1>4. Chosen(lines, more, q, o) = Chosen(lines, lg, q, o) BY <1>2 DEF Chosen
<1> QED BY <1>3, <1>4 DEF ShownOf, more
-----------------------------------------------------------------------------
\* A buffer that is numbered, and one that shows its lines.
Numbered(raw, next) ==
    /\ \A i \in DOMAIN raw : raw[i].seq < next
    /\ \A i, j \in DOMAIN raw : i <= j => raw[i].seq <= raw[j].seq

Viewed(raw, view, hits, next) ==
    /\ raw \in Seq(LinesIn(Texts)) /\ view \in Seq(RowsIn(Texts))
    /\ hits \in Seq(Nat) /\ next \in Nat
    /\ Numbered(raw, next)

Shows(raw, view, hits, lg, q, o) ==
    /\ IsEnding(ShownOf(raw, lg, q, o), view)
    /\ IsEnding(Hits(ShownOf(raw, lg, q, o)), hits)

\* Lines are appended, each with the next number.
LEMMA Appended ==
    ASSUME NEW raw, NEW view, NEW hits, NEW next, Viewed(raw, view, hits, next),
           NEW texts \in Seq(Texts), NEW lg, NEW q, NEW o
    PROVE  LET lines == [i \in DOMAIN texts |-> [seq |-> next + i - 1, text |-> texts[i]]]
               new   == ShownOf(lines, lg, q, o) IN
           /\ Viewed(raw \o lines, view \o new, hits \o Hits(new), next + Len(texts))
           /\ Shows(raw, view, hits, lg, q, o)
                 => Shows(raw \o lines, view \o new, hits \o Hits(new), lg, q, o)
<1> DEFINE lines == [i \in DOMAIN texts |-> [seq |-> next + i - 1, text |-> texts[i]]]
           new   == ShownOf(lines, lg, q, o)
           newHits == Hits(new)
           raw1  == raw \o lines
           view1 == view \o new
           hits1 == hits \o newHits
           m == Len(raw)
           n == Len(texts)
<1>1. /\ raw \in Seq(LinesIn(Texts)) /\ view \in Seq(RowsIn(Texts))
      /\ hits \in Seq(Nat) /\ next \in Nat /\ Numbered(raw, next)
      /\ m \in Nat /\ DOMAIN raw = 1..m
  BY DEF Viewed
<1>2. DOMAIN texts = 1..n /\ n \in Nat OBVIOUS
<1>3. lines \in Seq(LinesIn(Texts)) /\ Len(lines) = n /\ \A i \in 1..n : lines[i].seq = next + i - 1
  <2>1. \A i \in 1..n : [seq |-> next + i - 1, text |-> texts[i]] \in LinesIn(Texts)
    <3> SUFFICES ASSUME NEW i \in 1..n
                 PROVE  [seq |-> next + i - 1, text |-> texts[i]] \in LinesIn(Texts)
      OBVIOUS
    <3>1. next + i - 1 \in Nat BY <1>1, <1>2
    <3>2. texts[i] \in Texts BY <1>2
    <3> QED BY <3>1, <3>2 DEF LinesIn
  <2>2. lines = [i \in 1..n |-> [seq |-> next + i - 1, text |-> texts[i]]] BY <1>2
  <2>3. lines \in Seq(LinesIn(Texts)) /\ Len(lines) = n BY <1>2, <2>1, <2>2
  <2> QED BY <2>2, <2>3
<1> HIDE DEF lines, m, n
<1>4. IsJoin(raw1, raw, m, lines, n) /\ raw1 \in Seq(LinesIn(Texts))
  BY <1>1, <1>3, JoinOfSequences DEF m
<1>5. new \in Seq(RowsIn(Texts)) BY <1>3, ShownRows
<1> HIDE DEF new
<1>6. newHits \in Seq(Nat) BY <1>5, HitNumbers
<1> HIDE DEF newHits
<1>7. IsJoin(view1, view, Len(view), new, Len(new)) /\ view1 \in Seq(RowsIn(Texts))
  BY <1>1, <1>5, JoinOfSequences
<1>8. IsJoin(hits1, hits, Len(hits), newHits, Len(newHits)) /\ hits1 \in Seq(Nat)
  BY <1>1, <1>6, JoinOfSequences
<1> HIDE DEF raw1, view1, hits1
<1>9. next + n \in Nat BY <1>1, <1>2
<1>10. Numbered(raw1, next + n)
  <2>1. \A i \in 1..m : raw1[i].seq = raw[i].seq /\ raw[i].seq \in Nat /\ raw[i].seq < next
    <3> SUFFICES ASSUME NEW i \in 1..m
                 PROVE  raw1[i].seq = raw[i].seq /\ raw[i].seq \in Nat /\ raw[i].seq < next
      OBVIOUS
    <3>1. raw1[i] = raw[i] BY <1>4 DEF IsJoin
    <3>2. raw[i] \in LinesIn(Texts) BY <1>1
    <3>3. raw[i].seq \in Nat BY <3>2 DEF LinesIn
    <3>4. raw[i].seq < next BY <1>1 DEF Numbered
    <3> QED BY <3>1, <3>3, <3>4
  <2>2. \A i \in 1..m + n : i \in 1..m \/ (i - m \in 1..n /\ m + (i - m) = i) BY <1>1, <1>2
  <2>3. \A i \in 1..n : raw1[m + i].seq = next + i - 1 BY <1>3, <1>4 DEF IsJoin
  <2>4. \A i \in 1..m + n : i \in 1..m \/ (i > m /\ raw1[i].seq = next + (i - m) - 1)
    <3> SUFFICES ASSUME NEW i \in 1..m + n, i \notin 1..m
                 PROVE  i > m /\ raw1[i].seq = next + (i - m) - 1
      OBVIOUS
    <3>1. i - m \in 1..n /\ m + (i - m) = i BY <2>2
    <3>2. raw1[m + (i - m)].seq = next + (i - m) - 1 BY <2>3, <3>1
    <3>3. i > m BY <1>1
    <3> QED BY <3>1, <3>2, <3>3
  <2>5. DOMAIN raw1 = 1..m + n BY <1>4 DEF IsJoin
  <2>6. ASSUME NEW i \in 1..m + n PROVE raw1[i].seq < next + n
    <3>1. CASE i \in 1..m
      <4>1. raw1[i].seq \in Nat /\ raw1[i].seq < next BY <2>1, <3>1
      <4> QED BY <1>1, <1>2, <4>1
    <3>2. CASE i \notin 1..m
      <4>1. i > m /\ raw1[i].seq = next + (i - m) - 1 BY <2>4, <3>2
      <4> QED BY <1>1, <1>2, <4>1
    <3> QED BY <3>1, <3>2
  <2>7. ASSUME NEW i \in 1..m + n, NEW j \in 1..m + n, i <= j PROVE raw1[i].seq <= raw1[j].seq
    <3>1. CASE j \in 1..m
      <4>1. i \in 1..m BY <1>1, <2>7, <3>1
      <4> QED BY <1>1, <2>1, <2>7, <3>1, <4>1 DEF Numbered
    <3>2. CASE j \notin 1..m
      <4>1. j > m /\ raw1[j].seq = next + (j - m) - 1 BY <2>4, <3>2
      <4>2. CASE i \in 1..m
        <5>1. raw1[i].seq \in Nat /\ raw1[i].seq < next BY <2>1, <4>2
        <5> QED BY <1>1, <1>2, <4>1, <5>1
      <4>3. CASE i \notin 1..m
        <5>1. i > m /\ raw1[i].seq = next + (i - m) - 1 BY <2>4, <4>3
        <5> QED BY <1>1, <1>2, <2>7, <4>1, <5>1
      <4> QED BY <4>2, <4>3
    <3> QED BY <3>1, <3>2
  <2> QED BY <2>5, <2>6, <2>7 DEF Numbered
<1>11. Viewed(raw1, view1, hits1, next + n)
  BY <1>4, <1>7, <1>8, <1>9, <1>10 DEF Viewed
<1>12. ASSUME Shows(raw, view, hits, lg, q, o) PROVE Shows(raw1, view1, hits1, lg, q, o)
  <2> DEFINE old == ShownOf(raw, lg, q, o)
             all == ShownOf(raw1, lg, q, o)
  <2>1. PICK k, l : IsJoin(all, old, k, new, l) BY <1>4, ShownJoins DEF new
  <2> HIDE DEF old, all
  <2>2. PICK x, y : IsJoin(Hits(all), Hits(old), x, newHits, y) BY <2>1, HitsJoin DEF newHits
  <2>3. IsEnding(old, view) /\ IsEnding(Hits(old), hits) BY <1>12 DEF Shows, old
  <2>4. IsEnding(all, view1) BY <1>7, <2>1, <2>3, EndingGrows
  <2>5. IsEnding(Hits(all), hits1) BY <1>8, <2>2, <2>3, EndingGrows
  <2> QED BY <2>4, <2>5 DEF Shows, all
<1> QED BY <1>11, <1>12 DEF raw1, view1, hits1, newHits, new, lines, n

\* The oldest lines are evicted, and no row of a line that is left.
LEMMA Evicted ==
    ASSUME NEW raw, NEW view, NEW hits, NEW next, Viewed(raw, view, hits, next),
           NEW lg, NEW q, NEW o
    PROVE  \E raw1, view1, hits1 :
              /\ Evict(raw, view, hits, next)
                    = [raw |-> raw1, view |-> view1, matches |-> hits1, next |-> next]
              /\ Viewed(raw1, view1, hits1, next)
              /\ Shows(raw, view, hits, lg, q, o) => Shows(raw1, view1, hits1, lg, q, o)
<1>1. CASE ~Full(raw) BY <1>1 DEF Evict
<1>2. CASE Full(raw)
  <2> DEFINE k       == Len(raw) - BufferSize
             m       == BufferSize
             first   == raw[k + 1].seq
             last    == SubSeq(raw, k + 1, Len(raw))
             evicted == SubSeq(raw, 1, k)
             numbers == [i \in DOMAIN view |-> view[i].seq]
             view1   == KeptFrom(first, view, numbers)
             hits1   == KeptFrom(first, hits, hits)
  <2>1. Evict(raw, view, hits, next)
          = [raw |-> last, view |-> view1, matches |-> hits1, next |-> next]
    BY <1>2 DEF Evict
  <2>2. /\ raw \in Seq(LinesIn(Texts)) /\ view \in Seq(RowsIn(Texts))
        /\ hits \in Seq(Nat) /\ next \in Nat /\ Numbered(raw, next)
        /\ Len(raw) \in Nat /\ DOMAIN raw = 1..Len(raw)
    BY DEF Viewed
  <2>3. m \in Nat /\ m > 0 /\ k \in Nat /\ k > 0 /\ Len(raw) = k + m
    BY <1>2, <2>2, LogViewAssumption DEF Full
  <2> HIDE DEF k, m
  <2>4. /\ last \in Seq(LinesIn(Texts)) /\ DOMAIN last = 1..m
        /\ \A i \in 1..m : last[i] = raw[k + i]
        /\ DOMAIN evicted = 1..k /\ \A i \in 1..k : evicted[i] = raw[i]
    BY <2>2, <2>3
  <2> HIDE DEF last, evicted
  <2>5. IsJoin(raw, evicted, k, last, m) BY <2>2, <2>3, <2>4 DEF IsJoin
  <2>6. Numbered(last, next)
    <3>1. \A i \in 1..m : k + i \in 1..k + m BY <2>3
    <3>2. \A i, j \in 1..m : i <= j => k + i <= k + j BY <2>3
    <3>3. \A i \in 1..m : last[i].seq < next BY <2>2, <2>3, <2>4, <3>1 DEF Numbered
    <3>4. \A i, j \in 1..m : i <= j => last[i].seq <= last[j].seq
      BY <2>2, <2>3, <2>4, <3>1, <3>2 DEF Numbered
    <3> QED BY <2>4, <3>3, <3>4 DEF Numbered
  <2>7. \A i \in 1..m : last[i].seq >= first
    <3> SUFFICES ASSUME NEW i \in 1..m PROVE last[i].seq >= first
      OBVIOUS
    <3>1. k + 1 \in 1..k + m /\ k + i \in 1..k + m /\ k + 1 <= k + i BY <2>3
    <3>2. raw[k + 1].seq <= raw[k + i].seq BY <2>2, <2>3, <3>1 DEF Numbered
    <3>3. raw[k + 1] \in LinesIn(Texts) /\ raw[k + i] \in LinesIn(Texts) BY <2>2, <2>3, <3>1
    <3>4. raw[k + 1].seq \in Nat /\ raw[k + i].seq \in Nat BY <3>3 DEF LinesIn
    <3> QED BY <2>4, <3>2, <3>4
  <2> HIDE DEF first
  <2> DEFINE all  == ShownOf(raw, lg, q, o)
             rows == ShownOf(last, lg, q, o)
             nums == Hits(rows)
  <2>8. /\ rows \in Seq(RowsIn(Texts))
        /\ \A j \in DOMAIN rows : \E i \in DOMAIN last : rows[j].seq = last[i].seq
    <3>1. last \in Seq(LinesIn(Texts)) BY <2>4
    <3> QED BY <3>1, ShownRows
  <2>9. \A j \in DOMAIN rows : rows[j].seq >= first BY <2>4, <2>7, <2>8
  <2>10. PICK x, y : IsJoin(all, ShownOf(evicted, lg, q, o), x, rows, y) BY <2>5, ShownJoins
  <2> HIDE DEF rows, all
  <2>11. IsEnding(rows, all) BY <2>10, EndOfJoin
  <2>12. PICK z, w : IsJoin(Hits(all), Hits(ShownOf(evicted, lg, q, o)), z, nums, w)
    BY <2>10, HitsJoin
  <2>13. /\ nums \in Seq(Nat)
         /\ \A j \in DOMAIN nums : \E i \in DOMAIN rows : nums[j] = rows[i].seq
    BY <2>8, HitNumbers
  <2> HIDE DEF nums
  <2>14. IsEnding(nums, Hits(all)) BY <2>12, EndOfJoin
  <2>15. \A j \in DOMAIN nums : nums[j] >= first BY <2>9, <2>13
  <2>16. \A i \in DOMAIN view : numbers[i] = view[i].seq OBVIOUS
  <2> HIDE DEF numbers
  <2>17. ASSUME NEW s, IsEnding(s, view), \A j \in DOMAIN s : s[j].seq >= first
         PROVE  view1 \in Seq(RowsIn(Texts)) /\ IsEnding(s, view1)
    <3>1. \A i \in DOMAIN view, j \in DOMAIN s : s[j] = view[i] => numbers[i] >= first
      BY <2>16, <2>17
    <3> QED BY <2>2, <2>17, <3>1, KeepsEnding
  <2>18. ASSUME NEW s, IsEnding(s, hits), \A j \in DOMAIN s : s[j] >= first
         PROVE  hits1 \in Seq(Nat) /\ IsEnding(s, hits1)
    <3>1. \A i \in DOMAIN hits, j \in DOMAIN s : s[j] = hits[i] => hits[i] >= first
      BY <2>18
    <3> QED BY <2>2, <2>18, <3>1, KeepsEnding
  <2> HIDE DEF view1, hits1
  <2>19. view1 \in Seq(RowsIn(Texts)) /\ hits1 \in Seq(Nat)
    <3>1. \A S : \A t \in Seq(S) : IsEnding(<<>>, t)
      <4> SUFFICES ASSUME NEW S, NEW t \in Seq(S) PROVE IsEnding(<<>>, t)
        OBVIOUS
      <4> DEFINE d == Len(t)
                 e == 0
      <4>1. d \in Nat /\ e \in Nat /\ DOMAIN <<>> = 1..e /\ DOMAIN t = 1..d + e OBVIOUS
      <4>2. \A i \in 1..e : <<>>[i] = t[d + i] OBVIOUS
      <4> HIDE DEF d, e
      <4> QED BY <4>1, <4>2 DEF IsEnding
    <3>2. IsEnding(<<>>, view) /\ IsEnding(<<>>, hits) BY <2>2, <3>1
    <3>3. \A j \in DOMAIN <<>> : <<>>[j].seq >= first /\ <<>>[j] >= first OBVIOUS
    <3> QED BY <2>17, <2>18, <3>2, <3>3
  <2>20. ASSUME Shows(raw, view, hits, lg, q, o) PROVE Shows(last, view1, hits1, lg, q, o)
    <3>1. IsEnding(all, view) /\ IsEnding(Hits(all), hits) BY <2>20 DEF Shows, all
    <3>2. IsEnding(rows, view) /\ IsEnding(nums, hits)
      BY <2>11, <2>14, <3>1, EndingIsTransitive
    <3>3. IsEnding(rows, view1) BY <2>9, <2>17, <3>2
    <3>4. IsEnding(nums, hits1) BY <2>15, <2>18, <3>2
    <3> QED BY <3>3, <3>4 DEF Shows, rows, nums
  <2>21. Viewed(last, view1, hits1, next) BY <2>2, <2>4, <2>6, <2>19 DEF Viewed
  <2> QED BY <2>1, <2>20, <2>21
<1> QED BY <1>1, <1>2

\* Lines are applied.
LEMMA AppliedShows ==
    ASSUME NEW b, Viewed(b.raw, b.view, b.matches, b.next), NEW texts \in Seq(Texts)
    PROVE  LET c == Apply(b, texts) IN
           /\ Viewed(c.raw, c.view, c.matches, c.next)
           /\ Shows(b.raw, b.view, b.matches, log, query, only)
                 => Shows(c.raw, c.view, c.matches, log, query, only)
<1> DEFINE c     == Apply(b, texts)
           lines == [i \in DOMAIN texts |-> [seq |-> b.next + i - 1, text |-> texts[i]]]
           new   == ShownOf(lines, log, query, only)
           raw   == b.raw \o lines
           view  == b.view \o new
           hits  == b.matches \o Hits(new)
           next  == b.next + Len(texts)
<1>1. c = Evict(raw, view, hits, next) BY ShownIs DEF Apply
<1>2. /\ Viewed(raw, view, hits, next)
      /\ Shows(b.raw, b.view, b.matches, log, query, only) => Shows(raw, view, hits, log, query, only)
  BY Appended
<1> HIDE DEF c, raw, view, hits, next
<1>3. PICK raw1, view1, hits1 :
         /\ c = [raw |-> raw1, view |-> view1, matches |-> hits1, next |-> next]
         /\ Viewed(raw1, view1, hits1, next)
         /\ Shows(raw, view, hits, log, query, only) => Shows(raw1, view1, hits1, log, query, only)
  BY <1>1, <1>2, Evicted
<1>4. c.raw = raw1 /\ c.view = view1 /\ c.matches = hits1 /\ c.next = next BY <1>3
<1> QED BY <1>2, <1>3, <1>4 DEF c
-----------------------------------------------------------------------------
(***************************************************************************)
(* The rows on the screen.  Outside a rebuild they end with what the       *)
(* buffer shows; a rebuild has the rows of the lines it has scanned, and   *)
(* those lines do not change under it.                                     *)
(***************************************************************************)
Rebuilds == [on : BOOLEAN, pos : Nat, rows : Seq(RowsIn(Texts)), committed : Nat]

Inputs ==
    /\ Len(log) <= MaxTokens
    /\ ended \in BOOLEAN
    /\ query \in Kinds \union {Blank}
    /\ only \in BOOLEAN
    /\ changes \in 0..MaxChanges

Scanned ==
    /\ rebuild.pos <= Len(buf.raw)
    /\ rebuild.rows = ShownOf(SubSeq(buf.raw, 1, rebuild.pos), log, query, only)

OnScreen ==
    /\ Viewed(buf.raw, buf.view, buf.matches, buf.next)
    /\ rebuild \in Rebuilds
    /\ rebuild.on => Scanned
    /\ ~rebuild.on => /\ rebuild = Idle
                      /\ Shows(buf.raw, buf.view, buf.matches, log, query, only)

ViewInv == Inputs /\ OnScreen

LEMMA TextWithin ==
    ASSUME NEW n \in Nat, NEW text \in Seq(Nat), Range(text) \subseteq 1..n
    PROVE  text \in Seq(1..n)
<1>1. \A i \in 1..Len(text) : text[i] \in 1..n BY DEF Range
<1> QED BY <1>1

LEMMA TextsWithin ==
    ASSUME NEW n \in Nat, NEW texts \in Seq(Seq(Nat)), Tokens(texts) \subseteq 1..n
    PROVE  texts \in Seq(Seq(1..n))
<1>1. DOMAIN texts = 1..Len(texts) /\ \A i \in 1..Len(texts) : texts[i] \in Seq(Nat) OBVIOUS
<1>2. \A i \in 1..Len(texts) : Range(texts[i]) \subseteq 1..n BY <1>1 DEF Tokens
<1>3. \A i \in 1..Len(texts) : texts[i] \in Seq(1..n) BY <1>1, <1>2, TextWithin
<1> QED BY <1>1, <1>3

LEMMA LinesWithin ==
    ASSUME NEW n \in Nat, NEW raw \in Seq(BufferLines), Tokens(TextsOf(raw)) \subseteq 1..n
    PROVE  raw \in Seq(LinesIn(Seq(1..n)))
<1>1. TextsOf(raw) \in Seq(Seq(Nat)) /\ Len(TextsOf(raw)) = Len(raw) BY RawTexts
<1>2. TextsOf(raw) \in Seq(Seq(1..n)) BY <1>1, TextsWithin
<1>3. \A i \in 1..Len(raw) : TextsOf(raw)[i] \in Seq(1..n) BY <1>1, <1>2
<1>4. \A i \in 1..Len(raw) : raw[i].text \in Seq(1..n)
  <2>1. \A i \in 1..Len(raw) : TextsOf(raw)[i] = raw[i].text BY DEF TextsOf
  <2> QED BY <1>3, <2>1
<1>5. \A i \in 1..Len(raw) : raw[i] \in BufferLines OBVIOUS
<1>6. \A i \in 1..Len(raw) : raw[i] \in LinesIn(Seq(1..n)) BY <1>4, <1>5 DEF BufferLines, LinesIn
<1> QED BY <1>6

\* Nothing is held but tokens of the log.
LEMMA HeldIsOfTheLog ==
    ASSUME TextInv, Len(log) <= MaxTokens
    PROVE  /\ buf.raw \in Seq(LinesIn(Seq(1..Len(log))))
           /\ late \in Seq(Texts) /\ partial \in Texts /\ pending \in Seq(Texts)
           /\ \A e \in DOMAIN emitted : emitted[e].lines \in Seq(Texts)
<1>1. Len(log) \in Nat /\ MaxTokens \in Nat
  <2>1. log \in Seq([kind : Kinds \union {Blank}, partial : BOOLEAN]) BY DEF TextInv, Places
  <2> QED BY <2>1, LogViewAssumption
<1>2. Held \subseteq 1..Len(log) BY DEF TextInv, Places, NewestHeld
<1>3. Held \subseteq 1..MaxTokens BY <1>1, <1>2
<1>4. /\ buf.raw \in Seq(BufferLines) /\ late \in Seq(Seq(Nat)) /\ partial \in Seq(Nat)
      /\ pending \in Seq(Seq(Nat)) /\ emitted \in Seq(Events)
  BY DEF TextInv, Places, Buffers, Queued
<1>5. buf.raw \in Seq(LinesIn(Seq(1..Len(log))))
  <2>1. Tokens(TextsOf(buf.raw)) \subseteq 1..Len(log) BY <1>2 DEF Held, Raw
  <2> QED BY <1>1, <1>4, <2>1, LinesWithin
<1>6. late \in Seq(Texts) BY <1>1, <1>3, <1>4, TextsWithin DEF Held, Texts
<1>7. pending \in Seq(Texts) BY <1>1, <1>3, <1>4, TextsWithin DEF Held, Texts
<1>8. partial \in Texts BY <1>1, <1>3, <1>4, TextWithin DEF Held, Texts
<1>9. ASSUME NEW e \in DOMAIN emitted PROVE emitted[e].lines \in Seq(Texts)
  <2>1. emitted[e].lines \in Seq(Seq(Nat))
    <3>1. emitted[e] \in Events BY <1>4
    <3> QED BY <3>1 DEF Events
  <2>2. Tokens(emitted[e].lines) \subseteq 1..MaxTokens BY <1>3 DEF Held, Carried
  <2> QED BY <1>1, <2>1, <2>2, TextsWithin DEF Texts
<1> QED BY <1>5, <1>6, <1>7, <1>8, <1>9

LEMMA ShownNothing ==
    /\ \A lg, q, o : ShownOf(<<>>, lg, q, o) = <<>>
    /\ Hits(<<>>) = <<>>
    /\ IsEnding(<<>>, <<>>)
<1>1. \A s, K : K = {} => Selection(s, K) = <<>> BY FS_EmptySet DEF Selection
<1>2. \A lg, q, o : Chosen(<<>>, lg, q, o) = {} BY DEF Chosen
<1>3. Matching(<<>>) = {} BY DEF Matching
<1>4. IsEnding(<<>>, <<>>)
  <2> DEFINE n == 0
  <2>1. n \in Nat /\ DOMAIN <<>> = 1..n /\ DOMAIN <<>> = 1..n + n OBVIOUS
  <2>2. \A i \in 1..n : <<>>[i] = <<>>[n + i] OBVIOUS
  <2> HIDE DEF n
  <2> QED BY <2>1, <2>2 DEF IsEnding
<1> QED BY <1>1, <1>2, <1>3, <1>4, HitsAre DEF ShownOf

LEMMA NothingShows ==
    ASSUME NEW lg, NEW q, NEW o
    PROVE  Shows(<<>>, <<>>, <<>>, lg, q, o) /\ Viewed(<<>>, <<>>, <<>>, 0)
<1>1. Shows(<<>>, <<>>, <<>>, lg, q, o) BY ShownNothing DEF Shows
<1>2. Viewed(<<>>, <<>>, <<>>, 0) BY DEF Viewed, Numbered
<1> QED BY <1>1, <1>2

LEMMA IdleIsRebuild == Idle \in Rebuilds /\ [Idle EXCEPT !.on = TRUE] \in Rebuilds
<1> DEFINE S == Seq(RowsIn(Texts))
<1>1. <<>> \in S OBVIOUS
<1> HIDE DEF S
<1>2. Idle \in [on : BOOLEAN, pos : Nat, rows : S, committed : Nat] BY <1>1 DEF Idle
<1>3. [Idle EXCEPT !.on = TRUE] \in [on : BOOLEAN, pos : Nat, rows : S, committed : Nat]
  BY <1>1 DEF Idle
<1> QED BY <1>2, <1>3 DEF Rebuilds, S

LEMMA ViewInitially == TextInit => ViewInv
<1> SUFFICES ASSUME TextInit PROVE ViewInv
  OBVIOUS
<1>1. Inputs
  <2>1. MaxTokens \in Nat /\ MaxChanges \in Nat BY LogViewAssumption
  <2>2. Len(log) = 0 /\ changes = 0 BY DEF TextInit
  <2>3. Len(log) <= MaxTokens /\ changes \in 0..MaxChanges BY <2>1, <2>2
  <2> QED BY <2>3 DEF TextInit, Inputs
<1>2. buf = Empty /\ rebuild = Idle BY DEF TextInit
<1>3. buf.raw = <<>> /\ buf.view = <<>> /\ buf.matches = <<>> /\ buf.next = 0 BY <1>2 DEF Empty
<1>4. ~rebuild.on BY <1>2 DEF Idle
<1>5. OnScreen BY <1>2, <1>3, <1>4, IdleIsRebuild, NothingShows DEF OnScreen
<1> QED BY <1>1, <1>5 DEF ViewInv

\* The pump reads on: what is shown of the lines on the screen stays.
LEMMA PumpKeepsView ==
    ASSUME TextInv, ViewInv,
           \/ \E kind \in Kinds \union {Blank} : TakeLine(kind)
           \/ \E kind \in Kinds : TakePiece(kind)
           \/ Tick
           \/ ScanEnds
    PROVE  ViewInv'
<1> DEFINE L == [kind : Kinds \union {Blank}, partial : BOOLEAN]
<1>1. log \in Seq(L) BY DEF TextInv, Places
<1>2. UNCHANGED <<buf, rebuild, query, only, changes>>
  BY DEF TakeLine, TakePiece, Read, Tick, ScanEnds, screen, user
<1>3. ended' \in BOOLEAN
  BY DEF TakeLine, TakePiece, Read, Tick, ScanEnds, ViewInv, Inputs
<1>4. log' = log \/ \E x \in L : log' = Append(log, x) /\ Len(log) < MaxTokens
  <2>1. ASSUME NEW kind \in Kinds \union {Blank}, NEW p \in BOOLEAN, Read(kind, p)
        PROVE  \E x \in L : log' = Append(log, x) /\ Len(log) < MaxTokens
    <3> DEFINE x == [kind |-> kind, partial |-> p]
    <3>1. x \in L /\ log' = Append(log, x) /\ Len(log) < MaxTokens BY <2>1 DEF Read
    <3> QED BY <3>1
  <2>2. ASSUME Tick \/ ScanEnds PROVE log' = log BY <2>2 DEF Tick, ScanEnds
  <2> QED BY <2>1, <2>2 DEF TakeLine, TakePiece
<1> HIDE DEF L
<1>5. Len(log') <= MaxTokens
  <2>1. CASE log' = log BY <2>1 DEF ViewInv, Inputs
  <2>2. ASSUME NEW x \in L, log' = Append(log, x), Len(log) < MaxTokens
        PROVE  Len(log') <= MaxTokens
    <3>1. Len(log') = Len(log) + 1 /\ Len(log) \in Nat BY <1>1, <2>2
    <3> QED BY <2>2, <3>1, LogViewAssumption
  <2> QED BY <1>4, <2>1, <2>2
<1>6. Inputs' BY <1>2, <1>3, <1>5 DEF ViewInv, Inputs
<1>7. ASSUME NEW lines \in Seq(LinesIn(Seq(1..Len(log))))
      PROVE  ShownOf(lines, log', query, only) = ShownOf(lines, log, query, only)
  <2>1. CASE log' = log BY <2>1
  <2>2. ASSUME NEW x \in L, log' = Append(log, x)
        PROVE  ShownOf(lines, log', query, only) = ShownOf(lines, log, query, only)
    BY <1>1, <2>2, ShownStays
  <2> QED BY <1>4, <2>1, <2>2
<1>8. buf.raw \in Seq(LinesIn(Seq(1..Len(log)))) BY HeldIsOfTheLog DEF ViewInv, Inputs
<1>9. ASSUME rebuild.on PROVE Scanned'
  <2> DEFINE lines == SubSeq(buf.raw, 1, rebuild.pos)
  <2>1. Scanned /\ rebuild.pos \in Nat BY <1>9 DEF ViewInv, OnScreen, Rebuilds
  <2>2. lines \in Seq(LinesIn(Seq(1..Len(log)))) BY <1>8, <2>1 DEF Scanned
  <2> HIDE DEF lines
  <2>3. ShownOf(lines, log', query, only) = ShownOf(lines, log, query, only) BY <1>7, <2>2
  <2> QED BY <1>2, <2>1, <2>3 DEF Scanned, lines
<1>10. ASSUME ~rebuild.on
       PROVE  Shows(buf.raw, buf.view, buf.matches, log', query, only)
  <2>1. ShownOf(buf.raw, log', query, only) = ShownOf(buf.raw, log, query, only) BY <1>7, <1>8
  <2>2. Shows(buf.raw, buf.view, buf.matches, log, query, only) BY <1>10 DEF ViewInv, OnScreen
  <2> QED BY <2>1, <2>2 DEF Shows
<1>11. OnScreen' BY <1>2, <1>9, <1>10 DEF ViewInv, OnScreen
<1> QED BY <1>6, <1>11 DEF ViewInv

\* Texts are pushed: outside a rebuild they are shown, during one they wait.
LEMMA PushKeepsView ==
    ASSUME ViewInv, UNCHANGED <<log, ended, rebuild, query, only, changes>>,
           buf' = buf \/ \E texts \in Seq(Texts) : Push(texts)
    PROVE  ViewInv'
<1>1. Inputs' BY DEF ViewInv, Inputs
<1>2. CASE buf' = buf
  <2>1. Scanned => Scanned' BY <1>2 DEF Scanned
  <2>2. OnScreen' BY <1>2, <2>1 DEF ViewInv, OnScreen
  <2> QED BY <1>1, <2>2 DEF ViewInv
<1>3. ASSUME NEW texts \in Seq(Texts), Push(texts), buf' # buf PROVE ViewInv'
  <2>1. ~rebuild.on /\ buf' = Apply(buf, texts) BY <1>3 DEF Push
  <2>2. /\ Viewed(buf.raw, buf.view, buf.matches, buf.next)
        /\ Shows(buf.raw, buf.view, buf.matches, log, query, only)
        /\ rebuild = Idle /\ rebuild \in Rebuilds
    BY <2>1 DEF ViewInv, OnScreen
  <2>3. /\ Viewed(buf'.raw, buf'.view, buf'.matches, buf'.next)
        /\ Shows(buf'.raw, buf'.view, buf'.matches, log, query, only)
    BY <2>1, <2>2, AppliedShows
  <2>4. OnScreen' BY <2>1, <2>2, <2>3 DEF OnScreen
  <2> QED BY <1>1, <2>4 DEF ViewInv
<1> QED BY <1>2, <1>3

LEMMA ListenKeepsView ==
    ASSUME TextInv, ViewInv, Listen PROVE ViewInv'
<1>1. emitted # <<>> /\ UNCHANGED <<log, ended, rebuild, query, only, changes>>
  BY DEF Listen, OnBatch, OnPart, OnEnd, Hear, pump, user
<1> DEFINE ev == Head(emitted)
<1>2. /\ partial \in Seq(1..MaxTokens) /\ ev.lines \in Seq(Texts) /\ Formed(ev)
  <2>1. Queued(emitted) BY DEF TextInv, Places
  <2>2. emitted \in Seq(Events) BY <2>1 DEF Queued
  <2>3. 1 \in DOMAIN emitted /\ ev = emitted[1] BY <1>1, <2>2
  <2>4. partial \in Texts /\ \A e \in DOMAIN emitted : emitted[e].lines \in Seq(Texts)
    BY HeldIsOfTheLog DEF ViewInv, Inputs
  <2> QED BY <2>1, <2>3, <2>4, Heard DEF Texts
<1>3. \A text \in Texts : partial \o text \in Texts BY <1>2 DEF Texts
<1>4. \A text \in Texts : <<text>> \in Seq(Texts) OBVIOUS
<1>5. CASE OnBatch
  <2>1. CASE ev.lines = <<<<>>>> BY <1>1, <1>5, <2>1, PushKeepsView DEF OnBatch
  <2>2. CASE ev.lines # <<<<>>>>
    <3>1. ev.name = "batch" /\ ev.lines # <<>> BY <1>2, <1>5 DEF OnBatch, Hear, Formed
    <3> DEFINE line == partial \o ev.lines[1]
               rest == Tail(ev.lines)
    <3>2. Push(<<line>> \o rest) BY <1>5, <2>2 DEF OnBatch
    <3>3. ev.lines[1] \in Texts /\ rest \in Seq(Texts) BY <1>2, <3>1
    <3>4. line \in Texts BY <1>3, <3>3
    <3> HIDE DEF line, rest
    <3> DEFINE a == <<line>>
    <3>5. a \in Seq(Texts) BY <1>4, <3>4
    <3> HIDE DEF a
    <3>6. a \o rest \in Seq(Texts) BY <3>3, <3>5
    <3> QED BY <1>1, <3>2, <3>6, PushKeepsView DEF a
  <2> QED BY <2>1, <2>2
<1>6. CASE OnPart
  <2>1. ev.name = "part" /\ ev.lines = <<ev.lines[1]>> BY <1>2, <1>6 DEF OnPart, Hear, Formed
  <2> DEFINE line == partial \o ev.lines[1]
  <2>2. Push(<<line>>) \/ buf' = buf BY <1>6 DEF OnPart
  <2>3. ev.lines[1] \in Texts
    <3>1. Len(ev.lines) = 1 BY <2>1
    <3> QED BY <1>2, <3>1
  <2>4. <<line>> \in Seq(Texts) BY <1>3, <1>4, <2>3
  <2> HIDE DEF line
  <2> QED BY <1>1, <2>2, <2>4, PushKeepsView
<1>7. CASE OnEnd
  <2>1. Push(<<partial>>) \/ buf' = buf BY <1>7 DEF OnEnd
  <2>2. <<partial>> \in Seq(Texts) BY <1>2, <1>4 DEF Texts
  <2> QED BY <1>1, <2>1, <2>2, PushKeepsView
<1> QED BY <1>5, <1>6, <1>7 DEF Listen

LEMMA UserKeepsView ==
    ASSUME ViewInv, (\E q \in Kinds \union {Blank} : Search(q)) \/ Filter \/ Clear
    PROVE  ViewInv'
<1>1. /\ changes' = changes + 1 /\ changes < MaxChanges
      /\ UNCHANGED <<log, ended>>
      /\ query' \in Kinds \union {Blank} /\ only' \in BOOLEAN
  BY DEF Search, Filter, Clear, Change, pump, ViewInv, Inputs
<1>2. Inputs'
  <2>1. changes' \in 0..MaxChanges BY <1>1, LogViewAssumption DEF ViewInv, Inputs
  <2> QED BY <1>1, <2>1 DEF ViewInv, Inputs
<1>3. CASE (\E q \in Kinds \union {Blank} : Search(q)) \/ Filter
  <2>1. buf' = buf /\ rebuild' = [Idle EXCEPT !.on = TRUE]
    BY <1>3 DEF Search, Filter, Change
  <2>2. rebuild'.on /\ rebuild'.pos = 0 /\ rebuild'.rows = <<>> BY <2>1 DEF Idle
  <2>3. buf.raw \in Seq(LinesIn(Texts)) BY DEF ViewInv, OnScreen, Viewed
  <2>4. SubSeq(buf.raw, 1, 0) = <<>> /\ 0 <= Len(buf.raw) BY <2>3
  <2>5. Scanned' BY <2>1, <2>2, <2>4, ShownNothing DEF Scanned
  <2>6. OnScreen' BY <2>1, <2>2, <2>5, IdleIsRebuild DEF ViewInv, OnScreen
  <2> QED BY <1>2, <2>6 DEF ViewInv
<1>4. CASE Clear
  <2>1. buf' = Empty /\ rebuild' = Idle BY <1>4 DEF Clear
  <2>2. buf'.raw = <<>> /\ buf'.view = <<>> /\ buf'.matches = <<>> /\ buf'.next = 0
    BY <2>1 DEF Empty
  <2>3. ~rebuild'.on BY <2>1 DEF Idle
  <2>4. OnScreen' BY <2>1, <2>2, <2>3, IdleIsRebuild, NothingShows DEF OnScreen
  <2> QED BY <1>2, <2>4 DEF ViewInv
<1> QED BY <1>3, <1>4

\* The entries m + 1 to n of a sequence.
LEMMA Excerpt ==
    ASSUME NEW S, NEW s \in Seq(S), NEW m \in Nat, NEW n \in Nat, m <= n, n <= Len(s)
    PROVE  LET e == SubSeq(s, m + 1, n) IN
           e \in Seq(S) /\ DOMAIN e = 1..n - m /\ \A i \in 1..n - m : e[i] = s[m + i]
<1> DEFINE from == m + 1
           e    == SubSeq(s, from, n)
<1>1. \A i \in 1..n : s[i] \in S OBVIOUS
<1>2. from \in Int /\ n \in Int /\ (\A i \in from..n : s[i] \in S) /\ n - from + 1 = n - m
  BY <1>1
<1>3. (IF from <= n THEN n - from + 1 ELSE 0) = n - m OBVIOUS
<1>4. \A i \in 1..n - m : from + i - 1 = m + i OBVIOUS
<1>5. e \in Seq(S) /\ Len(e) = n - m /\ \A i \in 1..n - m : e[i] = s[from + i - 1]
  <2> HIDE DEF from
  <2>1. /\ e \in Seq(S)
        /\ Len(e) = IF from <= n THEN n - from + 1 ELSE 0
        /\ \A i \in 1..n - from + 1 : e[i] = s[from + i - 1]
    BY <1>2, SubSeqProperties
  <2> HIDE DEF e
  <2> QED BY <1>2, <1>3, <2>1
<1>6. DOMAIN e = 1..Len(e) BY <1>5
<1> HIDE DEF e, from
<1>7. e \in Seq(S) /\ DOMAIN e = 1..n - m /\ \A i \in 1..n - m : e[i] = s[m + i]
  BY <1>4, <1>5, <1>6
<1> QED BY <1>7 DEF e, from

\* The first n entries are the first m and those after them.
LEMMA ExcerptsJoin ==
    ASSUME NEW S, NEW s \in Seq(S), NEW m \in Nat, NEW n \in Nat, m <= n, n <= Len(s)
    PROVE  /\ IsJoin(SubSeq(s, 1, n), SubSeq(s, 1, m), m, SubSeq(s, m + 1, n), n - m)
           /\ SubSeq(s, 1, n) \in Seq(S) /\ SubSeq(s, 1, m) \in Seq(S)
           /\ SubSeq(s, m + 1, n) \in Seq(S)
<1> DEFINE a == SubSeq(s, 1, m)
           b == SubSeq(s, m + 1, n)
           c == SubSeq(s, 1, n)
           k == n - m
<1>1. b \in Seq(S) /\ DOMAIN b = 1..k /\ \A i \in 1..k : b[i] = s[m + i] BY Excerpt
<1>2. a \in Seq(S) /\ DOMAIN a = 1..m /\ \A i \in 1..m : a[i] = s[i]
  <2>1. m <= Len(s) /\ 0 \in Nat /\ 0 <= m OBVIOUS
  <2>2. SubSeq(s, 0 + 1, m) = a OBVIOUS
  <2> HIDE DEF a
  <2>3. a \in Seq(S) /\ DOMAIN a = 1..m - 0 /\ \A i \in 1..m - 0 : a[i] = s[0 + i]
    BY <2>1, <2>2, Excerpt
  <2>4. m - 0 = m /\ \A i \in 1..m : 0 + i = i OBVIOUS
  <2> QED BY <2>3, <2>4
<1>3. c \in Seq(S) /\ DOMAIN c = 1..n /\ \A i \in 1..n : c[i] = s[i]
  <2>1. 0 \in Nat /\ 0 <= n OBVIOUS
  <2>2. SubSeq(s, 0 + 1, n) = c OBVIOUS
  <2> HIDE DEF c
  <2>3. c \in Seq(S) /\ DOMAIN c = 1..n - 0 /\ \A i \in 1..n - 0 : c[i] = s[0 + i]
    BY <2>1, <2>2, Excerpt
  <2>4. n - 0 = n /\ \A i \in 1..n : 0 + i = i OBVIOUS
  <2> QED BY <2>3, <2>4
<1>4. k \in Nat /\ n = m + k OBVIOUS
<1> HIDE DEF a, b, c, k
<1>5. \A i \in 1..m : i \in 1..n BY <1>4
<1>6. \A i \in 1..k : m + i \in 1..n BY <1>4
<1>7. IsJoin(c, a, m, b, k)
  BY <1>1, <1>2, <1>3, <1>4, <1>5, <1>6 DEF IsJoin
<1> QED BY <1>1, <1>2, <1>3, <1>7 DEF a, b, c, k

LEMMA FrameKeepsView ==
    ASSUME TextInv, ViewInv, Frame PROVE ViewInv'
<1> DEFINE raw == buf.raw
           Now(lines) == ShownOf(lines, log, query, only)
<1>1. rebuild.on /\ UNCHANGED <<log, ended, query, only, changes>> BY DEF Frame, pump, user
<1>2. Inputs' BY <1>1 DEF ViewInv, Inputs
<1>3. /\ raw \in Seq(LinesIn(Texts)) /\ buf.view \in Seq(RowsIn(Texts))
      /\ Viewed(raw, buf.view, buf.matches, buf.next)
      /\ rebuild \in Rebuilds /\ rebuild.pos \in Nat /\ rebuild.committed \in Nat
      /\ rebuild.rows \in Seq(RowsIn(Texts))
      /\ Scanned
  BY <1>1 DEF ViewInv, OnScreen, Viewed, Rebuilds
<1>4. Len(raw) \in Nat /\ SubSeq(raw, 1, Len(raw)) = raw BY <1>3
<1>5. /\ buf = [raw |-> buf.raw, view |-> buf.view, matches |-> buf.matches, next |-> buf.next]
      /\ rebuild = [on |-> rebuild.on, pos |-> rebuild.pos, rows |-> rebuild.rows,
                    committed |-> rebuild.committed]
  BY DEF TextInv, Places, Buffers
<1>6. late \in Seq(Texts) BY HeldIsOfTheLog DEF ViewInv, Inputs
<1>7. CommitChunk \in Nat BY LogViewAssumption
\* A frame that goes on has the rows of the lines up to pos.
<1>8. ASSUME NEW view \in Seq(RowsIn(Texts)), buf' = [buf EXCEPT !.view = view],
             NEW pos \in Nat, pos <= Len(raw), NEW committed \in Nat,
             rebuild' = [rebuild EXCEPT !.pos = pos, !.rows = Now(SubSeq(raw, 1, pos)),
                                        !.committed = committed]
      PROVE  ViewInv'
  <2> DEFINE rows == Now(SubSeq(raw, 1, pos))
  <2>1. /\ buf'.raw = buf.raw /\ buf'.view = view /\ buf'.matches = buf.matches
        /\ buf'.next = buf.next
    BY <1>5, <1>8
  <2>2. Viewed(buf'.raw, buf'.view, buf'.matches, buf'.next) BY <1>3, <1>8, <2>1 DEF Viewed
  <2>3. SubSeq(raw, 1, pos) \in Seq(LinesIn(Texts)) BY <1>3, <1>8
  <2>4. rows \in Seq(RowsIn(Texts)) BY <2>3, ShownRows
  <2> HIDE DEF rows
  <2>5. rebuild' = [on |-> TRUE, pos |-> pos, rows |-> rows, committed |-> committed]
    <3>1. rebuild.on = TRUE BY <1>1, <1>3 DEF Rebuilds
    <3> QED BY <1>5, <1>8, <3>1 DEF rows
  <2>6. rebuild' \in Rebuilds
    <3> DEFINE S == Seq(RowsIn(Texts))
    <3>1. rows \in S /\ pos \in Nat /\ committed \in Nat BY <2>4
    <3> HIDE DEF S
    <3>2. rebuild' \in [on : BOOLEAN, pos : Nat, rows : S, committed : Nat] BY <2>5, <3>1
    <3> QED BY <3>2 DEF Rebuilds, S
  <2>7. rebuild'.on /\ rebuild'.pos = pos /\ rebuild'.rows = rows BY <2>5
  <2>8. Scanned' BY <1>1, <1>8, <2>1, <2>7 DEF Scanned, rows
  <2>9. OnScreen' BY <2>2, <2>6, <2>7, <2>8 DEF OnScreen
  <2> QED BY <1>2, <2>9 DEF ViewInv
\* Rows are committed when all lines have been scanned.
<1>9. ASSUME NEW from \in Nat, Commit(Now(raw), from) PROVE ViewInv'
  <2> DEFINE rows     == Now(raw)
             hits     == Hits(rows)
             to       == Min({from + CommitChunk, Len(rows)})
             finished == [buf EXCEPT !.view = rows, !.matches = hits]
             cut      == SubSeq(buf.view, 1, Len(buf.view) - CommitChunk)
             more     == SubSeq(rows, 1, to)
             n        == Len(raw)
  <2>1. rows \in Seq(RowsIn(Texts)) BY <1>3, ShownRows
  <2>2. hits \in Seq(Nat)
    <3> HIDE DEF rows
    <3> QED BY <2>1, HitNumbers
  <2>3. to \in Nat
    <3> DEFINE a == from + CommitChunk
               b == Len(rows)
    <3>1. a \in Nat /\ b \in Nat BY <1>7, <2>1
    <3> HIDE DEF a, b
    <3>2. \E x \in {a, b} : \A y \in {a, b} : x <= y BY <3>1
    <3>3. to \in {a, b} BY <3>2 DEF Min, a, b
    <3> QED BY <3>1, <3>3
  <2>4. \/ /\ buf' = [buf EXCEPT !.view = cut] /\ Len(buf.view) > to + CommitChunk
           /\ rebuild' = [rebuild EXCEPT !.pos = n, !.rows = rows]
        \/ /\ buf' = [buf EXCEPT !.view = more] /\ to < Len(rows)
           /\ rebuild' = [rebuild EXCEPT !.pos = n, !.rows = rows, !.committed = to]
        \/ buf' = Apply(finished, late) /\ rebuild' = Idle
    BY <1>9 DEF Commit, ShowLate
  <2>5. rows = Now(SubSeq(raw, 1, n)) /\ n \in Nat /\ n <= Len(raw)
    <3>1. SubSeq(raw, 1, n) = raw BY <1>4
    <3>2. n \in Nat /\ n <= Len(raw) BY <1>4
    <3> QED BY <3>1, <3>2
  <2> HIDE DEF to
  <2>6. CASE /\ buf' = [buf EXCEPT !.view = cut] /\ Len(buf.view) > to + CommitChunk
             /\ rebuild' = [rebuild EXCEPT !.pos = n, !.rows = rows]
    <3>1. cut \in Seq(RowsIn(Texts))
      <4> DEFINE x == Len(buf.view)
      <4>2. x \in Nat BY <1>3
      <4>1. x - CommitChunk \in 0..x
        <5>1. x > to + CommitChunk BY <2>6
        <5> HIDE DEF x
        <5> QED BY <1>7, <2>3, <4>2, <5>1
      <4> QED BY <1>3, <4>1
    <3> HIDE DEF cut, rows, n
    <3>2. rebuild' = [rebuild EXCEPT !.pos = n, !.rows = rows, !.committed = rebuild.committed]
      BY <1>5, <2>6
    <3>3. buf' = [buf EXCEPT !.view = cut] BY <2>6
    <3>4. rebuild.committed \in Nat BY <1>3
    <3> QED BY <1>8, <2>5, <3>1, <3>2, <3>3, <3>4
  <2>7. CASE /\ buf' = [buf EXCEPT !.view = more] /\ to < Len(rows)
             /\ rebuild' = [rebuild EXCEPT !.pos = n, !.rows = rows, !.committed = to]
    <3> HIDE DEF rows, n
    <3>1. more \in Seq(RowsIn(Texts))
      <4>1. to \in 0..Len(rows) BY <2>1, <2>3, <2>7
      <4> QED BY <2>1, <4>1
    <3> HIDE DEF more
    <3> QED BY <1>8, <2>3, <2>5, <2>7, <3>1
  <2>8. CASE buf' = Apply(finished, late) /\ rebuild' = Idle
    <3> HIDE DEF rows, hits
    <3>1. /\ finished.raw = raw /\ finished.view = rows /\ finished.matches = hits
          /\ finished.next = buf.next
      BY <1>5
    <3>2. Viewed(raw, rows, hits, buf.next) BY <1>3, <2>1, <2>2 DEF Viewed
    <3>3. Shows(raw, rows, hits, log, query, only)
      <4>1. \A S : \A s \in Seq(S) : IsEnding(s, s)
        <5> SUFFICES ASSUME NEW S, NEW s \in Seq(S) PROVE IsEnding(s, s)
          OBVIOUS
        <5> DEFINE x == Len(s)
                   z == 0
        <5>1. x \in Nat /\ z \in Nat /\ DOMAIN s = 1..x /\ DOMAIN s = 1..z + x
              /\ \A i \in 1..x : s[i] = s[z + i]
          OBVIOUS
        <5> HIDE DEF x, z
        <5> QED BY <5>1 DEF IsEnding
      <4>2. IsEnding(rows, rows) /\ IsEnding(hits, hits) BY <2>1, <2>2, <4>1
      <4> QED BY <4>2 DEF Shows, rows, hits
    <3> HIDE DEF finished
    <3>4. /\ Viewed(finished.raw, finished.view, finished.matches, finished.next)
          /\ Shows(finished.raw, finished.view, finished.matches, log, query, only)
      BY <3>1, <3>2, <3>3
    <3>5. /\ Viewed(buf'.raw, buf'.view, buf'.matches, buf'.next)
          /\ Shows(buf'.raw, buf'.view, buf'.matches, log, query, only)
      BY <1>6, <2>8, <3>4, AppliedShows
    <3>6. ~rebuild'.on /\ rebuild' \in Rebuilds BY <2>8, IdleIsRebuild DEF Idle
    <3>7. OnScreen' BY <1>1, <2>8, <3>5, <3>6 DEF OnScreen
    <3> QED BY <1>2, <3>7 DEF ViewInv
  <2> QED BY <2>4, <2>6, <2>7, <2>8
\* A frame scans up to a line.
<1>10. ASSUME NEW to \in rebuild.pos + 1 .. Len(raw), Scan(to) PROVE ViewInv'
  <2> DEFINE pos  == rebuild.pos
             rows == rebuild.rows \o Shown(SubSeq(raw, pos + 1, to))
             a    == SubSeq(raw, 1, pos)
             b    == SubSeq(raw, pos + 1, to)
             c    == SubSeq(raw, 1, to)
             k    == to - pos
  <2>1. pos \in Nat /\ to \in Nat /\ k \in Nat /\ to = pos + k /\ to <= Len(raw) BY <1>3, <1>4
  <2>2. raw \in Seq(LinesIn(Texts)) BY <1>3
  <2>3. IsJoin(c, a, pos, b, k)
        /\ a \in Seq(LinesIn(Texts)) /\ b \in Seq(LinesIn(Texts)) /\ c \in Seq(LinesIn(Texts))
    <3>1. pos <= to /\ to - pos = k BY <2>1
    <3> HIDE DEF pos, k, raw
    <3> QED BY <2>1, <2>2, <3>1, ExcerptsJoin
  <2>4. rows = Now(a) \o Now(b) BY <1>3, ShownIs DEF Scanned
  <2> HIDE DEF a, b, c, k
  <2>5. rows = Now(c)
    <3> DEFINE sa == Now(a)
               sb == Now(b)
               sc == Now(c)
    <3>1. sa \in Seq(RowsIn(Texts)) /\ sb \in Seq(RowsIn(Texts)) /\ sc \in Seq(RowsIn(Texts))
      BY <2>3, ShownRows
    <3>2. PICK x, y : IsJoin(sc, sa, x, sb, y) BY <2>3, ShownJoins
    <3> HIDE DEF sa, sb, sc, rows
    <3>3. sc = sa \o sb BY <3>1, <3>2, JoinIsConcatenation
    <3> QED BY <2>4, <3>3 DEF sa, sb, sc
  <2>6. \/ /\ rebuild' = [rebuild EXCEPT !.pos = to, !.rows = rows] /\ buf' = buf
        \/ to = Len(raw) /\ Commit(rows, 0)
    BY <1>10 DEF Scan, b
  <2> HIDE DEF rows
  <2>7. CASE rebuild' = [rebuild EXCEPT !.pos = to, !.rows = rows] /\ buf' = buf
    <3>1. rebuild' = [rebuild EXCEPT !.pos = to, !.rows = rows, !.committed = rebuild.committed]
      BY <1>5, <2>7
    <3>2. buf' = [buf EXCEPT !.view = buf.view] BY <1>5, <2>7
    <3>3. rows = Now(SubSeq(raw, 1, to)) BY <2>5 DEF c
    <3>4. buf.view \in Seq(RowsIn(Texts)) /\ rebuild.committed \in Nat BY <1>3
    <3> QED BY <1>8, <2>1, <3>1, <3>2, <3>3, <3>4
  <2>8. CASE to = Len(raw) /\ Commit(rows, 0)
    <3>1. rows = Now(raw) BY <1>4, <2>5, <2>8 DEF c
    <3>2. Commit(Now(raw), 0) BY <2>8, <3>1
    <3> QED BY <1>9, <3>2
  <2> QED BY <2>6, <2>7, <2>8
<1>11. CASE rebuild.pos < Len(raw)
  <2>1. \E to \in rebuild.pos + 1 .. Len(raw) : Scan(to) BY <1>11 DEF Frame
  <2> QED BY <1>10, <2>1
<1>12. CASE ~(rebuild.pos < Len(raw))
  <2>1. rebuild.pos = Len(raw) BY <1>3, <1>4, <1>12 DEF Scanned
  <2>2. rebuild.rows = Now(raw) BY <1>3, <1>4, <2>1 DEF Scanned
  <2>3. Commit(Now(raw), rebuild.committed) BY <1>12, <2>2 DEF Frame
  <2> QED BY <1>3, <1>9, <2>3
<1> QED BY <1>11, <1>12

LEMMA ViewStep == TextInv /\ ViewInv /\ [TextNext]_textVars => ViewInv'
<1> SUFFICES ASSUME TextInv, ViewInv, [TextNext]_textVars PROVE ViewInv'
  OBVIOUS
<1>1. CASE UNCHANGED textVars
  <2>1. UNCHANGED <<log, ended, buf, rebuild, query, only, changes>>
    BY <1>1 DEF textVars, pump, screen, user
  <2> QED BY <2>1, PushKeepsView
<1>2. CASE TextNext
  BY <1>2, PumpKeepsView, ListenKeepsView, UserKeepsView, FrameKeepsView DEF TextNext
<1> QED BY <1>1, <1>2

LEMMA ViewInvHolds == TextSpec => []ViewInv
BY ViewInitially, ViewStep, TextInvHolds, PTL DEF TextSpec

\* Whenever no rebuild is in flight, the view of the log ends with exactly the
\* rows that the query and the filter select from the buffer, and the list of
\* matches with their numbers: whatever lines arrived during a rebuild, however
\* often one was superseded (rebuildView), and whatever applyLines evicted.
THEOREM ViewShowsBufferHolds == TextSpec => []ViewShowsBuffer
<1>1. ViewInv => ViewShowsBuffer
  <2> SUFFICES ASSUME ViewInv, ~rebuild.on
               PROVE  /\ IsSuffix(Shown(buf.raw), buf.view)
                      /\ IsSuffix(Hits(Shown(buf.raw)), buf.matches)
    BY DEF ViewShowsBuffer
  <2> DEFINE rows == ShownOf(buf.raw, log, query, only)
             hits == Hits(rows)
  <2>1. /\ Viewed(buf.raw, buf.view, buf.matches, buf.next)
        /\ Shows(buf.raw, buf.view, buf.matches, log, query, only)
    BY DEF ViewInv, OnScreen
  <2>2. /\ buf.raw \in Seq(LinesIn(Texts)) /\ buf.view \in Seq(RowsIn(Texts))
        /\ buf.matches \in Seq(Nat) /\ IsEnding(rows, buf.view) /\ IsEnding(hits, buf.matches)
    BY <2>1 DEF Viewed, Shows
  <2>3. rows \in Seq(RowsIn(Texts)) BY <2>2, ShownRows
  <2>4. rows = Shown(buf.raw) BY ShownIs
  <2> HIDE DEF rows
  <2>5. hits \in Seq(Nat) BY <2>3, HitNumbers
  <2> QED BY <2>2, <2>3, <2>4, <2>5, EndingIsSuffix
<1> QED BY <1>1, ViewInvHolds, PTL

\* Every part of the way to the screen is what its code keeps there: lines and
\* texts of tokens the log has, rows with their line's number, a rebuild whose
\* position lies in the buffer.
THEOREM TextTypeOKHolds == TextSpec => []TextTypeOK
<1>1. TextInv /\ ViewInv => TextTypeOK
  <2> SUFFICES ASSUME TextInv, ViewInv PROVE TextTypeOK
    OBVIOUS
  <2>1. MemoryBounded BY DEF TextInv, Places, Buffers, MemoryBounded
  <2>2. /\ late \in Seq(Texts) /\ partial \in Texts /\ pending \in Seq(Texts)
        /\ \A e \in DOMAIN emitted : emitted[e].lines \in Seq(Texts)
    BY HeldIsOfTheLog DEF ViewInv, Inputs
  <2>3. emitted \in Seq([name : {"batch", "part", "end"}, lines : Seq(Texts)])
    <3> DEFINE T == [name : {"batch", "part", "end"}, lines : Seq(Texts)]
               n == Len(emitted)
    <3>1. emitted \in Seq(Events) BY DEF TextInv, Places, Queued
    <3>2. DOMAIN emitted = 1..n BY <3>1
    <3>3. \A e \in 1..n : emitted[e] \in T
      <4> SUFFICES ASSUME NEW e \in 1..n PROVE emitted[e] \in T
        OBVIOUS
      <4>1. emitted[e] \in Events BY <3>1
      <4>2. emitted[e].lines \in Seq(Texts) BY <2>2, <3>2
      <4> QED BY <4>1, <4>2 DEF Events
    <3> HIDE DEF T
    <3>4. emitted \in Seq(T) BY <3>1, <3>3
    <3> QED BY <3>4 DEF T
  <2>4. /\ buf.raw \in Seq([seq : Nat, text : Texts]) /\ buf.view \in Seq(Rows)
        /\ buf.matches \in Seq(Nat) /\ buf.next \in Nat
    BY DEF ViewInv, OnScreen, Viewed, LinesIn, RowsIn, Rows
  <2>5. rebuild \in [on : BOOLEAN, pos : 0..BufferSize, rows : Seq(Rows), committed : Nat]
    <3>1. rebuild \in [on : BOOLEAN, pos : Nat, rows : Seq(Rows), committed : Nat]
      BY DEF ViewInv, OnScreen, Rebuilds, RowsIn, Rows
    <3>2. rebuild.pos \in Nat /\ rebuild.pos <= BufferSize
      <4>1. Len(buf.raw) <= BufferSize /\ Len(buf.raw) \in Nat /\ BufferSize \in Nat
        BY <2>1, <2>4, LogViewAssumption DEF MemoryBounded
      <4>2. rebuild.pos \in Nat BY <3>1
      <4>3. rebuild.on => rebuild.pos <= Len(buf.raw) BY DEF ViewInv, OnScreen, Scanned
      <4>4. ~rebuild.on => rebuild.pos = 0 BY DEF ViewInv, OnScreen, Idle
      <4> QED BY <4>1, <4>2, <4>3, <4>4
    <3>3. rebuild.pos \in 0..BufferSize BY <3>2, LogViewAssumption
    <3> QED BY <3>1, <3>3
  <2>6. due \subseteq 1..MaxTokens
    <3>1. due \subseteq 1..Len(log) /\ Len(log) \in Nat BY DEF TextInv, Places
    <3>2. Len(log) <= MaxTokens /\ MaxTokens \in Nat BY LogViewAssumption DEF ViewInv, Inputs
    <3> QED BY <3>1, <3>2
  <2>7. log \in Seq([kind : Kinds \union {Blank}, partial : BOOLEAN])
    BY DEF TextInv, Places
  <2> QED BY <2>1, <2>2, <2>3, <2>4, <2>5, <2>6, <2>7 DEF TextTypeOK, ViewInv, Inputs
<1> QED BY <1>1, TextInvHolds, ViewInvHolds, PTL
=============================================================================
