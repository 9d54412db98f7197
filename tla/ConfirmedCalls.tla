--------------------------- MODULE ConfirmedCalls ---------------------------
(***************************************************************************)
(* The calls of service.go that change the cluster, and the two that run   *)
(* kubectl against it, made from the rows the page shows while the         *)
(* connection changes under them.  A change is confirmed in a native       *)
(* dialog first, but for UpdateSecret; the client is looked up when the    *)
(* dialog has closed, once for each call.                                  *)
(***************************************************************************)
EXTENDS Connection, Sequences

CONSTANTS
    Calls, \* calls the page makes
    Ops    \* the methods of Service they are made to

Deletes == {"DeleteNamespace", "DeletePod", "DeleteService", "DeleteIngress",
            "DeleteWorkload", "DeleteSecret"}
Creates == {"CreateCronJob", "CreateService", "CreateIngress", "CreateDeployment",
            "CreateSecret", "CreateSecretFromYAML"}
Patches == {"UpdateCronJob", "ScaleWorkload", "RestartWorkload"}

\* These read the object and write what they made of it.
Edits    == {"UpdateIngress", "UpdateSecret"}
Replaces == {"UpdateSecretFromYAML"}

\* Those on a secret that exists start again after a conflict.
Retried == {"UpdateSecret", "UpdateSecretFromYAML"}
Parsed  == {"CreateSecretFromYAML", "UpdateSecretFromYAML"}
Kubectl == {"OpenShell", "GetPodNetworkFiles"}

Unconfirmed == {"UpdateSecret"}

ASSUME ConfirmedCallsAssumption ==
    Ops \subseteq Deletes \union Creates \union Patches \union Edits \union Replaces \union Kubectl

VARIABLE call \* call[j]: call j, and what it made a cluster write, in order

allVars == <<vars, call>>

CallPcs == {"idle", "ask", "begin", "read", "send", "context", "path", "back", "done"}
Written == [at : Targets, from : Targets \union {None}]
Aims    == Files \X Names

NoCall == [op |-> None, pc |-> "idle", born |-> 0, yes |-> FALSE, via |-> None,
           got |-> None, name |-> None, aim |-> None, wrote |-> <<>>, answer |-> "none"]

CallState == [op : Ops \union {None}, pc : CallPcs, born : Nat, yes : BOOLEAN,
              via : Targets \union {None}, got : Targets \union {None},
              name : Names \union {None}, aim : Aims \union {None},
              wrote : Seq(Written), answer : {"none", "yes", "no", "error"}]

CallsTypeOK == call \in [Calls -> CallState]

CallsInit ==
    /\ Init
    /\ call = [j \in Calls |-> NoCall]

Back(j, a) == call' = [call EXCEPT ![j].pc = "back", ![j].answer = a]

\* Where a method starts: with its dialog, with the write itself, or with the
\* arguments of kubectl.
Entry(op) ==
    CASE op \in Unconfirmed -> "begin"
      [] op \in Kubectl     -> "context"
      [] OTHER              -> "ask"

\* An action of the row's menu, or of a panel next to the list.
Click(j, op) ==
    /\ call[j].pc = "idle"
    /\ Visible
    /\ call' = [call EXCEPT ![j] = [NoCall EXCEPT !.op = op, !.pc = Entry(op), !.born = view.born]]
    /\ UNCHANGED vars

\* A manifest that cannot be parsed, an edit without a change, the lookup of a
\* pod's owner that fails, or the switch for experimental features: the
\* method returns before it asks.
TurnedAway(j) ==
    /\ call[j].pc \in {"ask", "context"}
    /\ \/ call[j].op \in Parsed \union {"DeletePod", "GetPodNetworkFiles"} /\ Back(j, "error")
       \/ call[j].op = "UpdateCronJob" /\ Back(j, "no")
    /\ UNCHANGED vars

\* Mutant of Decline: the answer of a dialog that was closed is taken for done.
DeclineAsDone(j) ==
    /\ call[j].pc = "ask"
    /\ Back(j, "yes")
    /\ UNCHANGED vars

\* confirm: anything but yes cancels; the dialog itself may fail.
Decline(j) ==
    /\ call[j].pc = "ask"
    /\ Back(j, "no") \/ Back(j, "error")
    /\ UNCHANGED vars

Agree(j) ==
    /\ call[j].pc = "ask"
    /\ call' = [call EXCEPT ![j].pc = "begin", ![j].yes = TRUE]
    /\ UNCHANGED vars

\* What is tried first, and again after a conflict.
Attempt(op) == IF op \in Edits THEN "read" ELSE "send"

\* clientOrErr, after the dialog.
TakeClient(j) ==
    /\ call[j].pc = "begin"
    /\ call' = [call EXCEPT ![j].pc = Attempt(call[j].op), ![j].via = client]
    /\ UNCHANGED vars

\* Mutant of ReadObject: the object is read on the client of this moment.
ReadObjectAgain(j) ==
    /\ call[j].pc = "read"
    /\ \/ call' = [call EXCEPT ![j].pc = "send", ![j].got = client]
       \/ Back(j, "error")
    /\ UNCHANGED vars

ReadObject(j) ==
    /\ call[j].pc = "read"
    /\ \/ call' = [call EXCEPT ![j].pc = "send", ![j].got = call[j].via]
       \/ Back(j, "error")
    /\ UNCHANGED vars

\* The request is carried out; the answer arrives, or the 30 seconds are over
\* first.
Write(j) ==
    /\ call[j].pc = "send"
    /\ \E a \in {"yes", "error"} :
          call' = [call EXCEPT ![j].pc = "back", ![j].answer = a,
                               ![j].wrote = Append(@, [at |-> call[j].via, from |-> call[j].got])]
    /\ UNCHANGED vars

\* It is refused, or refused for a conflict.
Refuse(j) ==
    /\ call[j].pc = "send"
    /\ Back(j, "error")
    /\ UNCHANGED vars

Conflict(j) ==
    /\ call[j].pc = "send" /\ call[j].op \in Retried
    /\ call' = [call EXCEPT ![j].pc = Attempt(call[j].op), ![j].got = None]
    /\ UNCHANGED vars

\* kubectlBaseArgs: the context and the file are read one after the other,
\* and the file is the one that is pinned now.
ReadContext(j) ==
    /\ call[j].pc = "context"
    /\ call' = [call EXCEPT ![j].pc = "path", ![j].name = client[2]]
    /\ UNCHANGED vars

RunKubectl(j) ==
    /\ call[j].pc = "path"
    /\ \E a \in {"yes", "error"} :
          call' = [call EXCEPT ![j].pc = "back", ![j].answer = a, ![j].via = client,
                               ![j].aim = <<pinned, call[j].name>>]
    /\ UNCHANGED vars

\* The rest of the page's handler.  Deleting a pod reloads the list it was
\* clicked in, or shows the error in its place.
Returns(j) ==
    /\ call[j].pc = "back"
    /\ call' = [call EXCEPT ![j] = [NoCall EXCEPT !.pc = "done"]]
    /\ IF call[j].op = "DeletePod" /\ Mounted(page) /\ view.born = call[j].born
         THEN \/ call[j].answer = "yes" /\ Reload(page.space)
              \/ call[j].answer = "no" /\ UNCHANGED viewVars
              \/ call[j].answer = "error" /\ view' = [view EXCEPT !.error = TRUE] /\ UNCHANGED <<loads, latest>>
         ELSE UNCHANGED viewVars
    /\ page' = page
    /\ UNCHANGED <<pinned, client, barVars, conn, remembered>>

CallStep(j) ==
    \/ \E op \in Ops : Click(j, op)
    \/ TurnedAway(j) \/ Decline(j) \/ Agree(j) \/ TakeClient(j)
    \/ ReadObject(j) \/ Write(j) \/ Refuse(j) \/ Conflict(j)
    \/ ReadContext(j) \/ RunKubectl(j) \/ Returns(j)

CallsNext ==
    \/ Next /\ UNCHANGED call
    \/ \E j \in Calls : CallStep(j)

CallsSpec == CallsInit /\ [][CallsNext]_allVars

-----------------------------------------------------------------------------
\* What was read from one cluster is never written to another, however many
\* connects finish while a call is under way.
OneClusterPerCall ==
    \A j \in Calls : \A n \in DOMAIN call[j].wrote :
        call[j].wrote[n].from \in {None, call[j].wrote[n].at}

\* An answer can be relied on: done means written once and asked for, not done
\* means nothing was written, and an error leaves at most one write.  Nothing
\* but UpdateSecret writes without a yes.
ResultIsTruthful ==
    \A j \in Calls :
        /\ call[j].answer = "yes" /\ call[j].op \notin Kubectl => call[j].wrote # <<>>
        /\ call[j].answer = "no" => call[j].wrote = <<>>
        /\ Len(call[j].wrote) <= 1
        /\ call[j].wrote # <<>> => call[j].yes \/ call[j].op \in Unconfirmed

\* shell.go:11-14 and service.go:473-476: a shell always connects to the
\* cluster that is being inspected.  Violated: the file is the one pinned last,
\* the context that of the connection.
ShellFollowsConnection ==
    \A j \in Calls : call[j].aim # None => call[j].aim = call[j].via
=============================================================================
