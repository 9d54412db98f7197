------------------------------ MODULE Tunnels ------------------------------
(***************************************************************************)
(* What the port-forward service promises, with none of its goroutines.    *)
(*                                                                         *)
(* A tunnel is one session of the port-forward machinery: a local port     *)
(* bound on this machine and connected to a (pod, remote port) target.  It *)
(* is opened privately by one StartPortForward call, becomes shared when   *)
(* that call registers it, closes when it is asked to stop or dies, and is *)
(* reaped when the service forgets it.  Two shared tunnels never lead to   *)
(* the same target, and a closed tunnel is eventually reaped.              *)
(***************************************************************************)
CONSTANTS Starts,    \* the StartPortForward calls; each opens at most one tunnel
          Targets    \* the (namespace, pod, remote port) triples

VARIABLES phase,     \* how far the tunnel of each call has come
          leads      \* where the tunnel of each call leads

tunnelVars == <<phase, leads>>

Phases == {"none", "private", "shared", "closed", "reaped"}

TunnelsTypeOK ==
    /\ phase \in [Starts -> Phases]
    /\ leads \in [Starts -> Targets]

TunnelsInit ==
    /\ phase = [c \in Starts |-> "none"]
    /\ leads \in [Starts -> Targets]

\* A call opens its tunnel; nobody else can see it yet.
OpenTunnel(c) ==
    /\ phase[c] = "none"
    /\ phase' = [phase EXCEPT ![c] = "private"]

\* The tunnel is registered, unless its target already has a shared one.
ShareTunnel(c) ==
    /\ phase[c] = "private"
    /\ \A d \in Starts : phase[d] = "shared" => leads[d] # leads[c]
    /\ phase' = [phase EXCEPT ![c] = "shared"]

\* Stopped, or died: closed for good.
CloseTunnel(c) ==
    /\ phase[c] \in {"private", "shared"}
    /\ phase' = [phase EXCEPT ![c] = "closed"]

\* The service forgets a tunnel that has closed.
ReapTunnel(c) ==
    /\ phase[c] = "closed"
    /\ phase' = [phase EXCEPT ![c] = "reaped"]

TunnelsNext ==
    /\ \E c \in Starts :
          OpenTunnel(c) \/ ShareTunnel(c) \/ CloseTunnel(c) \/ ReapTunnel(c)
    /\ UNCHANGED leads

TunnelsSpec ==
    /\ TunnelsInit
    /\ [][TunnelsNext]_tunnelVars
    /\ \A c \in Starts : WF_tunnelVars(ReapTunnel(c) /\ UNCHANGED leads)
=============================================================================
