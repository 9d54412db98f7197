----------------------------- MODULE MCIngress -----------------------------
(* Values for the runs of IngressForm and IngressHealth. *)
EXTENDS IngressHealth
CONSTANTS s1, s2, t1, m1, r1
\* One that the form can express, one with everything it cannot, and one with
\* a default backend only.
MCWritten ==
    {[rules |-> [r \in Rows |-> s1], tls |-> {t1}, default |-> None, class |-> None, meta |-> m1],
     [rules |-> [r \in Rows |-> IF r = r1 THEN Resource ELSE Bare], tls |-> {Blank},
      default |-> Resource, class |-> None, meta |-> m1],
     [rules |-> [r \in Rows |-> None], tls |-> {t1, Blank}, default |-> s2, class |-> CHOOSE c \in Classes : TRUE, meta |-> m1]}
=============================================================================
