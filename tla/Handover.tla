------------------------------ MODULE Handover ------------------------------
(***************************************************************************)
(* What the sidecar may rely on when it delivers, without connections,     *)
(* listeners, adapters or clocks: one delivery is settled before the next  *)
(* begins; what arrives arrives in that order and once; one that failed    *)
(* never arrives, and one that was fulfilled arrives before that or never. *)
(* Only one that nobody knows the end of may arrive at any later time, and *)
(* out of order only if what was sending it outlived the plugin.           *)
(***************************************************************************)
EXTENDS Naturals, Sequences

CONSTANT MaxAttempts    \* bound: deliveries begun

VARIABLES
    begun,      \* the number of deliveries begun
    outcome,    \* how each of them settled, "none" when it has not
    arrived,    \* those that reached their user, in order
    outlived    \* those whose sender goes on by itself

vars == <<begun, outcome, arrived, outlived>>

Init ==
    /\ begun = 0
    /\ outcome = [n \in 1..MaxAttempts |-> "none"]
    /\ arrived = <<>> /\ outlived = {}

Begin ==
    /\ begun < MaxAttempts
    /\ \A n \in 1..begun : outcome[n] # "none"
    /\ begun' = begun + 1
    /\ UNCHANGED <<outcome, arrived, outlived>>

Arrive(n) ==
    /\ outcome[n] \in {"none", "unknown"}
    /\ \A k \in DOMAIN arrived : arrived[k] < n \/ (n \in outlived /\ arrived[k] # n)
    /\ arrived' = Append(arrived, n)
    /\ UNCHANGED <<begun, outcome, outlived>>

Settle(n, how) ==
    /\ outcome[n] = "none"
    /\ how = "failed" => \A k \in DOMAIN arrived : arrived[k] # n
    /\ outcome' = [outcome EXCEPT ![n] = how]
    /\ UNCHANGED <<begun, arrived, outlived>>

\* The plugin dies while it sends n; nobody will know the end of n, nor that of the
\* delivery that is awaited.
Outlive(n) ==
    /\ \A k \in DOMAIN arrived : arrived[k] < n
    /\ \/ UNCHANGED outcome
       \/ outcome[begun] = "none" /\ outcome' = [outcome EXCEPT ![begun] = "unknown"]
    /\ outcome'[n] = "unknown"
    /\ outlived' = outlived \cup {n}
    /\ UNCHANGED <<begun, arrived>>

Next ==
    \/ Begin
    \/ \E n \in 1..begun : Arrive(n) \/ Outlive(n)
    \/ \E n \in 1..begun, how \in {"fulfilled", "failed", "unknown"} : Settle(n, how)

Spec == Init /\ [][Next]_vars
=============================================================================
