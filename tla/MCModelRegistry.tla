-------------------------- MODULE MCModelRegistry --------------------------
(* Instances of ModelRegistry for TLC. *)
EXTENDS ModelRegistry, TLC

\* Two providers of keyed adapters, with and without a key, and one that needs
\* the ssh bridge.
MCOffers ==
    {[name |-> "a", adapter |-> "keyed", key |-> k] : k \in BOOLEAN}
    \cup {[name |-> "b", adapter |-> "ssh_cli", key |-> FALSE]}

\* A failing statement or a restart, not both.
OneMishap == faults + restarts <= 1

AdminSymmetry == Permutations(Admins)
=============================================================================
