---------------------------- MODULE MCAdmission ----------------------------
(* Instances of Admission for TLC. *)
EXTENDS Admission, TLC

\* An ordinary body, one that overrides the system prompt, one with another
\* user's session, and one that is not valid.
MCBodies == {[valid |-> TRUE, overrides |-> FALSE, foreign |-> FALSE],
             [valid |-> TRUE, overrides |-> TRUE, foreign |-> FALSE],
             [valid |-> TRUE, overrides |-> FALSE, foreign |-> TRUE],
             [valid |-> FALSE, overrides |-> FALSE, foreign |-> FALSE]}

\* Nobody is privileged here, so users are alike as well.
Symmetry == Permutations(Requests) \cup Permutations(Results) \cup Permutations(Users)

\* Four requests after one preview, three after two, or one less after a restart.
AtMostFive ==
    Cardinality({r \in Requests : request[r].pc # "idle"})
      + Cardinality({t \in Tokens : issued[t] # None}) + restarts <= 5
=============================================================================
