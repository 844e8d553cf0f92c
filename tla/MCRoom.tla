-------------------------------- MODULE MCRoom --------------------------------
(***************************************************************************)
(* Instances of Room for TLC: one thread, where handlers run one after     *)
(* the other, and two, where they meet at the mutexes.                     *)
(***************************************************************************)
EXTENDS Room, TLC

\* Each kind of patch, and each of the four combinations of broadcast and
\* response, with one of the others.
SomeOutcomes == {
    [patch |-> "none",     others |-> TRUE,  back |-> TRUE],
    [patch |-> "data",     others |-> TRUE,  back |-> FALSE],
    [patch |-> "reload",   others |-> FALSE, back |-> TRUE],
    [patch |-> "shutdown", others |-> FALSE, back |-> FALSE],
    [patch |-> "activate", others |-> TRUE,  back |-> FALSE]}

FewOutcomes == {
    [patch |-> "data",     others |-> TRUE,  back |-> TRUE],
    [patch |-> "shutdown", others |-> TRUE,  back |-> FALSE]}

\* Sessions are alike; no property of a run with symmetry is a liveness property.
SessionSymmetry == Permutations(Sessions)

==============================================================================
