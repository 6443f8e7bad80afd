--------------------------- MODULE MCDockerRelay ----------------------------
(* Instances of DockerRelay for TLC. *)
EXTENDS DockerRelay

CONSTANTS a, b

Two == {1, 2}
TwoImages == {a, b}

All == [filters |-> FALSE, matches |-> {}, keep |-> Two, limit |-> 0,
        verbatim |-> {}]
Latest == [All EXCEPT !.filters = TRUE, !.matches = Two, !.limit = 1]
Verbatim == [All EXCEPT !.verbatim = {Plain(1), [name |-> 2, digest |-> a],
                                      [name |-> None, digest |-> b]}]
OnlyFirst == [All EXCEPT !.filters = TRUE, !.matches = {1}]

AllKinds == {All, Latest, Verbatim}
OneFilter == {OnlyFirst}
=============================================================================
