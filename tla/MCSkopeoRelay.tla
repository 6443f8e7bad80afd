--------------------------- MODULE MCSkopeoRelay ----------------------------
(* An instance of SkopeoRelay for TLC. *)
EXTENDS SkopeoRelay

CONSTANTS a, b

Two == {1, 2}
TwoImages == {a, b}

All == [filters |-> FALSE, matches |-> {}, keep |-> Two, limit |-> 0,
        verbatim |-> {}]
Latest == [All EXCEPT !.filters = TRUE, !.matches = Two, !.limit = 1]
Verbatim == [All EXCEPT !.verbatim = {Plain(1), [name |-> 2, digest |-> a],
                                      [name |-> None, digest |-> b]}]
Mixed == [All EXCEPT !.filters = TRUE, !.matches = {1}, !.keep = {1},
                     !.verbatim = {Plain(2), [name |-> None, digest |-> b]}]

AllKinds == {All, Latest, Verbatim, Mixed}
=============================================================================
