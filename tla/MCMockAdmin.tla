---------------------------- MODULE MCMockAdmin ----------------------------
(* Two configured mocks, one of which has a header map, and an id to add;  *)
(* for HTTP both are pages of one directory, with one header map.          *)
EXTENDS MockAdmin, TLC

CONSTANTS x, y, z, b1, b2

MCConfigMocks ==
    [p \in Protocols |-> <<[id |-> x, body |-> b1, cell |-> 1],
                          [id |-> y, body |-> b1, cell |-> IF p = "http" THEN 1 ELSE Nil]>>]
MCConfigCells == <<b1>>

CallerSymmetry == Permutations(Callers)
=============================================================================
