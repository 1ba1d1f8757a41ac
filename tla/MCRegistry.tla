---------------------------- MODULE MCRegistry ----------------------------
(***************************************************************************)
(* An instance of Registry for TLC: two cores of one site that touch, one  *)
(* that overlaps the first and has the code of the second in another       *)
(* spelling, and one that makes no sense.                                  *)
(***************************************************************************)
EXTENDS Registry, TLC

CONSTANTS upper, lower, between, unordered, siteA, siteB,
          X, Y, y

Core(id, site, code, top, bottom) ==
    [id |-> id, site |-> site, code |-> code, top |-> top, bottom |-> bottom]

Asked ==
    upper        :> Core(0, siteA, X, 0, 2)
    @@ lower     :> Core(2, siteA, Y, 2, 3)
    @@ between   :> Core(1, siteA, y, 1, 2)
    @@ unordered :> Core(0, siteB, Y, 2, 1)

UpperCase == X :> X @@ Y :> Y @@ y :> Y

Depths == 0..3

\* .12, .2 and .25 of a second, the last of which extends the second.
Times == {112, 120, 125}

Decimals == {10, 100}

Ids == 1..3

MadeUp == 1..3

=============================================================================
