--------------------------- MODULE MCSessionOrder ---------------------------
(* Sessions of up to three entries over every graph on three entities; two of *)
(* the four jobs have the same entity.                                        *)
EXTENDS SessionOrder, TLC

CONSTANTS j1, j2, j3, j4

EntityOfJob == (j1 :> "orgunit") @@ (j2 :> "role") @@ (j3 :> "employee")
                  @@ (j4 :> "employee")

=============================================================================
