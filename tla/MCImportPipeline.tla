-------------------------- MODULE MCImportPipeline --------------------------
(* Under one of two mappings the first and the last row share an identity    *)
(* value and the second has none; under the other one the second row is      *)
(* unsound and the last one's value is taken already.                        *)
EXTENDS ImportPipeline, TLC

CONSTANTS f, g, upload, complete, complete2, exec1, exec2, map1, map2, check1, commit1

SoundRows == (f :> Rows) @@ (g :> Rows \ {2})
IdentityOf == LET of == (f :> <<"a", NoKey, "a">>) @@ (g :> <<"b", "a", "c">>)
              IN  [m \in {f, g} |-> [x \in Rows |-> of[m][x]]]
WantedMaps == [p \in Mappings |-> IF p = map1 THEN f ELSE g]
ExistingKeys == {"c"} \cap Keys

=============================================================================
