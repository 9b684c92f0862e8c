------------------------- MODULE MCKeyPublication -------------------------
(* Environments for the run of KeyPublication. *)
EXTENDS KeyPublication

Setting(keyID, devGen, site, jwks, discovery) ==
    [keyID |-> keyID, devGen |-> devGen, site |-> site,
     maxAge |-> [d \in Documents |-> IF d = "jwks" THEN jwks ELSE discovery]]

\* Two environments of one key source that differ in all else, so that either
\* can be rolled out into the other, and one with a generated key; max-ages on
\* both sides of 0.
MCSettings == {Setting(7, FALSE, 1, 2, 0), Setting(7, FALSE, 2, 0, 1),
               Setting(0, TRUE, 2, 1, 0)}
=============================================================================
