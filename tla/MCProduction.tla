--------------------------- MODULE MCProduction ---------------------------
EXTENDS Production
CONSTANTS w1, w2, b2
MCAssets == [w \in Websites |-> IF w = w1 THEN {w1} ELSE {w1, w2}]
MCBase == [w \in Websites |-> b2]
=============================================================================
