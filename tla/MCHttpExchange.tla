--------------------------- MODULE MCHttpExchange ---------------------------
(* Two names in two spellings each.                                        *)
EXTENDS HttpExchange

MCLower == [k \in {"Upgrade", "upgrade", "X", "x"} |->
              IF k \in {"Upgrade", "upgrade"} THEN "upgrade" ELSE "x"]
=============================================================================
