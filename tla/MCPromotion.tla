----------------------------- MODULE MCPromotion -----------------------------
(***************************************************************************)
(* The estate of the checked instances of Promotion: one epic across both  *)
(* repos, one in the second alone, riding the same promotion.  The number  *)
(* of the small one begins the number of the wide one.                     *)
(***************************************************************************)
EXTENDS Promotion

Trains == [e \in {"wide", "small"} |-> IF e = "wide" THEN {"api", "web"} ELSE {"web"}]

Reads == [e \in {"wide", "small"} |-> IF e = "small" THEN {"wide", "small"} ELSE {"wide"}]
==============================================================================
