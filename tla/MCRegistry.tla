----------------------------- MODULE MCRegistry -----------------------------
(***************************************************************************)
(* Instances of Registry for TLC: goroutines as model values, their roles  *)
(* set in the configurations.                                              *)
(***************************************************************************)
EXTENDS Registry, TLC

CONSTANTS t1, t2, t3

\* One task works with Topic[any], the others with a type of their own.
OneAny == [t \in Tasks |-> IF t = t3 THEN "any" ELSE "typed"]
AllTyped == [t \in Tasks |-> "typed"]
=============================================================================
