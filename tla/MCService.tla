------------------------------ MODULE MCService ------------------------------
(* Instances of RuntimeService.                                            *)
EXTENDS RuntimeService, TLC

CONSTANTS i1, i2, i3, i4, d1, d2, t1, t2, p1

MCDispatch == i1 :> d1 @@ i2 :> d2 @@ i3 :> p1
MCTune == i1 :> t1 @@ i2 :> t2 @@ i3 :> d1 @@ i4 :> p1
MCPlace == i1 :> t1 @@ i2 :> d1 @@ i3 :> p1
MCNothing == [x \in {} |-> x]
MCLevels == {"normal", "warning"}
=============================================================================
