------------------------- MODULE MCCoopTransition -------------------------
(* Small instances of CoopTransition: three maps that begin at 0, 5 and 7  *)
(* of the world, joined pairwise by landmarks.                              *)
EXTENDS CoopTransition, TLC

CONSTANTS a, b, c, ab, bc, ca

Three == [from: {a, b, c}, to: {a, b, c}, mark: {ab, bc, ca}]
Around == {t \in Three : <<t.from, t.to, t.mark>> \in
             {<<a, b, ab>>, <<b, a, ab>>, <<b, c, bc>>, <<c, a, ca>>}}
Marks == ab :> {a, b} @@ bc :> {b, c} @@ ca :> {c, a}
Begin == a :> 0 @@ b :> 5 @@ c :> 7
Stand == ab :> 4 @@ bc :> 6 @@ ca :> 3
===========================================================================
