---------------------------- MODULE MCComponents -----------------------------
(* A component of one learning package, and media of two. *)
EXTENDS Components, TLC

CONSTANTS c1, lp1, lp2, xml, png, bad, d1

MCPackageOf == c1 :> lp1
MCTypeOf == xml :> "text" @@ png :> "image" @@ bad :> "text"

\* One content under one name and under another, a removal, and a bad path.
MCDeltas == {xml :> d1, xml :> Remove, png :> d1 @@ bad :> d1}
==============================================================================
