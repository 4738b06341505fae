------------------------------ MODULE MCSignIn ------------------------------
(* SignIn with two tabs in one browser and one in another.                  *)
EXTENDS SignIn, TLC

CONSTANTS b1, b2, t1, t2, t3

MCTab == {t1, t2, t3}
MCBrowserOf == [t \in MCTab |-> IF t = t3 THEN b2 ELSE b1]

\* The tabs of one browser are interchangeable, and so are users.
MCSymmetry == Permutations({t1, t2}) \cup Permutations(User)
=============================================================================
