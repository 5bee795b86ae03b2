----------------------------- MODULE MCSoftware ------------------------------
(* Two processes of the Software suvlet, which are alike.                    *)
EXTENDS Software, TLC

CONSTANTS s1, s2

MCSuvlets == {s1, s2}
MCSymmetry == Permutations(MCSuvlets)

\* Nothing is said of what follows a mishap.
NoMishap == mishaps = {}
=============================================================================
