----------------------------- MODULE MCSession -----------------------------
(* Session with three users and a viewer.  Processes of one kind are alike. *)
EXTENDS Session, TLC

CONSTANTS s1, s2, s3, v1

MCServer == {s1, s2, s3}
TwoServers == {s1, s2}
MCMortal == {s3, v1}
MCViewer == {v1}
Alike == Permutations(TwoServers)
=============================================================================
