----------------------------- MODULE MCBatchQueue -----------------------------
(* Instances of BatchQueue for TLC.                                          *)
EXTENDS BatchQueue, TLC

CONSTANTS w1, w2, r1, r2, r3

OneWorker == {w1}
TwoWorkers == {w1, w2}
ThreeRecipients == {r1, r2, r3}

NoLeaver == {}
OneLeaver == {r1}
TwoRecipients == {r1, r2}

\* Two keys, the first of two recipients.
ThreeIds == <<<<r1, r2, r3>>>>
\* One key of two recipients.
TwoIds == <<<<r1, r2>>>>

WorkersAlike == Permutations(TwoWorkers)
=============================================================================
