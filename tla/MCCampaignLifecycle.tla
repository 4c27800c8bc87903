------------------------- MODULE MCCampaignLifecycle -------------------------
(* Instances of CampaignLifecycle for TLC.                                    *)
EXTENDS CampaignLifecycle

CONSTANTS u1, u2, c1, w1

OneUser == {u1}
TwoUsers == {u1, u2}
NoCron == {}
OneCron == {c1}
OneWorker == {w1}

\* What a caller asks updateCampaignStatus for: nothing in the code does, and the
\* crons have work only if somebody schedules.
AskedFor == {"SCHEDULED"}
=============================================================================
