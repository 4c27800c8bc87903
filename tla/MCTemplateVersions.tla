-------------------------- MODULE MCTemplateVersions --------------------------
(* Instances of TemplateVersions for TLC.                                     *)
EXTENDS TemplateVersions, TLC

CONSTANTS r1, r2, r3, r4, r5

TwoRequests == {r1, r2}
FiveRequests == {r1, r2, r3, r4, r5}

\* Requests differ by their name alone.
RequestsAlike == Permutations(Requests)
=============================================================================
