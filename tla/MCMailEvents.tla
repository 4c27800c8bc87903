----------------------------- MODULE MCMailEvents -----------------------------
(* Instances of MailEvents for TLC.                                           *)
EXTENDS MailEvents, TLC

CONSTANTS r1, r2, h1, h2, k1

TwoRecipients == {r1, r2}
Nobody == {}
OneBatched == {r1}
OneHook == {k1}
OneHandler == {h1}
TwoHandlers == {h1, h2}

\* Calls differ by their name alone.
HandlersAlike == Permutations(Handlers)
=============================================================================
