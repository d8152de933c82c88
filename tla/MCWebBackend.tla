---------------------------- MODULE MCWebBackend ----------------------------
(***************************************************************************)
(* WebBackend with two connect requests.  The requests are model values.   *)
(* TwoCancels and TwoDisconnects are for larger instances, by hand.        *)
(***************************************************************************)
EXTENDS WebBackend

CONSTANTS c1, c2, x1, x2, d1, d2, s1

TwoConnects == {c1, c2}
OneCancel == {x1}
TwoCancels == {x1, x2}
OneDisconnect == {d1}
TwoDisconnects == {d1, d2}
OneShutdown == {s1}
=============================================================================
