---------------------------- MODULE MCRemotePage ----------------------------
(* Two cars, so that two connections can be under way; a third press of    *)
(* the scan button after two unanswered ones; Bluetooth off and on again.  *)
EXTENDS RemotePage
=============================================================================
