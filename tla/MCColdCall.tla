------------------------------ MODULE MCColdCall ------------------------------
(***************************************************************************)
(* One call, a hangup and a transcript delivery, and one redelivery or     *)
(* crash.                                                                  *)
(***************************************************************************)
EXTENDS ColdCall, TLC
CONSTANTS call1, rf1, h1, t1
OneCall == [d \in Hangups \cup Transcripts |-> call1]
OneCandidate == [c \in {call1} |-> rf1]
=============================================================================
