------------------------------- MODULE MCRetry -------------------------------
(* Retry with a socket that has transmitted before (its SYN).               *)
EXTENDS Retry

SentBefore == {ALARM_SUCCESS}
=============================================================================
