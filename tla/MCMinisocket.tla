---------------------------- MODULE MCMinisocket ----------------------------
(* Minisocket with Answers numbers for what the server transmits before its *)
(* FIN (SYNACKs, data) and Sends numbers for what a client does (SYN, data).*)
EXTENDS Minisocket

CONSTANTS Answers, Sends
Transmissions == [s \in Socket |-> IF s = Server THEN Answers ELSE Sends]
=============================================================================
