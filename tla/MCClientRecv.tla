---------------------------- MODULE MCClientRecv ----------------------------
(***************************************************************************)
(* Two instances of MsysClient that TLC checks in one run: a caller beside *)
(* a consumer, or beside callers that also send.  In the second msysd      *)
(* sends no record, and one call is in progress or about to be.            *)
(***************************************************************************)
EXTENDS MsysClient, SequencesExt

Consumed == lastSeq # 0 \/ \E r \in Consumer : mode[r] # "none" \/ reported[r] # "none"
Sent ==
    \/ 0 \in ToSet(out)
    \/ \E c \in Sender : pc[c] # "idle" \/ result[c] # Nothing

\* Bound: what keeps a choice of the application or of msysd out of the run.
Apart ==
    /\ ~(Consumed /\ Sent)
    /\ Sent => nSent = 0 /\ Work <= 1
=============================================================================
