------------------------------- MODULE Status -------------------------------
(***************************************************************************)
(* The status each kind of monitor gives to what it measures.  A status is *)
(* a number, as in the code: the lower, the worse.                         *)
(***************************************************************************)
EXTENDS Naturals

RAGUnknown == 0
RAGError == 1
RAGRed == 2
RAGAmber == 3
RAGGreen == 4
RAG == RAGUnknown..RAGGreen

Band(level, amber, red) ==
    IF level >= red THEN RAGRed ELSE IF level >= amber THEN RAGAmber ELSE RAGGreen

\* Disk, cpu and memory: usage in tenths of a percent, threshold in percent.
UsageStatus(usage, threshold) == Band(usage, 9 * threshold, 10 * threshold)

\* Docker: 90% of the threshold, rounded down to a number of restarts.
AmberRestarts(threshold) == (9 * threshold) \div 10
RestartStatus(restarts, threshold) == Band(restarts, AmberRestarts(threshold), threshold)

\* Ping, when it is answered; an error is red here, not RAGError.
PingStatus(ms, amberThreshold) == IF ms >= amberThreshold THEN RAGAmber ELSE RAGGreen

\* Health check: the code it expects, or any below 300, is green.
HealthStatus(code, respCode) ==
    IF code = respCode \/ code < 300 THEN RAGGreen
    ELSE IF code >= 500 THEN RAGRed ELSE RAGAmber

\* The arrow of a notification: none for a first result; down if unchanged.
ResultArrow(prev, result) ==
    IF prev = RAGUnknown THEN "none" ELSE IF result > prev THEN "up" ELSE "down"
=============================================================================
