---------------------------- MODULE MCHttpLimits ----------------------------
EXTENDS HttpLimits
CONSTANTS status, card, q1, q2, q3, p1
MCServer == {status, card}
MCRequest == {q1, q2, q3}
MCClient == {p1}
============================================================================
