----------------------------- MODULE MCRealtime -----------------------------
\* Two connections, two tickets and one topic, with a channel of two
\* messages so that receivers lag.
EXTENDS Realtime, TLC

CONSTANTS a, b

MCConns == {a, b}
MCTopics == {"ev1"}

=============================================================================
