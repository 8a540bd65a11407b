------------------------- MODULE MCRealtimeSession -------------------------
EXTENDS RealtimeSession

\* A max_output_tokens that a request may have.
CONSTANT low
=============================================================================
