------------------------- MODULE MCAudioInputReader -------------------------
EXTENDS AudioInputReader

\* The device stays attached.
PresentStatuses == {"ok", "error", "stalled"}
\* An error is handled like a stall that clears.
OkStalledOrGone == {"ok", "stalled", "gone"}
=============================================================================
