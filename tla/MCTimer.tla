------------------------------- MODULE MCTimer -------------------------------
\* Two Tasks: a stale one beside the one of the last start().
EXTENDS TimerProps
=============================================================================
