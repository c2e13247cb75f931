-------------------------- MODULE MCRealtimeSession --------------------------
EXTENDS RealtimeSession
MCSettings ==
  {Defaults, [turns |-> "interrupt", transcribed |-> FALSE], [turns |-> "off", transcribed |-> TRUE]}
=============================================================================
