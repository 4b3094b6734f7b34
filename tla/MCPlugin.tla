-------------------------------- MODULE MCPlugin --------------------------------
(* Plugin for TLC: a sector file of one airport, and lines that are for the    *)
(* authentication module in all spellings, for no module, and for no one.      *)
EXTENDS Plugin

MCSector == <<<<"EDDK">>>>
MCPrefixed == {".vatger", ".VATGER", ".vatgerX"}
MCLower == [w \in {"AUTH"} |-> "auth"]
MCLines ==
  {<<".vatger", "auth", "start">>, <<".VATGER", "AUTH", "status">>,
   <<".vatgerX", "auth", "start">>, <<".vatger", "auth">>, <<".vatger", "sr", "start">>,
   <<".vatger">>, <<"auth", "start">>}
=============================================================================
