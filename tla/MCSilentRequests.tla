---------------------------- MODULE MCSilentRequests ----------------------------
(* SilentRequests, on the executor's clock, for TLC: a sector file with an     *)
(* airport that has two entries, one without an ICAO code, one whose name      *)
(* comes first, and so many airports that a round may overrun.                 *)
EXTENDS UpdateRounds

MCSector == <<<<"EDDK", "Cologne-Bonn">>, <<"Heliport">>, <<"Frankfurt", "EDDF">>, <<"EDDK">>,
              <<"EDDM">>>>
=============================================================================
