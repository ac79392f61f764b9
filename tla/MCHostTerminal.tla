--------------------------- MODULE MCHostTerminal ---------------------------
(* HostTerminal for TLC: two columns, so that lines wrap and scroll. *)
EXTENDS HostTerminal

MCConfigs ==
  {[input |-> "RAW", render |-> "ANSI_STREAM", rows |-> 2],
   [input |-> "RAW", render |-> "PLAIN_SCREEN", rows |-> 1],
   [input |-> "LINE", render |-> "PLAIN_STREAM", rows |-> 2],
   [input |-> "LINE", render |-> "ANSI_SCREEN", rows |-> 2]}

MCRawBytes == {"a", "c", "x", "NL", "BS", "ESC", "[", "TAB"}

MCLineTexts == UNION {[1 .. n -> {"a", "c", "BS", "CR"}] : n \in 0 .. 4} \cup {<<"x">>}
=============================================================================
