---------------------------- MODULE FallbackMode ----------------------------
(***************************************************************************)
(* The fallback mode string and what the server derives from it            *)
(* (fallback/mode.go).  The three documented modes are their own strings;  *)
(* "" stands for an unset mode and "other" for any unsupported string.     *)
(***************************************************************************)

ModeWriteThrough == "write_through"
ModeReadFallback == "read_fallback"
ModeBoth         == "both"

SupportedModes == {ModeWriteThrough, ModeReadFallback, ModeBoth}
ModeStrings    == SupportedModes \cup {"", "other"}

\* An unset mode means both.
NormalizeMode(mode) == IF mode = "" THEN ModeBoth ELSE mode

\* Every mode but read_fallback writes, an unsupported one included.
WriteEnabled(mode) == NormalizeMode(mode) # ModeReadFallback

\* The check the configuration makes before the server is built.
ValidMode(mode) == mode = "" \/ mode \in SupportedModes
=============================================================================
