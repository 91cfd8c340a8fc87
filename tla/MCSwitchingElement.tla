------------------------- MODULE MCSwitchingElement -------------------------
(* Two clients and two media, with and without media_only_when_used.          *)
EXTENDS SwitchingElement
=============================================================================
