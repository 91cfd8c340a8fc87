---------------------------- MODULE MCHttpClient ----------------------------
(* Three requests compete for two places on the line and one or two waiting.  *)
EXTENDS HttpClient
=============================================================================
