---------------------------- MODULE MCHttpServer ----------------------------
(* A plain request, an upload and another plain request on one connection.    *)
EXTENDS HttpServer

MCUploads == {2}
=============================================================================
