--------------------------- MODULE MCHttpDownload ---------------------------
(* HttpDownload with a file of a few chunks. *)
EXTENDS HttpDownload

=============================================================================
