-------------------------- MODULE MCDownloadStream --------------------------
(* The instances of DownloadStream need no model values: the configurations *)
(* give the sizes of the archive, its padding and the channel's window.     *)
EXTENDS DownloadStream
=============================================================================
