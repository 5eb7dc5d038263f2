---------------------------- MODULE MCHttpDownloader ----------------------------
(***************************************************************************)
(* One downloader that is started up to three times.                       *)
(***************************************************************************)
EXTENDS HttpDownloader

MCMaxStarts == 3
=============================================================================
