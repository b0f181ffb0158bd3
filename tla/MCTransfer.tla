----------------------------- MODULE MCTransfer -----------------------------
(***************************************************************************)
(* Transfer for TLC.  Every kind of source and every kind of target comes, *)
(* but not every pair: what an engine leaves behind matters to no target.  *)
(* Two downloads at the daemon are a magnet link's metadata and its        *)
(* torrent, or a lost one and its retry; one fault comes at any point; two *)
(* remotes, two parts and two reporters beside the run are enough for each *)
(* of them to fail, overtake or repeat the other.                          *)
(***************************************************************************)
EXTENDS Transfer

MCRoutes ==
  {<<"mega", "rclone">>, <<"magnet", "telegram">>, <<"media", "telegram">>,
   <<"link", "telegram">>, <<"drive", "viking">>, <<"tgmsg", "telegram">>,
   <<"slashc", "telegram">>}
=============================================================================
