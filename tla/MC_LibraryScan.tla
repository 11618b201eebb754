-------------------------- MODULE MC_LibraryScan --------------------------
(***************************************************************************)
(* A library with a playlist in its root and a directory for one song;     *)
(* the FLAC version of the song lies in a directory that is not part of    *)
(* the library.                                                            *)
(***************************************************************************)
EXTENDS LibraryScan, TLC

CONSTANTS root, album, hifi, song, lossless, list

HomeDef  == song :> album @@ album :> root @@ lossless :> hifi @@ list :> root
AllThere == {<<HomeDef[p], p>> : p \in DOMAIN HomeDef}
NoSong   == AllThere \ {<<album, song>>}
FlacDef  == song :> lossless @@ lossless :> NoFile @@ list :> NoFile
SongsDef == list :> {song}
=============================================================================
