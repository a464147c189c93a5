------------------------------- MODULE MCWalk -------------------------------
(* Small instances of Walk for TLC. *)
EXTENDS Walk

CONSTANTS a, b, f, g, v

\* An album with a photo, a video and an album of its own, both tagged.
Albums == {<<a>>, <<a, f>>, <<a, v>>, <<a, b>>, <<a, b, g>>}
TaggedAlbums == {<<a>>, <<a, b>>}
AlbumHref == <<a>>
=============================================================================
