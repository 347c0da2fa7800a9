----------------------------- MODULE MCBlobStore -----------------------------
(* Two blobs, one a prefix of the other, and the empty one.                   *)
EXTENDS BlobStore
MCContents == {<<>>, <<"x">>, <<"x", "y">>}
MCHashes == {"h0", "h1", "h2"}
MCSha256 == [c \in MCContents |-> CASE Len(c) = 0 -> "h0" [] Len(c) = 1 -> "h1" [] OTHER -> "h2"]
=============================================================================
