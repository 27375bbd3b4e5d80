------------------------------ MODULE MCBlobTable ------------------------------
(* Five names (chars as a signed-char build reads them): "a", "b", "ab" and *)
(* "ba", which share chains with "a" and "b" in a five-slot table, and the  *)
(* byte 200, whose negative char makes the unsigned hash wrap.              *)
EXTENDS BlobTable

MCBlobNames == {<<97>>, <<98>>, <<97, 98>>, <<98, 97>>, <<-56>>}
=============================================================================
