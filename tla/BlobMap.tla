-------------------------------- MODULE BlobMap --------------------------------
(***************************************************************************)
(* What the blob table of a request source (query_source::set_blob and   *)
(* get_blob, r1.2/query_source.cc) promises: a map from part names to the *)
(* uploaded part; a later set for a name replaces the earlier one, and a  *)
(* get returns the part last set for the name, or nothing.                *)
(***************************************************************************)
CONSTANTS
  BlobNames,   \* the multipart field names
  Infos,       \* the uploaded parts (len_string: position and size)
  Missing      \* get_blob's null result

VARIABLES
  blobs,       \* the part each name maps to, or Missing
  got          \* <<name, what get returned>> for the last get, or <<>>

mvars == <<blobs, got>>

Init ==
  /\ blobs = [n \in BlobNames |-> Missing]
  /\ got = <<>>

Set(n, i) ==
  /\ blobs' = [blobs EXCEPT ![n] = i]
  /\ UNCHANGED got

Get(n) ==
  /\ got' = <<n, blobs[n]>>
  /\ UNCHANGED blobs

Next == \E n \in BlobNames : Get(n) \/ \E i \in Infos : Set(n, i)

Spec == Init /\ [][Next]_mvars

=============================================================================
