------------------------------- MODULE BlobTable -------------------------------
(***************************************************************************)
(* The blob table of query_source (r1.2/query_source.cc): BLOB_TABLE_SIZE *)
(* chains of BLOB records, allocated from the request pool.  set_blob()  *)
(* hashes the name (h = 37 * h + *s over its chars, in unsigned int, then *)
(* h % BLOB_TABLE_SIZE) and pushes a record at the head of that chain;    *)
(* get_blob() hashes the name again and walks the chain to the first      *)
(* record whose name strcmp()s equal.                                     *)
(*                                                                         *)
(* A name is a sequence of char values as the build reads them: bytes    *)
(* above 127 are negative where char is signed.  Unsigned arithmetic is   *)
(* arithmetic modulo 2^32, so the hash is computed exactly and reduced    *)
(* once; names are short enough for the exact value to stay within TLC's  *)
(* integers.                                                               *)
(***************************************************************************)
EXTENDS Integers, Sequences

CONSTANTS
  BlobNames, Infos, Missing,
  BLOB_TABLE_SIZE,   \* defined in query_source.h, not in the repository
  MaxSets            \* bound: set_blob() calls per request (the pool grows)

ASSUME \A n \in BlobNames : Len(n) <= 3 /\ \A k \in 1..Len(n) : n[k] \in -128..255

VARIABLES
  table,   \* blob_table: slot -> chain, head first, of [name, info] records
  got,     \* <<name, what get_blob() returned>> for the last call, or <<>>
  nSets    \* set_blob() calls so far

vars == <<table, got, nSets>>

Slots == 0..BLOB_TABLE_SIZE - 1

\* The unsigned int h after "for(s = name; *s; s++) h = mult * h + *s",
\* as an exact integer (its residue modulo 2^32 is the C value).
RECURSIVE StrHash(_, _)
StrHash(name, mult) ==
  IF name = <<>> THEN 0
  ELSE mult * StrHash(SubSeq(name, 1, Len(name) - 1), mult) + name[Len(name)]

\* (x mod 2^32) % S, without forming 2^32: 2^32 = (2^16)^2.
Pow32Mod(S) == ((2^16 % S) * (2^16 % S)) % S
UMod(x, S) == IF x >= 0 THEN x % S ELSE (Pow32Mod(S) + (x % S)) % S

\* The slot set_blob() and get_blob() each compute with their own copy of
\* the hash loop.
BlobSlot(name) == UMod(StrHash(name, 37), BLOB_TABLE_SIZE)
LookupSlotMult31(name) == UMod(StrHash(name, 31), BLOB_TABLE_SIZE)
LookupSlot(name) == UMod(StrHash(name, 37), BLOB_TABLE_SIZE)

\* The info of the first record named name in a chain, or the null pointer.
Find(chain, name) ==
  LET hits == SelectSeq(chain, LAMBDA b : b.name = name)
  IN  IF hits = <<>> THEN Missing ELSE hits[1].info

Init ==
  /\ table = [h \in Slots |-> <<>>]
  /\ got = <<>>
  /\ nSets = 0

\* query_source::set_blob(name, pos, sz).
SetBlob(name, info) ==
  /\ nSets < MaxSets
  /\ LET h == BlobSlot(name)
     IN  table' = [table EXCEPT ![h] = <<[name |-> name, info |-> info]>> \o @]
  /\ nSets' = nSets + 1
  /\ UNCHANGED got

\* query_source::get_blob(name).
GetBlob(name) ==
  /\ got' = <<name, Find(table[LookupSlot(name)], name)>>
  /\ UNCHANGED <<table, nSets>>

Next == \E n \in BlobNames : GetBlob(n) \/ \E i \in Infos : SetBlob(n, i)

Spec == Init /\ [][Next]_vars

(***************************************************************************)
(* Properties.                                                             *)
(***************************************************************************)

\* The table implements the map: after any sequence of set_blob() calls,
\* get_blob() returns the part most recently set for exactly that name,
\* whatever other names share its chain, and a name never set is not found.
\* The map a name denotes is the first match in the chain its hash selects.
Map == INSTANCE BlobMap
         WITH blobs <- [n \in BlobNames |-> Find(table[BlobSlot(n)], n)]
ImplementsBlobMap == Map!Spec

=============================================================================
