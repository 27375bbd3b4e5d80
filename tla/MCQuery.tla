------------------------------ MODULE MCQuery ------------------------------
(***************************************************************************)
(* Query.tla instantiated for TLC: two resources on one table.            *)
(*                                                                         *)
(*  "lookup": key columns a, b (ordered index 1, in that order), f (a     *)
(*  LIKE filter on a nullable column), id (the primary key, also the      *)
(*  pathinfo column) and u (unique index 2); deletes allowed; updatable   *)
(*  columns of char, int and blob type.                                    *)
(*  "scan": a table scan through a sorted ordered index, filter f.        *)
(*                                                                         *)
(* The query strings, paths and forms reach every plan, a filtered        *)
(* ordered-index scan, a name that is not a key column, a trailing slash,*)
(* an interpreted update and a blob write.                                *)
(***************************************************************************)
EXTENDS Query, TLC

MCNameOrder == <<"a", "b", "f", "id", "u", "zz">>

MCPlanOrder ==
  <<"NoPlan", "Scan", "PrimaryKey", "UniqueIndexAccess", "OrderedIndexScan">>

KeyCol(nm, pl, ix, fl, nx, ty, nu, op) ==
  [name |-> nm, plan |-> pl, index |-> ix, filter |-> fl, next |-> nx,
   type |-> ty, nullable |-> nu, relop |-> op]

Index(fc, np, dk, so) ==
  [first |-> fc, parts |-> np, consts |-> 0, constPlan |-> "NoPlan",
   dict |-> dk, sorted |-> so]

FilterF == KeyCol("f", "Scan", -1, TRUE, -1, "Varchar", TRUE, "LIKE")

LookupDir ==
  [keyCols   |-> (0 :> KeyCol("a", "OrderedIndexScan", 1, FALSE, 1, "Varchar", FALSE, "EQ"))
                 @@ (1 :> KeyCol("b", "OrderedIndexScan", 1, FALSE, -1, "Int", FALSE, "EQ"))
                 @@ (2 :> FilterF)
                 @@ (3 :> KeyCol("id", "PrimaryKey", 0, FALSE, -1, "Int", FALSE, "EQ"))
                 @@ (4 :> KeyCol("u", "UniqueIndexAccess", 2, FALSE, -1, "Varchar", FALSE, "EQ")),
   indexes   |-> (0 :> Index(3, 1, "PrimaryKey", FALSE))
                 @@ (1 :> Index(0, 2, "OrderedIndex", TRUE))
                 @@ (2 :> Index(4, 1, "UniqueHashIndex", FALSE)),
   indexScan |-> [named |-> FALSE, sorted |-> FALSE, dict |-> "Missing"],
   tableScan |-> FALSE, pathinfo |-> <<3>>, pathAlways |-> FALSE,
   allowDelete |-> TRUE, defaultKey |-> -1,
   updatable |-> <<"Varchar", "Int", "Blob">>]

ScanDir ==
  [keyCols   |-> (0 :> FilterF),
   indexes   |-> (0 :> Index(-1, 0, "PrimaryKey", FALSE)),
   indexScan |-> [named |-> TRUE, sorted |-> TRUE, dict |-> "OrderedIndex"],
   tableScan |-> TRUE, pathinfo |-> <<>>, pathAlways |-> FALSE,
   allowDelete |-> FALSE, defaultKey |-> -1,
   updatable |-> <<"Varchar">>]

MCDirs == {LookupDir, ScanDir}

(***************************************************************************)
(* Configurations that lean on the default key and on the dictionary:     *)
(*  "const": default key 1 with a constant part, which seeds an ordered   *)
(*  index scan; index 2 is declared unique but is an ordered index in the *)
(*  dictionary.                                                            *)
(*  "nodefault": default key 0 without constants (plan stays NoPlan with  *)
(*  an active index); the named index_scan is missing from the dictionary.*)
(***************************************************************************)
ConstDir ==
  [LookupDir EXCEPT
     !.indexes = (0 :> Index(3, 1, "PrimaryKey", FALSE))
                 @@ (1 :> [Index(0, 2, "OrderedIndex", TRUE) EXCEPT
                             !.consts = 1, !.constPlan = "OrderedIndexScan"])
                 @@ (2 :> Index(4, 1, "OrderedIndex", FALSE)),
     !.pathinfo = <<>>, !.defaultKey = 1, !.updatable = <<"Int">>]

NoDefaultDir ==
  [LookupDir EXCEPT
     !.indexScan = [named |-> TRUE, sorted |-> FALSE, dict |-> "Missing"],
     !.defaultKey = 0, !.allowDelete = FALSE, !.updatable = <<"Int">>]

MCConfigDirs == {ConstDir, NoDefaultDir}

MCArgChoices ==
  { <<>>,
    << <<"id", "7">> >>,
    << <<"a", "x">>, <<"f", "x">> >>,
    << <<"b", "7">> >>,
    << <<"f", "x">>, <<"u", "x">>, <<"f", "7">>, <<"zz", "7">> >> }

MCPathChoices == { <<>>, <<"/", "7">>, <<"/", "7", "/">> }

MCFormChoices == { <<>>, 1 :> "x", 2 :> "@++", 3 :> "data" }

=============================================================================
