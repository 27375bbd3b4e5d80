------------------------------- MODULE Query -------------------------------
(***************************************************************************)
(* Query() of Query.cc on one ndb_instance: the per-thread NDB session    *)
(* that serves a sequence of HTTP requests.  A request is a main request  *)
(* (the query_source closes the batch: keep_tx_open is false) or a        *)
(* subrequest (Apache_subrequest_query_source: keep_tx_open is true, the  *)
(* transaction stays open for the requests that follow).  A "chain" is    *)
(* the subrequests served since the last main request, and the main       *)
(* request that ends it.                                                   *)
(*                                                                         *)
(* Each step of Query() is an action, in the order of the code: the       *)
(* dictionary and method switch, one query-string argument, one character *)
(* of the path_info scan, the 404 check, opening the transaction, the     *)
(* index object, the operation setup, one key part, one constant, the     *)
(* scan filter, the plan action, and the abort1/abort2 exits.  The NDB    *)
(* engine is an abstract transaction table; its calls may fail, and a     *)
(* null or wild pointer dereference crashes the worker, which restarts    *)
(* with a fresh instance.                                                  *)
(***************************************************************************)
EXTENDS Integers, Sequences, FiniteSets, KeyColSearch, MySQLValue

CONSTANTS
  Dirs,          \* the resource configurations (config::dir) requests address
  ArgChoices,    \* query strings, already split into <<key, value>> pairs
  PathChoices,   \* path_info strings, as sequences of one-character strings
  FormChoices,   \* POST form data: functions from updatable positions to text
  TxIds,         \* NdbTransaction objects the engine can hand out
  MaxReadOps,    \* server_config->max_read_operations
  MaxChain,      \* bound: requests in one chain (subrequests + main request)
  PlanOrder,     \* enum AccessPlan, lowest value first
  NoTx           \* model value: i->tx == 0

ASSUME MaxReadOps \in Nat \ {0} /\ MaxChain \in Nat \ {0}
ASSUME PlanOrder[1] = "NoPlan" /\ Len(PlanOrder) = 5

\* Access plans (enum AccessPlan) and their order.
NoPlan == "NoPlan"
Scan == "Scan"
PrimaryKey == "PrimaryKey"
UniqueIndexAccess == "UniqueIndexAccess"
OrderedIndexScan == "OrderedIndexScan"
Plans == {PlanOrder[i] : i \in DOMAIN PlanOrder}
Rank(p) == CHOOSE i \in DOMAIN PlanOrder : PlanOrder[i] = p
MaxPlan(S) == CHOOSE p \in S : \A o \in S : Rank(o) <= Rank(p)

OK == 0
ScanObjects == {"Table_Scan", "Ordered_index"}

-----------------------------------------------------------------------------
VARIABLES
  tx,           \* i->tx: the instance's open transaction, or NoTx
  aborted,      \* i->flag.aborted
  nReadOps,     \* i->n_read_ops: read data_operation slots in use
  txState,      \* engine: each NdbTransaction free, open, closed or committed
  txTaint,      \* history: the transaction holds operations of a failed request
  pc,           \* the step of Query() the worker is at
  req,          \* the request being served
  q,            \* struct QueryItems Q, and the other locals of Query()
  rc,           \* response_code
  loop,         \* loop counters of the argument, path_info and key-part loops
  resultCols,   \* q->data->result_cols: "none" or "pool" (ap_pcalloc'ed)
  chainLen,     \* requests completed in the current chain
  chainFailed,  \* history: a request of the current chain failed
  chainAborted  \* history: a request of the current chain took abort2

inst   == <<tx, aborted, nReadOps>>             \* the ndb_instance
engine == <<txState, txTaint>>
chain  == <<chainLen, chainFailed, chainAborted>>
vars   == <<inst, engine, pc, req, q, rc, loop, resultCols, chain>>

Methods == {"GET", "POST", "DELETE", "PUT"}

Requests ==
  [dir : Dirs, method : Methods, http : Methods, keep : BOOLEAN,
   args : ArgChoices, path : PathChoices, form : FormChoices,
   formOK : BOOLEAN]

\* The Q structure and data_operation as Query() initialises them.
NewQ(d) ==
  [plan |-> NoPlan, plan0 |-> NoPlan, active |-> -1,
   keys |-> [n \in DOMAIN d.keyCols |-> NULL],
   used |-> 0, filters |-> <<>>, matched |-> {},
   setup |-> "SetupRead", action |-> "Read",
   idxobj |-> "none", op |-> "none", setVals |-> <<>>,
   registered |-> FALSE, opTx |-> NoTx,
   bound |-> <<>>, conds |-> <<>>]

\* The request record of an idle worker: Query()'s locals are dead.
IdleReq ==
  [dir |-> CHOOSE d \in Dirs : TRUE, method |-> "GET", http |-> "GET",
   keep |-> FALSE, args |-> <<>>, path |-> <<>>,
   form |-> CHOOSE f \in FormChoices : DOMAIN f = {}, formOK |-> TRUE]

NoLoop == [argi |-> 1, s |-> 0, itemLen |-> 0, elem |-> -1, col |-> -1, cst |-> 0]

TypeOK ==
  /\ tx \in TxIds \cup {NoTx}
  /\ aborted \in BOOLEAN
  /\ nReadOps \in 0..MaxReadOps
  /\ txState \in [TxIds -> {"free", "open", "closed", "committed"}]
  /\ txTaint \in [TxIds -> BOOLEAN]
  /\ pc \in {"Idle", "Begin", "Args", "PathStart", "Path", "CheckPlan",
             "OpenTx", "IndexObj", "Setup", "BindKey", "BindConst",
             "Filters", "Action", "Finish", "Abort1", "Abort2", "Done",
             "Crashed"}
  /\ pc # "Idle" => req \in Requests
  /\ q.plan \in Plans /\ q.plan0 \in Plans
  /\ resultCols \in {"none", "pool"}
  /\ chainLen \in 0..MaxChain
  /\ chainFailed \in BOOLEAN
  /\ chainAborted \in BOOLEAN

-----------------------------------------------------------------------------
\* Variants of the plan comparison with a slip: the plan taken without the
\* rank comparison, and the plan taken without its index.
AdoptAlways(qq, kc) == [qq EXCEPT !.plan = kc.plan, !.active = kc.index]
AdoptPlanOnly(qq, kc) ==
  IF Rank(kc.plan) > Rank(qq.plan) THEN [qq EXCEPT !.plan = kc.plan] ELSE qq

\* set_key(): a column whose implied plan ranks higher sets plan and index.
AdoptPlan(qq, kc) ==
  IF Rank(kc.plan) > Rank(qq.plan)
  THEN [qq EXCEPT !.plan = kc.plan, !.active = kc.index] ELSE qq

\* set_key(): record a matched key column, push a filter column on the
\* filter list, and adopt the column's implied plan.
SetKey(qq, n, value, d) ==
  LET kc == d.keyCols[n] IN
  AdoptPlan([qq EXCEPT !.filters = IF kc.filter THEN Append(@, n) ELSE @,
                       !.keys[n] = value, !.used = @ + 1,
                       !.matched = @ \cup {n}], kc)

KeyNames(d) == [n \in DOMAIN d.keyCols |-> d.keyCols[n].name]

\* path_info[s] for 0 <= s <= Len(p): the terminating NUL at s = Len(p).
CharAt(p, s) == IF s = Len(p) THEN "NUL" ELSE p[s + 1]

\* ap_pstrndup(s + 1, itemLen): at most itemLen characters, up to the NUL.
RECURSIVE Concat(_)
Concat(cs) == IF cs = <<>> THEN "" ELSE Head(cs) \o Concat(Tail(cs))
Segment(p, s, len) ==
  Concat(SubSeq(p, s + 2, IF s + 1 + len < Len(p) THEN s + 1 + len ELSE Len(p)))

\* *(s-1) == '/' on the path_info's last character.  For an empty
\* path_info this reads the byte before the string: either outcome.
LastIsSlash(p) == IF p = <<>> THEN BOOLEAN ELSE {p[Len(p)] = "/"}

\* index_object::next_key_part(): TRUE while parts of the index remain.
\* (index_object.h is not in the repository: modelled from the spec.)
NextKeyPart(qq, d) == Len(qq.bound) < d.indexes[qq.active].parts

\* Plan::SetupRead: the read call registered on the operation.
ReadSetup(qq, d) ==
  LET ix == IF qq.plan = Scan /\ d.indexScan.named THEN d.indexScan
            ELSE d.indexes[qq.active]
  IN  CASE qq.plan = Scan /\ ~d.indexScan.named -> "readTuples"
        [] qq.plan \in {Scan, OrderedIndexScan}  ->
              IF ix.sorted THEN "readTuplesSorted" ELSE "readTuplesCommitted"
        [] OTHER                                 -> "readTuple"

\* set_up_write(): the mvalue of every updatable column the form supplies.
SetVals(d, form) ==
  [n \in DOMAIN d.updatable |->
     IF n \in DOMAIN form /\ d.updatable[n] # NULL
     THEN WriteUseValue(d.updatable[n], form[n])
     ELSE "unset"]

WriteSetup(qq, sv) ==
  CASE qq.setup = "SetupInsert"                      -> "insertTuple"
    [] \E n \in DOMAIN sv : sv[n] = "use_interpreted" -> "interpretedUpdateTuple"
    [] OTHER                                          -> "writeTuple"

(***************************************************************************)
(* Plan::Write: the outcomes of its loop over set_vals from column n on,  *)
(* eqr being the last setValue() result.  A column without an mvalue is   *)
(* skipped; an unusable one sets eqr = -4 and returns 500; a failing      *)
(* setValue(), incValue() or get_auto_inc_value() returns 500; a use_blob *)
(* column dereferences the blob handle even when getBlobHandle() returned *)
(* null (a crash).  Unset columns only: eqr keeps its initial 1.           *)
(***************************************************************************)
Returns(code) == [crash |-> FALSE, code |-> code]
WriteCrash == [crash |-> TRUE, code |-> 500]

RECURSIVE WriteOutcomes(_, _, _)
WriteOutcomes(sv, n, eqr) ==
  IF n > Len(sv) THEN {Returns(eqr)}
  ELSE IF sv[n] = "unset" THEN WriteOutcomes(sv, n + 1, eqr)
  ELSE IF ~MvalIsUsable(sv[n]) THEN {Returns(500)}
  ELSE {Returns(500)}
       \cup (IF sv[n] = "use_blob" THEN {WriteCrash} ELSE {})
       \cup WriteOutcomes(sv, n + 1, 0)

-----------------------------------------------------------------------------
Init ==
  /\ tx = NoTx /\ aborted = FALSE /\ nReadOps = 0
  /\ txState = [t \in TxIds |-> "free"]
  /\ txTaint = [t \in TxIds |-> FALSE]
  /\ pc = "Idle"
  /\ req = IdleReq /\ q = NewQ(IdleReq.dir) /\ rc = OK
  /\ loop = NoLoop /\ resultCols = "none"
  /\ chainLen = 0 /\ chainFailed = FALSE /\ chainAborted = FALSE

NoForm == CHOOSE f \in FormChoices : DOMAIN f = {}

(***************************************************************************)
(* A request reaches the worker.  A subrequest keeps the transaction open *)
(* and is a GET to Apache (r->method_number), its req_method coming from  *)
(* the ndb_request_method note; its form data is always read (OK).  A     *)
(* chain has at most MaxChain requests, the last a main request.          *)
(***************************************************************************)
Receive ==
  /\ pc = "Idle"
  /\ \E r \in Requests :
       /\ r.keep => chainLen < MaxChain - 1 /\ r.http = "GET" /\ r.method # "PUT"
       /\ ~r.keep => r.http = r.method
       /\ r.method # "POST" => r.form = NoForm /\ r.formOK
       /\ req' = r
       /\ q' = NewQ(r.dir)
  /\ pc' = "Begin"
  /\ rc' = OK /\ loop' = NoLoop /\ resultCols' = "none"
  /\ UNCHANGED <<inst, engine, chain>>

(***************************************************************************)
(* Query.cc 204-291: the table lookup, the method switch (read slot for   *)
(* GET, form data and insert detection for POST, the delete permission),  *)
(* the table_scan flag and the default key.  The early returns go through *)
(* ndb_handle_error() only: no abort path, no cleanup.                     *)
(***************************************************************************)
IsInsert(d, r) == r.method = "POST" /\ r.args = <<>> /\ d.pathinfo = <<>>

InitialPlan(d, r) ==
  LET dk == d.defaultKey IN
  IF dk >= 0 /\ d.indexes[dk].consts > 0 THEN d.indexes[dk].constPlan
  ELSE IF d.tableScan THEN Scan
  ELSE IF IsInsert(d, r) THEN PrimaryKey ELSE NoPlan

Planned(d, r) ==
  LET ip == InitialPlan(d, r)
      m  == r.method
  IN  [q EXCEPT !.plan = ip, !.plan0 = ip,
                !.active = IF d.defaultKey >= 0 THEN d.defaultKey ELSE -1,
                !.setup = CASE m = "GET" -> "SetupRead"
                            [] m = "POST" -> IF IsInsert(d, r) THEN "SetupInsert"
                                             ELSE "SetupWrite"
                            [] OTHER -> "SetupDelete",
                !.action = CASE m = "GET" -> "Read" [] m = "POST" -> "Write"
                             [] OTHER -> "Delete"]

\* i->n_read_ops < max_read_operations: a data_operation slot is free
\* (and, as a slip would write it, <= ).
ReadSlotFreeOffByOne == nReadOps <= MaxReadOps
ReadSlotFree == nReadOps < MaxReadOps

\* Begin's two outcomes: an early return with a status, or the setup done.
\* A GET takes a read slot and gets its result column array from the pool.
EarlyReturn(code) ==
  rc' = code /\ pc' = "Done" /\ UNCHANGED <<q, nReadOps, resultCols>>
Proceed(takeSlot) ==
  /\ q' = Planned(req.dir, req)
  /\ pc' = IF req.args # <<>> THEN "Args" ELSE "PathStart"
  /\ IF takeSlot THEN nReadOps' = nReadOps + 1 /\ resultCols' = "pool"
     ELSE UNCHANGED <<nReadOps, resultCols>>
  /\ UNCHANGED rc

Begin ==
  /\ pc = "Begin"
  /\ \/ EarlyReturn(500)                                  \* getTable() failed
     \/ req.method = "GET" /\ ReadSlotFree /\ Proceed(TRUE)
     \/ req.method = "GET" /\ ~ReadSlotFree /\ EarlyReturn(500)
     \/ req.method = "POST" /\ req.formOK /\ Proceed(FALSE)
     \/ /\ req.method = "POST" /\ ~req.formOK /\ req.keep \* no ndb_request_data
        /\ pc' = "Crashed"                                \* note: reads *NULL
        /\ UNCHANGED <<q, rc, nReadOps, resultCols>>
     \/ req.method = "POST" /\ ~req.formOK /\ ~req.keep /\ EarlyReturn(400)
     \/ req.method = "DELETE" /\ req.dir.allowDelete /\ Proceed(FALSE)
     \/ req.method = "DELETE" /\ ~req.dir.allowDelete /\ EarlyReturn(405)
     \/ req.method = "PUT" /\ EarlyReturn(405)              \* any other method
  /\ UNCHANGED <<tx, aborted, engine, req, loop, chain>>

\* The step of the argument loop (and, as a slip would write it, a step
\* that does not advance past a name key_col_bin_search() does not find).
ArgAdvanceKnownOnly(l, n) == IF n >= 0 THEN [l EXCEPT !.argi = @ + 1] ELSE l
ArgAdvance(l, n) == [l EXCEPT !.argi = @ + 1]

\* Query.cc 297-312: one key=value argument; unknown names are ignored.
ProcessArg ==
  /\ pc = "Args"
  /\ LET a == req.args[loop.argi]
         n == KeyColBinSearch(a[1], KeyNames(req.dir))
     IN  /\ q' = IF n >= 0 THEN SetKey(q, n, a[2], req.dir) ELSE q
         /\ loop' = ArgAdvance(loop, n)
  /\ pc' = IF loop'.argi > Len(req.args) THEN "PathStart" ELSE "Args"
  /\ UNCHANGED <<inst, engine, req, rc, resultCols, chain>>

\* Query.cc 317-324: scan path_info only when the arguments gave no plan
\* (or pathinfo is "always"); start at the end, skipping a trailing '/'.
PathStart ==
  /\ pc = "PathStart"
  /\ LET d == req.dir
         p == req.path
     IN  IF d.pathinfo # <<>> /\ (q.plan = NoPlan \/ d.pathAlways)
         THEN \E slash \in LastIsSlash(p) :
                /\ loop' = [loop EXCEPT !.s = IF slash THEN Len(p) - 2 ELSE Len(p),
                                        !.itemLen = 0,
                                        !.elem = Len(d.pathinfo) - 1]
                /\ pc' = "Path"
         ELSE /\ pc' = "CheckPlan"
              /\ UNCHANGED loop
  /\ UNCHANGED <<inst, engine, req, q, rc, resultCols, chain>>

\* Query.cc 325-333: one character, right to left; at a '/' the segment
\* after it is the value of the next pathinfo column, right to left.
PathStep ==
  /\ pc = "Path"
  /\ loop.s >= 0 /\ loop.elem >= 0
  /\ LET d == req.dir
         p == req.path
     IN  IF CharAt(p, loop.s) = "/"
         THEN /\ q' = SetKey(q, d.pathinfo[loop.elem + 1],
                             Segment(p, loop.s, loop.itemLen), d)
              /\ loop' = [loop EXCEPT !.elem = @ - 1, !.itemLen = 0, !.s = @ - 1]
         ELSE /\ loop' = [loop EXCEPT !.itemLen = @ + 1, !.s = @ - 1]
              /\ UNCHANGED q
  /\ UNCHANGED <<inst, engine, pc, req, rc, resultCols, chain>>

PathDone ==
  /\ pc = "Path"
  /\ ~(loop.s >= 0 /\ loop.elem >= 0)
  /\ pc' = "CheckPlan"
  /\ UNCHANGED <<inst, engine, req, q, rc, loop, resultCols, chain>>

\* Query.cc 339-344: a GET (r->method_number) must have some plan.
CheckPlan ==
  /\ pc = "CheckPlan"
  /\ IF req.http = "GET" /\ ~(req.dir.tableScan \/ q.active >= 0)
     THEN rc' = 404 /\ pc' = "Abort2"
     ELSE pc' = "OpenTx" /\ UNCHANGED rc
  /\ UNCHANGED <<inst, engine, req, q, loop, resultCols, chain>>

\* abort2's i->flag.aborted in keep_tx_open mode refuses a new transaction
\* (and, as a slip would write it, is never consulted).
RefusesAbortedNever == FALSE
RefusesAborted == aborted

\* Query.cc 349-364: reuse i->tx, refuse an aborted chain, or start one.
OpenTx ==
  /\ pc = "OpenTx"
  /\ \/ tx # NoTx /\ pc' = "IndexObj" /\ UNCHANGED <<tx, engine, rc>>
     \/ /\ tx = NoTx /\ RefusesAborted
        /\ rc' = 500 /\ pc' = "Abort2"
        /\ UNCHANGED <<tx, engine>>
     \/ /\ tx = NoTx /\ ~RefusesAborted
        /\ \E t \in TxIds :
             /\ txState[t] # "open"
             /\ tx' = t
             /\ txState' = [txState EXCEPT ![t] = "open"]
             /\ txTaint' = [txTaint EXCEPT ![t] = FALSE]
        /\ pc' = "IndexObj"
        /\ UNCHANGED rc
     \/ /\ tx = NoTx /\ ~RefusesAborted
        /\ rc' = 500 /\ pc' = "Abort1"                 \* startTransaction() failed
        /\ UNCHANGED <<tx, engine>>
  /\ UNCHANGED <<aborted, nReadOps, req, q, loop, resultCols, chain>>

(***************************************************************************)
(* Query.cc 369-416: the index object for the plan.  getIndex() returns   *)
(* null for an index the dictionary lacks (bad_index, 500); an index of   *)
(* the wrong kind goes to abort1 with response_code still 0.  A plan that *)
(* is none of the four leaves q->idxobj null.                              *)
(***************************************************************************)
Obj(o, code) == [obj |-> o, code |-> code]
NoObj(code) == Obj("none", code)

IndexObjectFor(d, qq) ==
  LET ix == d.indexes[qq.active] IN
  CASE qq.plan = Scan /\ ~d.indexScan.named -> Obj("Table_Scan", OK)
    [] qq.plan = Scan ->
         CASE d.indexScan.dict = "Missing"      -> NoObj(500)
           [] d.indexScan.dict # "OrderedIndex" -> NoObj(OK)
           [] OTHER                             -> Obj("Ordered_index", OK)
    [] qq.plan = PrimaryKey -> Obj("PK_index", OK)
    [] qq.active < 0 -> NoObj(500)
    [] ix.dict = "Missing" -> NoObj(500)
    [] qq.plan = UniqueIndexAccess ->
         IF ix.dict = "UniqueHashIndex" THEN Obj("Unique_index", OK) ELSE NoObj(OK)
    [] qq.plan = OrderedIndexScan ->
         IF ix.dict = "OrderedIndex" THEN Obj("Ordered_index", OK) ELSE NoObj(OK)
    [] OTHER -> NoObj(-1)                       \* falls through: no object

IndexObject ==
  /\ pc = "IndexObj"
  /\ LET io == IndexObjectFor(req.dir, q) IN
       IF io.obj # "none" \/ io.code = -1
       THEN /\ q' = [q EXCEPT !.idxobj = io.obj]
            /\ pc' = "Setup"
            /\ UNCHANGED rc
       ELSE /\ rc' = io.code
            /\ pc' = "Abort1"
            /\ UNCHANGED q
  /\ UNCHANGED <<inst, engine, req, loop, resultCols, chain>>

(***************************************************************************)
(* Query.cc 419-427: get the operation from the index object (a null      *)
(* q->idxobj crashes), then the setup module: SetupRead's read call,      *)
(* set_up_write()'s mvalues and insert/update call, or deleteTuple().     *)
(* Any non-zero return is answered 404.                                    *)
(***************************************************************************)
AfterSetup(d, qq) ==
  IF qq.plan # Scan /\ qq.active >= 0 THEN "BindKey" ELSE "Filters"

Setup ==
  /\ pc = "Setup"
  /\ IF q.idxobj = "none"
     THEN /\ pc' = "Crashed"
          /\ UNCHANGED <<q, loop, rc>>
     ELSE LET d  == req.dir
              sv == IF q.action = "Write" THEN SetVals(d, req.form) ELSE <<>>
              qq == [q EXCEPT !.registered = TRUE, !.opTx = tx, !.setVals = sv]
              op == CASE q.setup = "SetupRead" -> ReadSetup(qq, d)
                      [] q.setup = "SetupDelete" -> "deleteTuple"
                      [] OTHER -> WriteSetup(qq, sv)
          IN  \/ /\ q' = [qq EXCEPT !.op = op]
                 /\ pc' = AfterSetup(d, q)
                 /\ loop' = [loop EXCEPT !.col = IF q.active >= 0
                                                 THEN d.indexes[q.active].first
                                                 ELSE -1,
                                         !.cst = 0]
                 /\ UNCHANGED rc
              \/ /\ q' = qq                  \* op_setup() returned non-zero;
                 /\ rc' = 404                 \* its log line reads scanop,
                 /\ pc' \in IF q.idxobj \in ScanObjects  \* unset unless a scan
                           THEN {"Abort1"} ELSE {"Abort1", "Crashed"}
                 /\ UNCHANGED loop
  /\ UNCHANGED <<inst, engine, req, resultCols, chain>>

(***************************************************************************)
(* Query.cc 430-451: while (col >= 0 && Q.key_columns_used-- > 0), encode *)
(* the request's value of key column col and bind it as the next key part;*)
(* an unusable value or a failing set_key_part() is a 500.  Then follow   *)
(* next_in_key, and stop when the index object has no part left.           *)
(***************************************************************************)
BindKey ==
  /\ pc = "BindKey"
  /\ LET d == req.dir
         col == loop.col
     IN  IF col >= 0 /\ q.used > 0
         THEN LET kc == d.keyCols[col]
                  v  == q.keys[col]
                  qq == [q EXCEPT !.used = @ - 1,
                                  !.bound = Append(@, [col |-> col, value |-> v])]
              IN  \/ /\ MvalIsUsable(UseValue(kc.type, v))
                     /\ q' = qq
                     /\ loop' = [loop EXCEPT !.col = kc.next]
                     /\ pc' = IF NextKeyPart(qq, d) THEN "BindKey" ELSE "BindConst"
                     /\ UNCHANGED rc
                  \/ /\ q' = [q EXCEPT !.used = @ - 1]   \* unusable, or
                     /\ rc' = 500                      \* set_key_part() failed
                     /\ pc' = "Abort1"
                     /\ UNCHANGED loop
         ELSE /\ q' = IF col >= 0 THEN [q EXCEPT !.used = @ - 1] ELSE q
              /\ pc' = "BindConst"
              /\ UNCHANGED <<loop, rc>>
  /\ UNCHANGED <<inst, engine, req, resultCols, chain>>

\* Query.cc 454-468: bind the index's configured constants, one per step.
BindConst ==
  /\ pc = "BindConst"
  /\ LET nc == req.dir.indexes[q.active].consts IN
       IF loop.cst < nc
       THEN \/ /\ loop' = [loop EXCEPT !.cst = @ + 1]
               /\ UNCHANGED <<pc, rc>>
            \/ /\ rc' = 500                   \* set_key_part() failed
               /\ pc' = "Abort1"
               /\ UNCHANGED loop
       ELSE /\ pc' = "Filters"
            /\ UNCHANGED <<loop, rc>>
  /\ UNCHANGED <<inst, engine, req, q, resultCols, chain>>

(***************************************************************************)
(* Query.cc 472-503: for a plan ranked at or above Scan with filter       *)
(* columns, one NdbScanFilter AND group on q->data->scanop: a LIKE on a   *)
(* nullable column is preceded by isnotnull().  A non-scan operation has  *)
(* no scan operation: building the filter on it is undefined (a crash or  *)
(* a filter nothing reads).                                                *)
(***************************************************************************)
FilterConds(d, fl) ==
  LET cond(n) ==
        LET kc == d.keyCols[fl[n]] IN
        IF kc.relop = "LIKE" /\ kc.nullable
        THEN <<[op |-> "isnotnull", col |-> fl[n]], [op |-> kc.relop, col |-> fl[n]]>>
        ELSE <<[op |-> kc.relop, col |-> fl[n]]>>
      RECURSIVE all(_)
      all(i) == IF i > Len(fl) THEN <<>> ELSE cond(i) \o all(i + 1)
  IN  all(1)

FilterBlockRuns(qq) == Rank(qq.plan) >= Rank(Scan) /\ qq.filters # <<>>

Filters ==
  /\ pc = "Filters"
  /\ IF FilterBlockRuns(q)
     THEN /\ q' = [q EXCEPT !.conds = FilterConds(req.dir, q.filters)]
          /\ pc' \in IF q.idxobj \in ScanObjects THEN {"Action"}
                    ELSE {"Action", "Crashed"}
     ELSE /\ pc' = "Action"
          /\ UNCHANGED q
  /\ UNCHANGED <<inst, engine, req, rc, loop, resultCols, chain>>

\* Query.cc 513: the action module.  Plan::Read and Plan::Delete return 0.
Action ==
  /\ pc = "Action"
  /\ \E out \in (IF q.action = "Write" THEN WriteOutcomes(q.setVals, 1, 1)
                 ELSE {Returns(OK)}) :
       IF out.crash THEN pc' = "Crashed" /\ UNCHANGED rc
       ELSE rc' = out.code /\ pc' = "Finish"
  /\ UNCHANGED <<inst, engine, req, q, loop, resultCols, chain>>

(***************************************************************************)
(* ExecuteAll() and ndb_instance::cleanup() are not in the repository;    *)
(* from the spec: ExecuteAll executes the batch of i->tx and closes it,   *)
(* answering OK or an engine error; cleanup releases the instance's       *)
(* per-batch state (read slots, the aborted mark).                         *)
(***************************************************************************)
Cleanup == nReadOps' = 0 /\ aborted' = FALSE

ExecuteAll ==
  /\ \E ok \in BOOLEAN :
       /\ txState' = [txState EXCEPT ![tx] = IF ok THEN "committed" ELSE "closed"]
       /\ rc' = IF ok THEN OK ELSE 500
  /\ tx' = NoTx
  /\ Cleanup

\* The action module's result decides between success and abort1 (and, as
\* a slip would write it, a keep_tx_open request always succeeds).
SucceededOrKept == rc = OK \/ req.keep
Succeeded == rc = OK

\* Query.cc 516-524: free the index object; succeed, or go to abort1.  A
\* main request executes and closes the batch; a subrequest leaves it open.
Finish ==
  /\ pc = "Finish"
  /\ q' = [q EXCEPT !.idxobj = "none"]
  /\ \/ Succeeded /\ req.keep /\ pc' = "Done" /\ UNCHANGED <<inst, txState, rc>>
     \/ Succeeded /\ ~req.keep /\ ExecuteAll /\ pc' = "Done"
     \/ ~Succeeded /\ pc' = "Abort1" /\ UNCHANGED <<inst, txState, rc>>
  /\ UNCHANGED <<txTaint, req, loop, resultCols, chain>>

\* Query.cc 527: i->tx->close(), on a null i->tx when startTransaction failed.
Abort1 ==
  /\ pc = "Abort1"
  /\ IF tx = NoTx
     THEN /\ pc' = "Crashed"
          /\ UNCHANGED txState
     ELSE /\ txState' = [txState EXCEPT ![tx] = "closed"]
          /\ pc' = "Abort2"
  /\ UNCHANGED <<inst, txTaint, req, q, rc, loop, resultCols, chain>>

\* abort2 forgets i->tx (and, as a slip would write it, keeps it).
ForgetTxSkipped == tx' = tx
ForgetTx == tx' = NoTx

(***************************************************************************)
(* Query.cc 533-544: forget i->tx; mark the chain aborted, or clean up the *)
(* instance; free the index object and delete[] the result column array.  *)
(* That array comes from ap_pcalloc() on the connection pool: delete[] of *)
(* pool memory is undefined (the allocator aborts, or the heap carries on).*)
(***************************************************************************)
Abort2 ==
  /\ pc = "Abort2"
  /\ rc' = IF rc = OK THEN 500 ELSE rc
  /\ ForgetTx
  /\ IF req.keep THEN aborted' = TRUE /\ UNCHANGED nReadOps ELSE Cleanup
  /\ q' = [q EXCEPT !.idxobj = "none"]
  /\ pc' \in IF resultCols = "pool" THEN {"Done", "Crashed"} ELSE {"Done"}
  /\ chainAborted' = TRUE
  /\ UNCHANGED <<engine, req, loop, resultCols, chainLen, chainFailed>>

\* Query() has returned: its locals and the request's pools are gone.
ForgetRequest ==
  /\ req' = IdleReq
  /\ q' = NewQ(IdleReq.dir)
  /\ rc' = OK
  /\ loop' = NoLoop
  /\ resultCols' = "none"

\* Query() has returned rc: the request is answered and the chain advances.
Complete ==
  /\ pc = "Done"
  /\ pc' = "Idle"
  /\ txTaint' = IF q.registered /\ rc # OK
                THEN [txTaint EXCEPT ![q.opTx] = TRUE] ELSE txTaint
  /\ IF req.keep
     THEN /\ chainLen' = chainLen + 1
          /\ chainFailed' = (chainFailed \/ rc # OK)
          /\ UNCHANGED chainAborted
     ELSE /\ chainLen' = 0
          /\ chainFailed' = FALSE
          /\ chainAborted' = FALSE
  /\ ForgetRequest
  /\ UNCHANGED <<inst, txState>>

(***************************************************************************)
(* The worker crashed: Apache starts a new child with a new ndb_instance; *)
(* the cluster aborts the transactions the dead one had open.             *)
(***************************************************************************)
Restart ==
  /\ pc = "Crashed"
  /\ pc' = "Idle"
  /\ tx' = NoTx
  /\ aborted' = FALSE
  /\ nReadOps' = 0
  /\ txState' = [t \in TxIds |-> IF txState[t] = "open" THEN "closed" ELSE txState[t]]
  /\ chainLen' = 0
  /\ chainFailed' = FALSE
  /\ chainAborted' = FALSE
  /\ ForgetRequest
  /\ UNCHANGED txTaint

\* The steps of Query() itself: the worker thread runs them to completion.
Serve ==
  \/ Begin \/ ProcessArg \/ PathStart \/ PathStep \/ PathDone \/ CheckPlan
  \/ OpenTx \/ IndexObject \/ Setup \/ BindKey \/ BindConst \/ Filters
  \/ Action \/ Finish \/ Abort1 \/ Abort2 \/ Complete \/ Restart

Next == Receive \/ Serve

Spec == Init /\ [][Next]_vars /\ WF_vars(Serve)

-----------------------------------------------------------------------------
(***************************************************************************)
(* Properties the code guarantees.                                        *)
(***************************************************************************)

\* The instance's transaction handle is live: i->tx, whenever set, is a
\* transaction the engine still has open, so the next request of a chain
\* never registers its operation on a closed transaction.  abort1 closes
\* it and abort2 (the only step between) clears it; ExecuteAll's batch
\* close goes with the handle's reset.
TxHandleLive == (pc # "Abort2" /\ tx # NoTx) => txState[tx] = "open"

\* No transaction holding an operation of a failed request is ever
\* committed: every failure after get_ndb_operation() falls through
\* abort1's i->tx->close(), so a chain never commits a failed request's
\* registered read, write or delete.
NoTaintedCommit ==
  \A t \in TxIds : txState[t] = "committed" => ~txTaint[t]

\* Once a request of a chain has aborted, the chain's main request fails:
\* abort2 marks the instance aborted in keep_tx_open mode, and Query()
\* refuses to start a new transaction for it.
ChainAbortIsFatal ==
  (pc = "Done" /\ ~req.keep /\ chainAborted) => rc # OK

\* set_key()'s running comparison computes the highest-ranked plan among
\* the initial plan and every matched key column (query string and
\* path_info alike), and the active index is one that column implies.
PlanPrecedence ==
  pc \notin {"Idle", "Begin"} =>
    LET d == req.dir
        implied == {d.keyCols[n].plan : n \in q.matched}
    IN  /\ q.plan = MaxPlan({q.plan0} \cup implied)
        /\ q.plan # q.plan0 =>
             \E n \in q.matched : /\ d.keyCols[n].plan = q.plan
                                  /\ d.keyCols[n].index = q.active

\* Every request the worker accepts is answered (or kills the worker):
\* the argument, path_info, key-part and constant loops all terminate.
RequestTerminates == (pc # "Idle") ~> (pc = "Idle")

-----------------------------------------------------------------------------
(***************************************************************************)
(* What the spec and the code's comments say, and the code does not do.   *)
(***************************************************************************)

\* Every transaction the engine has open is the instance's i->tx: none is
\* dropped while open.  abort2 clears i->tx without closing it when it is
\* reached directly (no plan, 404), so an earlier subrequest's open
\* transaction is lost.
NoOrphanTx ==
  pc # "Crashed" => \A t \in TxIds : txState[t] = "open" => t = tx

\* "There is no partial commit" (spec): a chain whose main request
\* commits had no failed request.  The early returns of Query() (table
\* lookup, method, form data, read slots) fail a subrequest without
\* aborting the shared transaction.
NoPartialCommit ==
  (pc = "Done" /\ ~req.keep /\ rc = OK) => ~chainFailed

\* A new chain starts on a clean instance: no transaction, no aborted
\* mark, no read slots.  The early returns of a main request skip both
\* ExecuteAll and cleanup(), so the state of one chain leaks into the next.
ChainIsolation ==
  (pc = "Idle" /\ chainLen = 0) => tx = NoTx /\ ~aborted /\ nReadOps = 0

\* The key parts bound to the index are values the request supplied: the
\* bind loop counts key_columns_used (every matched column, filters and
\* other indexes included) while walking the index's own columns, and
\* binds a column the request left unset.
BoundFromRequest ==
  \A i \in DOMAIN q.bound : q.bound[i].value # NULL

\* Every request the worker takes is answered with a response code (spec:
\* "everything else aborts the active transaction and surfaces a single
\* response code"): Query() never dereferences a null or freed pointer.
\* The code does at seven places: the missing form-data note of a POST
\* subrequest, a null q->idxobj, the scanop of a lookup's 404 log line, a
\* scan filter on a lookup operation, a null blob handle in Plan::Write, a
\* null i->tx in abort1, and delete[] of the pool-allocated result_cols.
NeverCrashes == pc # "Crashed"

=============================================================================
