# TLA+ models of mod_ndb's request handler

These are TLC-checked models of how mod_ndb serves HTTP requests against
MySQL Cluster (NDB). The focus is `Query()` in `src/Query.cc`: one request
turned into one NDB operation on the worker's `ndb_instance`, and chains of
subrequests that share one transaction.

## The system and how its parts interact

| Part | Source | Role |
|---|---|---|
| Query orchestrator | `src/Query.cc` `Query()` | Looks up the table and switches on the method. Parses the query string and `path_info` into key columns. Picks an access plan, opens or reuses `i->tx`, builds the index object, sets up the operation, binds key parts, constants and scan filters, and runs the action. Ends through the success path or `abort1`/`abort2`. |
| Plan selection | `set_key()` | Each matched key column may raise the plan (enum `AccessPlan`) and set the active index. |
| Key-column search | `key_col_bin_search()` | Binary search of a parameter name in the sorted key-column array. |
| Plan modules | `Plan::SetupRead`, `set_up_write`, `Plan::Write`, ... | Register the NDB call. Encode the form values (`mvalue`). Write each column. |
| Value codec | `src/MySQL_value.cc`, and its older sibling in `src/blobfix/MySQL_Field.cc` | Picks the `mvalue` variant (`use_value`) for a column type and text, and encodes it into the bytes `setValue()` stores. |
| Result decoder | `src/blobfix/MySQL_Field.cc` `MySQL::result()` | Renders a fetched attribute as text. A GET's output is what a client may POST back. Binary, Varbinary and Text go through `MySQL::String()` or `MySQL::Text()` and then `escape_string()` when the output format has an escape table. |
| Subrequest source | `src/r1.2/query_source.cc` | `keep_tx_open`, the request-method note, the form-data note, and the blob table (`set_blob`/`get_blob`), a chained hash table of uploaded parts. |
| Declarations | `src/trunk/mod_ndb.h`, `src/sql/NSQL/Tree/BindNode.cpp` | Types, and a parse-tree node. |

A worker thread owns one `ndb_instance`, which holds `i->tx`,
`i->flag.aborted` and `i->n_read_ops`. It runs `Query()` once per request:

- A **subrequest** keeps the transaction open (`keep_tx_open`).
- A **main request** ends the batch with `ExecuteAll()`, which executes and
  closes `i->tx`.

A *chain* is the subrequests since the last main request, followed by that
main request. An error in a subrequest takes `abort2`, which sets
`i->flag.aborted` so that the rest of the chain fails.

## Modules

- **`KeyColSearch.tla`** covers `key_col_bin_search()`:
  - `BinSearch` is the search as a RECURSIVE operator.
  - `LinearSearch` is the reference definition.
  - `SortedKeyArrays` gives every configuration's sorted name array.
- **`KeyColSearchLoop.tla`** and **`MCKeyColSearch`** run the C loop one
  probe per step (`Probe`, `NotFound`). Over every sorted array of a
  six-name alphabet and every name, they check:
  - that the result equals `LinearSearch` and `KeyColBinSearch`;
  - that the loop implements **`KeyColLookup.tla`**, an abstract one-step
    lookup whose single action returns `LinearSearch(name, kc)`. The
    refinement is `Lookup == INSTANCE KeyColLookup` with the loop's own
    `kc`, `name` and `result`, and `ImplementsLookup == Lookup!Spec`. The
    probes are stuttering steps of the abstract spec, and weak fairness on
    its `Return` makes the loop's termination part of the refinement.
  The loop also implements **`KeyColBisection.tla`**, the idea between
  the two: a window of candidate positions that a step may shrink only by
  dropping positions that do not hold the name. The search answers with a
  position in the window, or -1 once the window is empty. The mapping is
  `Bisection == INSTANCE KeyColBisection WITH window <- low..high`.
- **`BlobTable.tla`** is the blob table of `query_source.cc`:
  - `table` maps each of `BLOB_TABLE_SIZE` slots to its chain, head first.
  - `SetBlob` pushes a record at the head of the chain its name hashes to.
  - `GetBlob` hashes again and returns the first record with that name.

  Names are sequences of char values, negative above 127 as on a
  signed-char build. The unsigned 32-bit hash is computed exactly and
  reduced modulo 2^32 and the table size (`UMod`), which gives the C value
  because unsigned arithmetic is arithmetic modulo 2^32. The code has two
  copies of the hash loop, one in `set_blob` and one in `get_blob`, and
  the model keeps them apart: `BlobSlot` and `LookupSlot`.
  **`BlobMap.tla`** is the map the table promises, with
  `blobs[name]` and the last `<<name, result>>` of a get. The refinement is
  `Map == INSTANCE BlobMap WITH blobs <- [n \in BlobNames |-> Find(table[BlobSlot(n)], n)]`.
- **`MySQLValue.tla`** covers which `use_value` `MySQL::value()` and
  `MySQL::binary_value()` select (`UseValue`, `BinaryUseValue`,
  `WriteUseValue`), and `mval_is_usable()`.
- **`MySQLCodec.tla`** holds the byte-level codec as operators:
  - `EncodeValue(impl, col, t)` is `MySQL::value()` for the char, integer and
    temporal types. It yields the attribute `setValue()` stores and the
    `over` flag. `impl` picks the encoder: `"value"` (MySQL_value.cc) or
    `"blobfix"`. The two differ only in `TemporalRun`, which reduces a
    temporal text to its digit run.
  - `Decode(col, a)` is `MySQL::result()`, with `field_to_tm()` as
    `TimeFields`, `FactorHHMMSS` and `FactorYYYYMMDD`.

  A text is abstracted to what the conversions read from it:
  - `Num(v)` is a numeral of an int value.
  - `Big(i, neg, huge)` is a numeral outside int range, given by its low 32
    bits (`i`). `huge` means it is also outside long range, where `strtol`
    saturates.
  - `Str(chars, spaces)` is a string.
  - `Date`, `Time` and `DateTime` are field tuples with a separator.

  Integer stores keep their width: `Bits(x, w)` is `x % 2^w`, and `Signed`
  is the sign-extending read (`sint3korr`, a signed `char` or `short`). The
  platform's char signedness is the constant `CharIsSigned`.
- **`StringResult.tla`** is the byte-level path of binary values, with a
  byte as its unsigned value 0..255:
  - `BinaryAttr` is `binary_value()`: Binary is zero-padded to the column
    length (`ap_pcalloc`), Varbinary gets a one-byte length, and Text goes
    to its blob handle whole.
  - `StringRef` and `StripNul` are `MySQL::String()`: the length by packing,
    then the loop that drops trailing NULs (`StripFrom`, with its bound
    `Examined`).
  - `EscapedSizes` is `escape_string()`'s sizing loop. It indexes the escape
    table through a char (`AsChar`). A negative index reads before the
    table, which is undefined, so the loop yields the set of sizes the build
    can reserve: a null entry, or any char value as `esc[0]`. `EscapeCopy`
    is its copy loop, which indexes through an unsigned char.
  - `Result` is `MySQL::result()` for these types, with `MySQL::Text()`.

  `Trimmed`, `Substituted` and `ExpectedText` state spec.md 4.2-4.3
  without the loops: truncate, drop trailing NUL padding, substitute each
  byte.
- **`CodecCell.tla`** is one column of one row:
  - `Write`: a POST stores a text through either encoder (`Store` is
    `Plan::Write`'s `setValue()`).
  - `Read`: a GET renders the stored bytes.
  - `WriteBack`: the client POSTs back the text it read.

  A binary column is written with a `Bytes(v)` text through `BinaryAttr`,
  and read through `Result`. `WriteBack` is not taken for binary columns.
  Their text is in the output format's escaped form, and the client decodes
  it before any upload; that decoding is not modelled.

  `written` and `shown` are history variables for the properties.
  **`MCCodecCell`** gives one column of each modelled type and texts at
  every boundary the code has.
- **`Query.tla`** is `Query()` as a state machine. Its state maps to the code
  as follows:
  - `pc` is the statement the worker is at.
  - `req` is the request: resource (`config::dir`), `req_method`,
    `r->method_number`, `keep_tx_open`, arguments, `path_info` and form.
  - `q` is `struct QueryItems` plus the operation's registration.
  - `rc` is `response_code`.
  - `loop` holds the counters of the argument, `path_info`, key-part and
    constant loops.
  - `resultCols` says whether `q->data->result_cols` was allocated from the
    pool.
  - `tx`, `aborted` and `nReadOps` are the instance.
  - `txState` and `txTaint` are the NDB engine's transactions. `txTaint`
    records whether a transaction holds an operation of a failed request.
  - `chainLen`, `chainFailed` and `chainAborted` are history variables, used
    by properties only.

  **Actions**, one per step, with the Query.cc lines in their comments and in
  PROJECT.json's `map`:
  - `Receive`: a request arrives (query_source).
  - `Begin`: lines 204–291.
  - `ProcessArg`: one `key=value` argument.
  - `PathStart`, `PathStep`, `PathDone`: the right-to-left `path_info` scan.
  - `CheckPlan`.
  - `OpenTx`: reuse `i->tx`, refuse an aborted chain, or start a transaction.
  - `IndexObject`, then `Setup`.
  - `BindKey` and `BindConst`: one key part or constant per step.
  - `Filters`.
  - `Action`: the plan module, whose outcomes `WriteOutcomes` enumerates.
  - `Finish`.
  - `Abort1` and `Abort2`.
  - `Complete`: `Query()` returns.
  - `Restart`: a crashed worker is replaced.

  **Undefined behaviour** is a nondeterministic choice between crashing and
  carrying on. This covers:
  - `delete[]` of pool memory in `abort2`;
  - an `NdbScanFilter` on a non-scan operation;
  - the `scanop` log line after a failed setup;
  - `*(s-1)` on an empty `path_info`.

  A null dereference is always `Crashed`: a null index object, a null blob
  handle, or the missing form-data note of a subrequest POST.

  **Not in the repository, so modelled from spec.md** (marked
  `spec_modelled` in the map):
  - `ExecuteAll()`, `ndb_instance::cleanup()` and
    `index_object::next_key_part()`;
  - the order of the `AccessPlan` enum (the `PlanOrder` constant).
- **`MCQuery.tla`** holds the resources TLC checks:
  - `LookupDir` has key columns `a`, `b` (an ordered index), `f` (a LIKE
    filter on a nullable column), `id` (the primary key and the `path_info`
    column) and `u` (a unique index). It allows deletes, and its updatable
    columns are char, int and blob.
  - `ScanDir` is a table scan through a named, sorted ordered index, with
    filter `f`.
  - `ConstDir` has a default key with a constant part, and an index declared
    unique that the dictionary holds as ordered.
  - `NoDefaultDir` has a default key without constants, and a named index
    scan that is missing from the dictionary.

  The query strings, paths and forms reach every plan, an unknown name, a
  repeated filter, a trailing slash, an interpreted update (`@++`) and a blob
  write.

## Runs

| Run | Config | Checks | Shows |
|---|---|---|---|
| query_chain | `MCQuery.cfg` | TypeOK, TxHandleLive, NoTaintedCommit, ChainAbortIsFatal, PlanPrecedence | Chains on `LookupDir`/`ScanDir` keep `i->tx` live. They never commit a transaction that holds a failed request's operation. A chain fails after an abort. The plan is the highest-ranked one implied. 792,106 states. |
| query_config | `MCQueryConfig.cfg` | TypeOK, PlanPrecedence, RequestTerminates | Default keys, constant key parts and dictionary mismatches keep plan precedence, and every accepted request is answered or crashes the worker. 443,788 states. |
| keycol_search | `MCKeyColSearch.cfg` | TypeOK, SearchCorrect, ImplementsLookup, ImplementsBisection | The binary search is correct on every sorted array, and the loop refines the one-step lookup. |
| blob_table | `MCBlobTable.cfg` | ImplementsBlobMap | The table refines the map across three uploads of two parts. The five names are "a", "b", "ab" and "ba", which collide pairwise in five slots, and byte 200, whose hash wraps. A repeated name shadows the earlier part, and a colliding name does not. 3,976 states. |
| codec_cell | `MCCodecCell.cfg` | TypeOK, RoundTrip, WriteBackStable | Stored attributes fit their column: a Char buffer of exactly its length, integers in their width. In-range values read back in canonical form from both encoders. Uploaded Binary, Varbinary and Text values read back truncated, NUL-stripped and escaped as the contract says. Writing back what a GET returned never changes the stored bytes, even after a wrap, a clamp, a month above 15 or a cut separator. 1,459 states. |

Seven violation runs each check one property that the code breaks. Each has a
finding in PROJECT.json with the line and a TLC trace:

- **orphan_tx**: `abort2` drops an open `i->tx` without closing it.
- **partial_commit**: an early return fails a subrequest without aborting the
  chain, so the main request commits the rest. This contradicts "no partial
  commit" in the spec.
- **chain_leak**: early returns skip `cleanup()`, so the aborted mark, read
  slots and `i->tx` leak into the next chain.
- **unsupplied_key_part**: the bind loop counts `key_columns_used` while it
  walks the active index, and binds a column the request never gave.
- **crash_free**: `NeverCrashes` says every request is answered with a
  response code. The shortest trace is a POST subrequest whose main request
  left no `ndb_request_data` note: `get_form_data()` reads through a null
  pointer. Each of the six other crash sites is reached by a longer trace:
  - a null `idxobj` (only under `MCQueryConfig.cfg`'s default key);
  - the `scanop` log line of a failed lookup setup;
  - the filter block, which runs for lookups too and builds a filter on an
    unset `scanop`;
  - a null blob handle;
  - `abort1` on a null `i->tx`;
  - `delete[]` of the pool's `result_cols`.

  Reachability of each site was confirmed with one action property per site,
  `[][~(pc = s /\ pc' = "Crashed")]_vars`.
- **char_roundtrip**: the Varchar length goes through `(unsigned char)`
  before the clamp to the column length. A 256-character value reads back
  empty, which contradicts spec.md section 8's `pad_or_truncate`.
- **clamp_boundary**: `strtol()`'s long result is truncated to `int` before
  the clamp. 4294967296 in a Tinyint is stored as 0 with `m.over` clear,
  where spec.md section 8 asks for 127 with the flag set.

Two more defects are reachable in `Query` and are listed as hazards with
notes, not runs:
- `Plan::Write`'s initial `eqr = 1` becomes the HTTP status when the form
  sets no column;
- a repeated filter parameter overruns `filter_list`.

Each property of a passing run has a mutant in PROJECT.json. A mutant swaps a
one-line definition for a plausible slip, and TLC must then report the
property violated:

| Definition | Slip |
|---|---|
| `ReadSlotFree` | `<=` instead of `<` |
| `ForgetTx` | keeps `i->tx` |
| `Succeeded` | also true for `keep_tx_open` |
| `RefusesAborted` | never true |
| `AdoptPlan` | adopts always, or adopts the plan without its index |
| `ArgAdvance` | stalls on an unknown name |
| `NextHigh` / `NextLow` / `Exhausted` | `mid - 2` or `mid`, no advance past `mid`, `low >= high` |
| `LookupSlot` | `get_blob`'s copy of the hash loop multiplies by 31 |
| `ColumnLen` | the Varchar length not clamped to the column |
| `Signed` | no sign extension on read |
| `FactorHHMMSS` | the time's digits split before it is negated |

## Bounds, and why they are enough

- **Two transactions (`TxIds`).** One transaction is enough to lose one to
  `abort2` and still open another.
- **`MaxChain = 2`.** A subrequest followed by a main request is the shortest
  chain in which one request's failure can affect another. Chains repeat
  until the state space closes, so the next chain sees whatever leaked.
- **`MaxReadOps = 1`.** A chain of two GETs reaches the "too many read
  operations" branch.
- **Five query strings and three paths.** Together they cover every plan,
  unknown names, repeated filters and a trailing slash.

- **Codec texts.** The strings are 0, 2, 3, 5, 256, 258 and 65537
  characters long, and one is `1 + 2` trailing spaces, against columns of
  length 3. The numerals sit at each clamp bound and one past it, at 1900
  and 2155 for Year, and at the 16- and 24-bit edges. The `Big` numerals
  are 2^32, 2^31, -2^32+5 and one beyond long range. The dates are valid
  ones, one with month 20, and one with a `.` separator. The times include
  ±838:59:59, -00:00:00 and 839:00:00. Both encoders write every text.
  Every branch of `EncodeValue` and `Decode` is taken.

- **Binary values.** Binary, Varbinary and Text columns are two bytes long.
  The uploads are every sequence of up to three bytes over NUL, CR, `"`,
  `A` and `\`, so values are shorter than, equal to and longer than the
  column. NULs appear leading, embedded and trailing, and some values are
  all NUL. The escape table is JSON-like: `"` and `\` are backslash-escaped,
  NUL is written as `\0`, and CR has an empty escape. The table has ASCII
  entries only, like the output formats' escapes.

  No property compares the sizing loop with the copy loop. With ASCII
  escapes, or on an unsigned-char build, the two agree by construction. On
  a signed-char build with an escape for a byte above 127, the sizing
  loop's read before the table can reserve less than the copy writes. A
  comparison would then only be violated, which needs a violation run of
  its own, and the project is at its limit of 12 runs. An earlier version
  of the model confirmed that the two loops disagree with an entry for
  byte 160 on a signed build. The hazard list records this case.
- **Char signedness.** Every codec run fixes `CharIsSigned = TRUE`, the x86
  build. With `FALSE`, `codec_cell` finds `RoundTrip` violated: Tinyint -1
  reads back as 255, because `rec.char_value()` is a plain char. The hazard
  list records this too.

- **Blob table: five slots, five names, two parts, `MaxSets = 3`.**
  Three sets can place two names in one chain and set one of them again,
  so chains hold a shadowed record behind a newer one. `BLOB_TABLE_SIZE`
  is defined in `query_source.h`, which is not in the repository. Five is
  not a power of two, so the reduction of a wrapped hash is exercised.

The two Query runs together fire every action and every disjunct. The
configurations are split between them because the cross product does not
fit in five minutes.

## Fairness

`Spec` has weak fairness on `Serve`, which is every step of `Query()` plus
`Complete` and `Restart`:

- A worker thread runs `Query()` to completion without waiting on other
  requests; the NDB calls are modelled as returning.
- Apache respawns a crashed child.

`Receive` has no fairness: a server need not get another request. So the
idle state may stop, and `RequestTerminates` only asks that an accepted
request is answered. Deadlock is checked for the Query runs and for
`MCCodecCell`, where a write is always possible.
The blob table states no liveness: `get_blob` is a read. `MCBlobTable`
checks deadlock, because a get is always possible.
`KeyColLookup` has weak fairness on `Return`: `key_col_bin_search()` is a
loop with no waits, so it returns. `MCKeyColSearch`
disables it because its search stops when it returns.

## Not modelled (yet)

- **Some column types in the codec:**
  - Unsigned, Bigint, Bigunsigned: values beyond TLC's 32-bit integers.
  - Float, Double: real numbers.
  - Decimal: `bin2decimal` is not in the repository.
  - Bit.
  - `binary_value()`'s Longvarbinary copy. `MySQL::result()` has no
    Longvarbinary case, so such a column renders nothing. The unescaped
    output paths (`rbuf.out`, `read_blob`) copy the same bytes without
    escapes; `result_buffer`'s implementation is not in the repository.

  strtol's base-0 parsing (octal, hex) is also abstracted away, because a
  text is modelled by its value.
- **The `-99` marker of `field_to_tm()`** is modelled in `TimeFields`. No
  checked text reaches it, because only a time with 99 seconds does (see
  the hazards).
- **The callers of `set_blob()`** (the multipart parser) are not in the
  repository. So the name-pointer aliasing of `set_blob()` is a hazard only.
- **`mod_ndb.h` and `BindNode.cpp`**: declarations, and a parse-tree node not
  reached from this request path.
- **Several worker threads.** Each owns its own `ndb_instance`, and they
  share only the cluster. The model has one worker plus an abstract engine.

PROJECT.json's `hazards` lists what is hard to test in this code, each with
the properties that cover it, or a note on why none does yet.
