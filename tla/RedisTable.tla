----------------------------- MODULE RedisTable -----------------------------
(***************************************************************************)
(* One table of the redis driver (src/driver/redis): the row hashes, the   *)
(* PRIMARY sorted set, the secondary compound indexes and the process-wide *)
(* indexable-properties cache, written by clients that run Put, Update,    *)
(* Delete and Get concurrently.                                            *)
(*                                                                         *)
(* A ChangeSet (changeset.go Execute) touches the store in two separate    *)
(* MULTI/EXEC transactions: TxRows reads the indexable properties (HMGET)  *)
(* and applies the row commands; TxIndex applies the ZREM/ZADD commands    *)
(* the index pipelines computed from those reads.  Each transaction is     *)
(* atomic in redis, but nothing orders two clients' transactions, so the   *)
(* steps of different clients interleave between them.                     *)
(***************************************************************************)
EXTENDS Integers, FiniteSets, Sequences, SequencesExt

CONSTANTS
    Ids,          \* row ids (schema.Key)
    NoId,         \* the empty id of an entity the client did not name
    Props,        \* property names that rows may hold
    IdKey,        \* the "id" pseudo-property (schema.IdKey)
    Nil,          \* an absent hash field / nil value
    TextVals,     \* text values entities may carry
    Normalize,    \* [TextVals -> TextVals]: the index text normalizer
    IntWord,      \* 2^64 in the code: the modulus of uint64(int) in prepareValue
    Indexes,      \* secondary index names
    IdxCols,      \* [Indexes -> Seq(Props)]: the columns of each index
    PrimaryCols,  \* compoundPrimaryIndex.properties; <<>> for a random primary
    Clients,      \* concurrent query handlers
    PutBatches,   \* the PUT queries clients send (sequences of entities)
    UpdateQueries,\* the UPDATE queries: [filter, changes]
    DelFilters,   \* the filters of DEL queries
    GetFilters,   \* the filters of GET queries
    MaxOps,       \* bound: queries each client sends
    MaxFaults     \* bound: transactions whose EXEC fails or loses its reply

ASSUME Normalize \in [TextVals -> TextVals]
ASSUME \A ix \in Indexes : IdxCols[ix] \in Seq(Props) /\ Len(IdxCols[ix]) > 0
ASSUME MaxOps \in Nat /\ MaxFaults \in Nat

VARIABLES
    row,        \* [Ids -> [Props -> value or Nil]]: the hash at <table>:<id>
    ttl,        \* [Ids -> BOOLEAN]: a PEXPIRE is pending on the row key
    primary,    \* the ids in <table>::PRIMARY
    index,      \* [Indexes -> set of entries] the sorted set k:<table>/<cols>
    propCache,  \* propCache: changed-property signature -> indexable props
    used,       \* ids that exist or existed (random ids never collide with them)
    cl,         \* per client: program counter and the query in flight
    faults      \* transactions that failed so far

vars == <<row, ttl, primary, index, propCache, used, cl, faults>>

-----------------------------------------------------------------------------
(* Data                                                                    *)

ChangeOps == {"set", "del", "incr", "pdel", "exp", "noop"}
ChangeTypes == {"insert", "update", "delete", "reindex"}

\* An index entry "v1|...|vK|::id": the prepared column values and the id.
\* NoEntry is the "" that entry() returns when it writes nothing.
NoEntry == [id |-> NoId, vals |-> <<>>]

AllNil == [p \in Props |-> Nil]

\* A hash key exists in redis iff it has a field.
Live(r) == \E p \in Props : r[p] # Nil

-----------------------------------------------------------------------------
(* Indexing helpers (compound.go, primary.go, changeset.go)               *)

\* prepareValue: text is normalized, integers become their uint64 image.
Prepare(v) ==
    CASE v = Nil          -> Nil
      [] v \in TextVals   -> Normalize[v]
      [] OTHER            -> v % IntWord

\* primary.Properties(): the key columns of a compound primary, "id" for
\* a random one.
PrimaryProps == IF PrimaryCols = <<>> THEN {IdKey} ELSE Range(PrimaryCols)

\* compoundPrimaryIndex.GenerateId fails on an entity with a key column
\* missing or nil (vacuously complete for a random primary).
KeyComplete(e) ==
    \A i \in DOMAIN PrimaryCols :
       PrimaryCols[i] \in DOMAIN e.props /\ e.props[PrimaryCols[i]] # Nil

\* compoundPrimaryIndex.GenerateId: formatValue(prepareValue(v)), that is the
\* prepared value and '|', of each key column, concatenated; the id is kept
\* as the sequence of those parts (processId's FNV hash, when hashed, is
\* taken to be collision-free).
GenerateId(e) == [i \in DOMAIN PrimaryCols |-> Prepare(e.props[PrimaryCols[i]])]

\* compoundPrimaryIndex.Matches: a filter on id, or filters on exactly the
\* key columns (one filter here, so a one-column key).
PrimaryMatches(f) == f.prop = IdKey \/ <<f.prop>> = PrimaryCols

\* The ids the primary looks up: an id filter's values, or filtersToIds's
\* Cartesian product of the key filters' values.
FilterIds(f) == IF f.prop = IdKey THEN f.vals ELSE {<<Prepare(v)>> : v \in f.vals}

\* CompoundIndex.entry: "" if a column is not among the loaded properties
\* or every column is nil; otherwise the values joined with the id.
Entry(ix, id, vals) ==
    LET cols == IdxCols[ix] IN
    IF \/ \E i \in DOMAIN cols : cols[i] \notin DOMAIN vals
       \/ \A i \in DOMAIN cols : vals[cols[i]] = Nil
    THEN NoEntry
    ELSE [id |-> id, vals |-> [i \in DOMAIN cols |-> vals[cols[i]]]]

\* CompoundIndex.MatchesProperties for one property.
MatchesProperties(ix, p) == p \in Range(IdxCols[ix])

\* The key of propCache: the FNV hash of the sorted changed property names
\* concatenated, i.e. the multiset of the non-empty names ("" adds no byte).
CacheKey(chs) ==
    [p \in {chs[i].prop : i \in DOMAIN chs} \ {""} |->
        Cardinality({i \in DOMAIN chs : chs[i].prop = p})]

\* indexableProperties on a cache miss.
ComputeIndexable(ec) ==
    PrimaryProps \cup
      UNION {Range(IdxCols[ix]) :
               ix \in {x \in Indexes :
                        \E i \in DOMAIN ec.changes :
                           \/ ec.type = "delete"
                           \/ MatchesProperties(x, ec.changes[i].prop)}}

-----------------------------------------------------------------------------
(* Row commands (entityChange.commands) and their effect in redis         *)

\* Mutant: HINCRBY of a missing field is taken to fail.
RowCommandIncrNil(s, ch) ==
    CASE ch.op = "incr" ->
            IF s.r[ch.prop] \in Int
            THEN [s EXCEPT !.r[ch.prop] = @ + ch.val]
            ELSE s
      [] ch.op = "pdel" ->
            LET r2 == [s.r EXCEPT ![ch.prop] = Nil]
            IN  [r |-> r2, t |-> s.t /\ Live(r2)]
      [] ch.op = "exp" ->
            IF ~Live(s.r) THEN s
            ELSE IF ch.val > 0 THEN [s EXCEPT !.t = TRUE]
            ELSE [r |-> AllNil, t |-> FALSE]

\* One HINCRBY / HDEL / PEXPIRE on the hash [r, t].  HINCRBY on a field
\* that does not hold an integer fails inside EXEC and changes nothing.
RowCommand(s, ch) ==
    CASE ch.op = "incr" ->
            IF s.r[ch.prop] = Nil \/ s.r[ch.prop] \in Int
            THEN [s EXCEPT !.r[ch.prop] = (IF @ = Nil THEN 0 ELSE @) + ch.val]
            ELSE s
      [] ch.op = "pdel" ->
            LET r2 == [s.r EXCEPT ![ch.prop] = Nil]
            IN  [r |-> r2, t |-> s.t /\ Live(r2)]
      [] ch.op = "exp" ->
            IF ~Live(s.r) THEN s
            ELSE IF ch.val > 0 THEN [s EXCEPT !.t = TRUE]
            ELSE [r |-> AllNil, t |-> FALSE]

LastSet(chs, p) ==
    chs[Max({i \in DOMAIN chs : chs[i].op = "set" /\ chs[i].prop = p})]

\* commands(): a DEL replaces everything; otherwise one HMSET of all the
\* sets first, then the other commands in the order of the changes.
RunCommands(s, chs) ==
    IF \E i \in DOMAIN chs : chs[i].op = "del"
    THEN [r |-> AllNil, t |-> FALSE]
    ELSE LET setProps == {chs[i].prop : i \in {j \in DOMAIN chs : chs[j].op = "set"}}
             hmset == [p \in Props |-> IF p \in setProps THEN LastSet(chs, p).val
                                                        ELSE s.r[p]]
         IN  FoldLeft(RowCommand, [r |-> hmset, t |-> s.t],
                      SelectSeq(chs, LAMBDA ch : ch.op \in {"incr", "pdel", "exp"}))

-----------------------------------------------------------------------------
(* Diffs and index pipelines (changeResult.getDiffs, Pipeline)            *)

\* Mutant: load-only properties are not carried over as new values.
DiffsNoLoadOnly(ec, indexable, olds) ==
    LET chs == ec.changes
        newRaw(p) == LET is == {i \in DOMAIN chs : chs[i].prop = p}
                     IN  IF is = {} \/ ec.type = "delete" THEN Nil
                         ELSE chs[Max(is)].val
    IN  [old |-> [p \in indexable |-> Prepare(olds[p])],
         new |-> [p \in indexable |-> Prepare(newRaw(p))]]

\* The prepared old and new value of every indexable property.
Diffs(ec, indexable, olds) ==
    LET chs == ec.changes
        changed == {chs[i].prop : i \in DOMAIN chs}
        newRaw(p) == LET is == {i \in DOMAIN chs : chs[i].prop = p}
                     IN  IF is = {} \/ ec.type = "delete" THEN Nil
                         ELSE chs[Max(is)].val
        old == [p \in indexable |-> Prepare(olds[p])]
    IN  [old |-> old,
         new |-> [p \in indexable |->
                    IF p \notin changed /\ ec.type # "delete" THEN old[p]
                    ELSE Prepare(newRaw(p))]]

\* The primary pipeline: a deleted id is queued for ZREM, any other for ZADD.
PrimaryPipeline(pend, ec) ==
    IF ec.type = "delete" THEN [pdel |-> pend.pdel \cup {ec.id}, padd |-> pend.padd]
    ELSE [pdel |-> pend.pdel, padd |-> pend.padd \cup {ec.id}]

\* Mutant: the new entry is queued even when it is empty.
PipelinesAddEmpty(pend, ec, d) ==
    [pdel |-> pend.pdel \cup (IF ec.type = "delete" THEN {ec.id} ELSE {}),
     padd |-> pend.padd \cup (IF ec.type = "delete" THEN {} ELSE {ec.id}),
     del  |-> [ix \in Indexes |->
                LET de == Entry(ix, ec.id, d.old)
                    ae == Entry(ix, ec.id, d.new)
                IN  pend.del[ix] \cup
                      (IF ec.type = "delete" \/ ae # de THEN {de} \ {NoEntry} ELSE {})],
     add  |-> [ix \in Indexes |->
                LET de == Entry(ix, ec.id, d.old)
                    ae == Entry(ix, ec.id, d.new)
                IN  pend.add[ix] \cup (IF ec.type # "delete" /\ ae # de THEN {ae} ELSE {})]]

\* Mutant: an insert or update never removes the old entry.
PipelinesNoRemove(pend, ec, d) ==
    [pdel |-> pend.pdel \cup (IF ec.type = "delete" THEN {ec.id} ELSE {}),
     padd |-> pend.padd \cup (IF ec.type = "delete" THEN {} ELSE {ec.id}),
     del  |-> [ix \in Indexes |->
                pend.del[ix] \cup
                  (IF ec.type = "delete" THEN {Entry(ix, ec.id, d.old)} \ {NoEntry} ELSE {})],
     add  |-> [ix \in Indexes |->
                LET de == Entry(ix, ec.id, d.old)
                    ae == Entry(ix, ec.id, d.new)
                IN  pend.add[ix] \cup
                      (IF ec.type # "delete" /\ ae # de THEN {ae} \ {NoEntry} ELSE {})]]

\* What the primary and each compound pipeline queue for one entity diff.
Pipelines(pend, ec, d) ==
    [pdel |-> PrimaryPipeline(pend, ec).pdel,
     padd |-> PrimaryPipeline(pend, ec).padd,
     del  |-> [ix \in Indexes |->
                LET de == Entry(ix, ec.id, d.old)
                    ae == Entry(ix, ec.id, d.new)
                IN  pend.del[ix] \cup
                      (IF ec.type = "delete" \/ ae # de THEN {de} \ {NoEntry} ELSE {})],
     add  |-> [ix \in Indexes |->
                LET de == Entry(ix, ec.id, d.old)
                    ae == Entry(ix, ec.id, d.new)
                IN  pend.add[ix] \cup
                      (IF ec.type # "delete" /\ ae # de THEN {ae} \ {NoEntry} ELSE {})]]

NoPending == [pdel |-> {}, padd |-> {},
              del |-> [ix \in Indexes |-> {}], add |-> [ix \in Indexes |-> {}]]

\* One entity change inside the first transaction: cache lookup, HMGET
\* of the indexable properties (update and delete only), row commands.
ExecChange(s, ec) ==
    LET key       == CacheKey(ec.changes)
        hit       == key \in DOMAIN s.cache
        indexable == IF hit THEN s.cache[key] ELSE ComputeIndexable(ec)
        read      == ec.type \in {"update", "delete"}
        olds      == [p \in indexable |->
                        IF read /\ p \in Props THEN s.row[ec.id][p] ELSE Nil]
        after     == RunCommands([r |-> s.row[ec.id], t |-> s.ttl[ec.id]], ec.changes)
    IN  [row   |-> [s.row EXCEPT ![ec.id] = after.r],
         ttl   |-> [s.ttl EXCEPT ![ec.id] = after.t],
         cache |-> IF hit THEN s.cache ELSE s.cache @@ (key :> indexable),
         pend  |-> IF indexable = {} THEN s.pend
                   ELSE Pipelines(s.pend, ec, Diffs(ec, indexable, olds))]

-----------------------------------------------------------------------------
(* Clients                                                                 *)

\* Server.handleQuery validates a query before the driver sees it.
\* Filter.Validate, for the model's equality and IN filters.
FilterValid(f) ==
    /\ f.prop # "" /\ f.vals # {}
    /\ f.op \in {"eq", "in"}
    /\ f.op = "eq" => Cardinality(f.vals) = 1

\* Change.Validate: a property name unless it is an expiry, a supported op.
ChangeValid(ch) ==
    /\ ch.prop # "" \/ ch.op = "exp"
    /\ ch.op \in {"set", "del", "incr", "exp", "pdel"}

\* PutQuery.Validate with Entity.Validate: at least one entity, and no
\* empty property name (every model value has an allowed type).
PutValid(batch) ==
    /\ batch # <<>>
    /\ \A i \in DOMAIN batch : "" \notin DOMAIN batch[i].props

\* UpdateQuery.Validate: a filter and at least one change, all valid.
UpdateValid(q) ==
    /\ q.changes # <<>>
    /\ FilterValid(q.filter)
    /\ \A i \in DOMAIN q.changes : ChangeValid(q.changes[i])

DelChange == [prop |-> "", op |-> "del", val |-> Nil]
NoFilter == [prop |-> "", op |-> "none", vals |-> {}]

IdleRec(n) == [pc |-> "idle", op |-> "none", filter |-> NoFilter,
               changes |-> <<>>, ids |-> {}, missing |-> {}, cs |-> <<>>,
               pend |-> NoPending, ops |-> n]

Init ==
    /\ row = [id \in Ids |-> AllNil]
    /\ ttl = [id \in Ids |-> FALSE]
    /\ primary = {}
    /\ index = [ix \in Indexes |-> {}]
    /\ propCache = [k \in {} |-> {}]
    /\ used = {}
    /\ cl = [c \in Clients |-> IdleRec(MaxOps)]
    /\ faults = 0

Idle(c) == cl[c].pc = "idle"

\* The first transaction of changeSet.Execute: every entity change of the
\* set in order, in one MULTI/EXEC.
TxResult(cs) ==
    FoldLeft(ExecChange,
             [row |-> row, ttl |-> ttl, cache |-> propCache, pend |-> NoPending], cs)

\* table.Put: the entity's changes are one SET per property, then the
\* expiry.  The id is always regenerated: a random primary keeps a given
\* id and draws a fresh one otherwise, a compound primary derives it from
\* the key columns; the change is an INSERT when the id differs from the
\* entity's, an UPDATE otherwise.
PutChange(e, fresh) ==
    LET id == CASE PrimaryCols # <<>> -> GenerateId(e)
                [] e.id = NoId        -> fresh
                [] OTHER              -> e.id
    IN
    [id      |-> id,
     type    |-> IF id # e.id THEN "insert" ELSE "update",
     changes |-> [i \in 1..Cardinality(DOMAIN e.props) |->
                    LET p == SetToSeq(DOMAIN e.props)[i]
                    IN  [prop |-> p, op |-> "set", val |-> e.props[p]]]
                 \o (IF e.ttl > 0 THEN <<[prop |-> "", op |-> "exp", val |-> e.ttl]>>
                     ELSE <<>>)]

\* Transaction.Execute of the row transaction: EXEC answers and the client
\* goes on to the index transaction (next), or the connection fails, Execute
\* returns the error and so does the query, redis having run the queued
\* transaction or not (the reply is lost).
CommitRows(c, res, next) ==
    \/ /\ row' = res.row
       /\ ttl' = res.ttl
       /\ cl' = [cl EXCEPT ![c] = next]
       /\ UNCHANGED faults
    \/ /\ faults < MaxFaults
       /\ faults' = faults + 1
       /\ \/ row' = res.row /\ ttl' = res.ttl
          \/ UNCHANGED <<row, ttl>>
       /\ cl' = [cl EXCEPT ![c] = IdleRec(next.ops)]

\* A PUT query: ids are generated, the change set is built and its first
\* transaction runs; the index transaction is the client's next step.  An
\* entity whose id cannot be generated fails the whole query first.
Put(c, batch) ==
    LET gen == {i \in DOMAIN batch : PrimaryCols = <<>> /\ batch[i].id = NoId} IN
    /\ Idle(c)
    /\ cl[c].ops > 0
    /\ PutValid(batch)
    /\ \/ /\ \E i \in DOMAIN batch : ~KeyComplete(batch[i])
          /\ cl' = [cl EXCEPT ![c] = IdleRec(@.ops - 1)]
          /\ UNCHANGED <<row, ttl, propCache, used, faults>>
       \/ /\ \A i \in DOMAIN batch : KeyComplete(batch[i])
          /\ \E fresh \in [gen -> Ids \ used] :
               /\ \A i, j \in gen : i # j => fresh[i] # fresh[j]
               /\ LET cs  == [i \in DOMAIN batch |->
                                PutChange(batch[i], IF i \in gen THEN fresh[i] ELSE NoId)]
                      res == TxResult(cs)
                  IN  /\ propCache' = res.cache
                      /\ used' = used \cup {cs[i].id : i \in DOMAIN cs}
                      /\ CommitRows(c, res, [IdleRec(cl[c].ops - 1) EXCEPT
                                               !.pc = "index", !.op = "put",
                                               !.cs = cs, !.pend = res.pend])
    /\ UNCHANGED <<primary, index>>

\* An UPDATE, DEL or GET query arrives; its ids are looked up next.
Begin(c, op, filter, changes) ==
    /\ Idle(c)
    /\ cl[c].ops > 0
    /\ cl' = [cl EXCEPT ![c] = [IdleRec(@.ops - 1) EXCEPT
                                 !.pc = "find", !.op = op, !.filter = filter,
                                 !.changes = changes]]
    /\ UNCHANGED <<row, ttl, primary, index, propCache, used, faults>>

BeginQuery(c) ==
    \/ \E q \in UpdateQueries : UpdateValid(q) /\ Begin(c, "update", q.filter, q.changes)
    \/ \E f \in DelFilters : FilterValid(f) /\ Begin(c, "delete", f, <<DelChange>>)
    \/ \E f \in GetFilters : FilterValid(f) /\ Begin(c, "get", f, <<>>)

\* handleQuery answers an invalid query with its error; nothing is touched.
Reject(c) ==
    /\ Idle(c)
    /\ cl[c].ops > 0
    /\ \/ \E b \in PutBatches : ~PutValid(b)
       \/ \E q \in UpdateQueries : ~UpdateValid(q)
       \/ \E f \in DelFilters \cup GetFilters : ~FilterValid(f)
    /\ cl' = [cl EXCEPT ![c] = IdleRec(@.ops - 1)]
    /\ UNCHANGED <<row, ttl, primary, index, propCache, used, faults>>

\* selectIndex for a single equality filter on p: CompoundIndex.Matches
\* holds iff p is the first column, with score 1/len; the strict '>' keeps
\* the first of equal scores in schema order, any of which the model picks.
Candidates(p) == {ix \in Indexes : IdxCols[ix][1] = p}
BestIndexes(p) ==
    {ix \in Candidates(p) :
        \A o \in Candidates(p) : Len(IdxCols[ix]) <= Len(IdxCols[o])}

\* CompoundIndex.Find with rangeKeys ["v|", "(v|\xff"]: entries whose first
\* column is the prepared value.
IndexFind(ix, v) == {e.id : e \in {x \in index[ix] : x.vals[1] = Prepare(v)}}

\* What Update, Delete or Get does once getIds returned ids.
\* Mutant: the loop does not break when the lookup finds no id.
AfterFindNoBreak(c, ids) ==
    IF cl[c].op = "get"
    THEN IdleRec(cl[c].ops)
    ELSE LET seq == SetToSeq(ids) IN
         [cl[c] EXCEPT
            !.pc = "rows", !.ids = ids, !.missing = {},
            !.cs = [i \in DOMAIN seq |->
                      [id |-> seq[i],
                       type |-> IF cl[c].op = "update" THEN "update" ELSE "delete",
                       changes |-> cl[c].changes]]]

AfterFind(c, ids) ==
    IF cl[c].op = "get" \/ ids = {}
    THEN IdleRec(cl[c].ops)
    ELSE LET seq == SetToSeq(ids) IN
         [cl[c] EXCEPT
            !.pc = "rows", !.ids = ids, !.missing = {},
            !.cs = [i \in DOMAIN seq |->
                      [id |-> seq[i],
                       type |-> IF cl[c].op = "update" THEN "update" ELSE "delete",
                       changes |-> cl[c].changes]]]

\* getIds: when the primary matches, it runs EXISTS on every id it looks
\* up, in one batch; any other filter is served by the best secondary
\* index, or fails with NoIndexError.
FindIds(c) ==
    LET f == cl[c].filter IN
    /\ cl[c].pc = "find"
    /\ IF PrimaryMatches(f)
       THEN LET ids   == FilterIds(f)
                found == {id \in ids : Live(row[id])}
            IN  IF found = ids
                THEN cl' = [cl EXCEPT ![c] = AfterFind(c, found)]
                ELSE cl' = [cl EXCEPT ![c].pc = "repair", ![c].ids = found,
                                      ![c].missing = ids \ found]
       ELSE IF Candidates(f.prop) = {}
       THEN cl' = [cl EXCEPT ![c] = IdleRec(@.ops)]
       ELSE \E ix \in BestIndexes(f.prop) :
              cl' = [cl EXCEPT ![c] = AfterFind(c, IndexFind(ix, CHOOSE v \in f.vals : TRUE))]
    /\ UNCHANGED <<row, ttl, primary, index, propCache, used, faults>>

\* basePrimaryIndex.find: the read repair ZREMs the ids EXISTS missed, in
\* a command of its own after the batch.
ReadRepair(c) ==
    /\ cl[c].pc = "repair"
    /\ primary' = primary \ cl[c].missing
    /\ cl' = [cl EXCEPT ![c] = AfterFind(c, cl[c].ids)]
    /\ UNCHANGED <<row, ttl, index, propCache, used, faults>>

\* changeSet.Execute, first transaction, for Update and Delete.
TxRows(c) ==
    LET res == TxResult(cl[c].cs) IN
    /\ cl[c].pc = "rows"
    /\ propCache' = res.cache
    /\ CommitRows(c, res, [cl[c] EXCEPT !.pc = "index", !.pend = res.pend])
    /\ UNCHANGED <<primary, index, used>>

\* indexChanges: the second transaction, primary pipeline then every
\* compound pipeline, each ZREM before ZADD.  table.Delete then looks the
\* filter up again until no id is left.  If the EXEC fails (applied or
\* not) indexChanges returns the error, and so do Execute and the query.
TxIndex(c) ==
    LET pend == cl[c].pend
        apply == /\ primary' = (primary \ pend.pdel) \cup pend.padd
                 /\ index' = [ix \in Indexes |-> (index[ix] \ pend.del[ix]) \cup pend.add[ix]]
    IN
    /\ cl[c].pc = "index"
    /\ \/ /\ apply
          /\ cl' = [cl EXCEPT ![c] =
                      IF @.op = "delete"
                      THEN [@ EXCEPT !.pc = "find", !.ids = {}, !.cs = <<>>, !.pend = NoPending]
                      ELSE IdleRec(@.ops)]
          /\ UNCHANGED faults
       \/ /\ faults < MaxFaults
          /\ faults' = faults + 1
          /\ apply \/ UNCHANGED <<primary, index>>
          /\ cl' = [cl EXCEPT ![c] = IdleRec(@.ops)]
    /\ UNCHANGED <<row, ttl, propCache, used>>

\* Redis expires a row key whose PEXPIRE has elapsed.
Expire(id) ==
    /\ ttl[id]
    /\ row' = [row EXCEPT ![id] = AllNil]
    /\ ttl' = [ttl EXCEPT ![id] = FALSE]
    /\ UNCHANGED <<primary, index, propCache, used, cl, faults>>

\* Every client has sent its queries and finished them.
Finished ==
    /\ \A c \in Clients : Idle(c) /\ cl[c].ops = 0
    /\ \A id \in Ids : ~ttl[id]
    /\ UNCHANGED vars

Next ==
    \/ \E c \in Clients :
          \/ \E b \in PutBatches : Put(c, b)
          \/ BeginQuery(c)
          \/ Reject(c)
          \/ FindIds(c)
          \/ ReadRepair(c)
          \/ TxRows(c)
          \/ TxIndex(c)
    \/ \E id \in Ids : Expire(id)
    \/ Finished

\* A query handler that has started keeps running (its steps are enabled
\* one at a time, by pc); clients need not send queries; redis eventually
\* expires a key past its TTL.
Fairness ==
    /\ \A c \in Clients :
          /\ WF_vars(FindIds(c))
          /\ WF_vars(ReadRepair(c))
          /\ WF_vars(TxRows(c))
          /\ WF_vars(TxIndex(c))
    /\ \A id \in Ids : WF_vars(Expire(id))

Spec == Init /\ [][Next]_vars /\ Fairness

-----------------------------------------------------------------------------
(* Properties                                                              *)

Value == TextVals \cup Int \cup {Nil}
EntryT == [id : Ids, vals : Seq(Value)]
PendT == [pdel : SUBSET Ids, padd : SUBSET Ids,
          del : [Indexes -> SUBSET EntryT], add : [Indexes -> SUBSET EntryT]]

TypeOK ==
    /\ row \in [Ids -> [Props -> Value]]
    /\ ttl \in [Ids -> BOOLEAN]
    /\ primary \subseteq Ids
    /\ index \in [Indexes -> SUBSET EntryT]
    /\ used \subseteq Ids
    /\ faults \in 0..MaxFaults
    /\ \A c \in Clients :
         /\ cl[c].pc \in {"idle", "find", "repair", "rows", "index"}
         /\ cl[c].op \in {"none", "put", "update", "delete", "get"}
         /\ cl[c].ids \cup cl[c].missing \subseteq Ids
         /\ cl[c].pend \in PendT
         /\ cl[c].ops \in 0..MaxOps

\* The entry a row's current values give in index ix (NoEntry if none).
CurrentEntry(ix, id) ==
    Entry(ix, id, [p \in Range(IdxCols[ix]) |-> Prepare(row[id][p])])

\* No query is between its two transactions or its lookups.
Quiescent == \A c \in Clients : Idle(c)

\* Once every query has finished, every row that exists is in the PRIMARY
\* set and in every index it has an entry for, with its current values:
\* what Put and Update promise a later Get by index.
NoMissingEntry ==
    Quiescent =>
      \A id \in Ids : Live(row[id]) =>
         /\ id \in primary
         /\ \A ix \in Indexes :
               CurrentEntry(ix, id) # NoEntry => CurrentEntry(ix, id) \in index[ix]

\* Once every query has finished, every entry of every secondary index
\* belongs to an existing row and carries its current values: Update and
\* Delete remove the entries they replace.  (PRIMARY may keep ids of rows
\* that are gone; find repairs those on read.)
NoStaleEntry ==
    Quiescent =>
      \A ix \in Indexes : \A e \in index[ix] : e = CurrentEntry(ix, e.id)

\* table.Delete repeats getIds and deletes until no id is left: a DEL
\* query eventually returns.
DeleteTerminates ==
    \A c \in Clients : (cl[c].op = "delete" /\ ~Idle(c)) ~> Idle(c)

====
