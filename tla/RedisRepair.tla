---------------------------- MODULE RedisRepair -----------------------------
(***************************************************************************)
(* The repair loop of the redis driver (part_009 repairLoop) running       *)
(* beside the clients of RedisTable.  Two goroutines:                      *)
(*   - the entity scanner: RANDOMKEY, load the row, reindex it with a      *)
(*     REINDEX change set of NOOP changes;                                 *)
(*   - the table scanner: walk PRIMARY, then each secondary index, in      *)
(*     offset chunks (ZRANGE offset offset+chunk-1), load the row of each  *)
(*     item and remove the item when the row is missing.                   *)
(* Loading an item and removing it are separate redis calls, and a chunk   *)
(* is read once and then walked, so clients and expiry interleave with     *)
(* both.                                                                   *)
(***************************************************************************)
EXTENDS Integers, FiniteSets, Sequences, SequencesExt

CONSTANTS Ids, NoId, Props, IdKey, Nil, TextVals, Normalize, IntWord, Indexes,
          IdxCols, PrimaryCols, Clients, PutBatches, UpdateQueries, DelFilters,
          GetFilters, MaxOps, MaxFaults,
          IndexOrder,   \* t.indexes: the secondary indexes in schema order
          Chunk,        \* the scan chunk of table.repair (10 in the code)
          IdRank,       \* [Ids -> Nat]: the byte order of the ids
          ValRank(_)    \* the byte order of prepared values inside entries

ASSUME IndexOrder \in Seq(Indexes) /\ Range(IndexOrder) = Indexes
ASSUME Chunk \in Nat \ {0}

VARIABLES row, ttl, primary, index, propCache, used, cl, faults,
          rep,      \* the entity scanner: idle, or the row it loaded
          tab,      \* the table scanner: phase, offset, chunk, item, load result
          start     \* auxiliary: the items dangling since the phase began

T == INSTANCE RedisTable

tableVars == <<row, ttl, primary, index, propCache, used, cl, faults>>
repairVars == <<rep, tab>>
\* Everything but the auxiliary start, which changes only with them.
sysVars == <<tableVars, repairVars>>
vars == <<sysVars, start>>

-----------------------------------------------------------------------------
(* Scan order                                                              *)

\* The members of a sorted set with score 0 come in byte order: ids by
\* their bytes, entries "v1|..|vK|::id" by their values and then the id.
RECURSIVE SeqLess(_, _)
SeqLess(s, t) ==
    /\ t # <<>>
    /\ \/ s = <<>>
       \/ Head(s) < Head(t)
       \/ Head(s) = Head(t) /\ SeqLess(Tail(s), Tail(t))

EntryKey(e) == [i \in DOMAIN e.vals |-> ValRank(e.vals[i])] \o <<IdRank[e.id]>>

\* Phase 0 walks PRIMARY, phase k the k-th index of IndexOrder.
MembersOf(ph, prim, idx) ==
    IF ph = 0 THEN SetToSortSeq(prim, LAMBDA a, b : IdRank[a] < IdRank[b])
    ELSE SetToSortSeq(idx[IndexOrder[ph]],
                      LAMBDA a, b : SeqLess(EntryKey(a), EntryKey(b)))

Members(ph) == MembersOf(ph, primary, index)

ItemId(ph, x) == IF ph = 0 THEN x ELSE x.id

\* The items of phase ph whose row is missing.
DanglingOf(ph, prim, idx, rw) ==
    {x \in Range(MembersOf(ph, prim, idx)) : ~T!Live(rw[ItemId(ph, x)])}

-----------------------------------------------------------------------------

\* Scan / RawEntries run a producer goroutine that sends the items of each
\* chunk down an unbuffered channel; table.repair receives them one by one.
\* tab.prod is the producer (scan a chunk, push it, done), tab.step the
\* receiving loop (receive, load, fix) and tab.cur the item it holds.
NewPass(ph) ==
    [ph |-> ph, prod |-> "scan", offset |-> 0, buf |-> <<>>, total |-> 0,
     step |-> "recv", cur |-> NoId, missing |-> FALSE]

Init ==
    /\ T!Init
    /\ rep = [pc |-> "idle", id |-> NoId, vals |-> T!AllNil]
    /\ tab = NewPass(0)
    /\ start = {}

\* A client step or a key expiry; the repair goroutines stand still.
TableNext ==
    /\ \/ \E c \in Clients :
             \/ \E b \in PutBatches : T!Put(c, b)
             \/ T!BeginQuery(c)
             \/ T!FindIds(c)
             \/ T!ReadRepair(c)
             \/ T!TxRows(c)
             \/ T!TxIndex(c)
       \/ \E id \in Ids : T!Expire(id)
    /\ UNCHANGED repairVars

\* The steps of RedisTable that have fairness, with the repair variables.
FindIdsStep(c) == T!FindIds(c) /\ UNCHANGED repairVars
ReadRepairStep(c) == T!ReadRepair(c) /\ UNCHANGED repairVars
TxRowsStep(c) == T!TxRows(c) /\ UNCHANGED repairVars
TxIndexStep(c) == T!TxIndex(c) /\ UNCHANGED repairVars
ExpireStep(id) == T!Expire(id) /\ UNCHANGED repairVars

-----------------------------------------------------------------------------
(* Entity scanner (repairEntities, reindexEntity, table.reindex)           *)

\* RANDOMKEY returns the key of a row, which is loaded (HGETALL).
RandomKey(id) ==
    /\ rep.pc = "idle"
    /\ T!Live(row[id])
    /\ rep' = [pc |-> "loaded", id |-> id, vals |-> row[id]]
    /\ UNCHANGED <<tableVars, tab>>

\* table.reindex: a REINDEX change of one NOOP per loaded property; the
\* change set reads nothing and changes no row, and its index transaction
\* adds the entries the loaded values give.
Reindex ==
    LET props == {p \in Props : rep.vals[p] # Nil}
        seq   == SetToSeq(props)
        ec    == [id |-> rep.id, type |-> "reindex",
                  changes |-> [i \in DOMAIN seq |->
                                 [prop |-> seq[i], op |-> "noop",
                                  val |-> rep.vals[seq[i]]]]]
        res   == T!ExecChange([row |-> row, ttl |-> ttl, cache |-> propCache,
                               pend |-> T!NoPending], ec)
    IN
    /\ rep.pc = "loaded"
    /\ propCache' = res.cache
    /\ primary' = (primary \ res.pend.pdel) \cup res.pend.padd
    /\ index' = [ix \in Indexes |->
                   (index[ix] \ res.pend.del[ix]) \cup res.pend.add[ix]]
    /\ rep' = [pc |-> "idle", id |-> NoId, vals |-> T!AllNil]
    /\ UNCHANGED <<row, ttl, used, cl, faults, tab>>

-----------------------------------------------------------------------------
(* Table scanner (repairTables, table.repair, Scan, RawEntries)            *)

\* Mutant: the ZRANGE end is offset+Chunk, one item too many.
ScanChunkInclusive ==
    LET ms    == Members(tab.ph)
        chunk == SubSeq(ms, tab.offset + 1, Min({tab.offset + Chunk + 1, Len(ms)}))
    IN
    /\ tab.prod = "scan"
    /\ tab' = [tab EXCEPT !.prod = IF chunk = <<>> THEN "done" ELSE "push",
                          !.buf = chunk, !.total = Len(ms)]
    /\ UNCHANGED <<tableVars, rep>>

\* Producer: ZRANGE offset offset+Chunk-1 and ZCARD in one transaction; an
\* empty chunk closes the channel.
ScanChunk ==
    LET ms    == Members(tab.ph)
        chunk == SubSeq(ms, tab.offset + 1, Min({tab.offset + Chunk, Len(ms)}))
    IN
    /\ tab.prod = "scan"
    /\ tab' = [tab EXCEPT !.prod = IF chunk = <<>> THEN "done" ELSE "push",
                          !.buf = chunk, !.total = Len(ms)]
    /\ UNCHANGED <<tableVars, rep>>

\* The repair loop receives the next item.  Once the last item of a chunk
\* is taken the producer stops if total < offset+chunk, else moves the
\* offset on and scans again while the item is still being handled.
Receive ==
    LET last == Len(tab.buf) = 1
        more == tab.total >= tab.offset + Chunk
    IN
    /\ tab.step = "recv"
    /\ tab.prod = "push"
    /\ tab' = [tab EXCEPT !.cur = Head(tab.buf), !.buf = Tail(tab.buf), !.step = "load",
                          !.prod = IF ~last THEN "push" ELSE IF more THEN "scan" ELSE "done",
                          !.offset = IF last /\ more THEN @ + Chunk ELSE @]
    /\ UNCHANGED <<tableVars, rep>>

\* t.load of the item's row.
LoadItem ==
    /\ tab.step = "load"
    /\ tab' = [tab EXCEPT !.step = "fix", !.missing = ~T!Live(row[ItemId(tab.ph, tab.cur)])]
    /\ UNCHANGED <<tableVars, rep>>

\* Mutant: dangling entries of the secondary indexes are never removed.
FixItemPrimaryOnly ==
    /\ tab.step = "fix"
    /\ IF tab.missing /\ tab.ph = 0
       THEN primary' = primary \ {tab.cur} ELSE UNCHANGED primary
    /\ UNCHANGED index
    /\ tab' = [tab EXCEPT !.step = "recv", !.cur = NoId]
    /\ UNCHANGED <<row, ttl, propCache, used, cl, faults, rep>>

\* Unindex (PRIMARY) or RemoveEntry (an index) when the load found no row.
FixItem ==
    /\ tab.step = "fix"
    /\ IF tab.missing /\ tab.ph = 0
       THEN primary' = primary \ {tab.cur} ELSE UNCHANGED primary
    /\ IF tab.missing /\ tab.ph > 0
       THEN index' = [index EXCEPT ![IndexOrder[tab.ph]] = @ \ {tab.cur}]
       ELSE UNCHANGED index
    /\ tab' = [tab EXCEPT !.step = "recv", !.cur = NoId]
    /\ UNCHANGED <<row, ttl, propCache, used, cl, faults, rep>>

\* The channel is closed: table.repair goes on with the next index; after
\* the last one the next tick of repairTables starts again with PRIMARY.
EndPass ==
    /\ tab.step = "recv"
    /\ tab.prod = "done"
    /\ tab' = NewPass(IF tab.ph = Len(IndexOrder) THEN 0 ELSE tab.ph + 1)
    /\ UNCHANGED <<tableVars, rep>>

TableScan == ScanChunk \/ Receive \/ LoadItem \/ FixItem \/ EndPass

\* The auxiliary start: on a new phase the items dangling in it, else those
\* of start that are still present and still dangling.
Track ==
    start' = IF tab'.ph # tab.ph
             THEN DanglingOf(tab'.ph, primary', index', row')
             ELSE start \cap DanglingOf(tab.ph, primary', index', row')

Next ==
    /\ \/ TableNext
       \/ \E id \in Ids : RandomKey(id)
       \/ Reindex
       \/ TableScan
    /\ Track

\* The entity scanner finishes a reindex it has begun.  Only Reindex takes
\* rep from "loaded" to idle, and it is enabled whenever rep is loaded, so
\* weak fairness of this step on rep is weak fairness of Reindex.
ReindexDone ==
    /\ rep.pc = "loaded"
    /\ rep' = [pc |-> "idle", id |-> NoId, vals |-> T!AllNil]

\* Client handlers and expiry as in RedisTable.  The scanners are
\* goroutines that always run; RANDOMKEY returns every existing key with
\* positive probability, so a row that exists again and again is picked.
Fairness ==
    /\ \A c \in Clients :
          /\ WF_sysVars(FindIdsStep(c))
          /\ WF_sysVars(ReadRepairStep(c))
          /\ WF_sysVars(TxRowsStep(c))
          /\ WF_sysVars(TxIndexStep(c))
    /\ \A id \in Ids : WF_sysVars(ExpireStep(id))
    /\ \A id \in Ids : SF_sysVars(RandomKey(id))
    /\ WF_rep(ReindexDone)
    /\ WF_sysVars(ScanChunk)
    /\ WF_sysVars(Receive)
    /\ WF_sysVars(LoadItem)
    /\ WF_sysVars(FixItem)
    /\ WF_sysVars(EndPass)

Spec == Init /\ [][Next]_vars /\ Fairness

-----------------------------------------------------------------------------
(* Properties                                                              *)

TypeOK ==
    /\ T!TypeOK
    /\ rep.pc \in {"idle", "loaded"}
    /\ rep.id \in Ids \cup {NoId}
    /\ tab.ph \in 0..Len(IndexOrder)
    /\ tab.prod \in {"scan", "push", "done"}
    /\ tab.step \in {"recv", "load", "fix"}
    /\ tab.offset \in Nat
    /\ tab.buf \in Seq(Ids \cup T!EntryT) /\ Len(tab.buf) <= Chunk
    /\ tab.cur \in Ids \cup T!EntryT \cup {NoId}
    /\ tab.missing \in BOOLEAN

\* Every existing row is in PRIMARY and has its current entry in every
\* index that has one for it.
NoMissingNow ==
    \A id \in Ids : T!Live(row[id]) =>
       /\ id \in primary
       /\ \A ix \in Indexes :
             T!CurrentEntry(ix, id) # T!NoEntry => T!CurrentEntry(ix, id) \in index[ix]

\* No id of PRIMARY and no entry of an index belongs to a missing row.
NoDanglingNow ==
    /\ \A id \in primary : T!Live(row[id])
    /\ \A ix \in Indexes : \A e \in index[ix] : T!Live(row[e.id])

\* The repair loop reconciles drift (spec sections 4.5 and 4.7): once the
\* clients stop, the entity scanner re-adds what a row lacks and the table
\* scanner removes what a missing row left, so the indexes end up with no
\* missing and no dangling item.
Converges == <>[](NoMissingNow /\ NoDanglingNow)

\* Stronger: the indexes end up holding exactly the rows' current entries.
ConvergesExactly ==
    <>[](NoMissingNow /\ \A ix \in Indexes : \A e \in index[ix] :
                              e = T!CurrentEntry(ix, e.id))

\* table.repair removes an item only when its row is missing: no step of
\* the table scanner removes the id or an entry of an existing row.
RepairOnlyRemovesDangling ==
    [][TableScan =>
         /\ \A id \in primary \ primary' : ~T!Live(row[id])
         /\ \A ix \in Indexes : \A e \in index[ix] \ index'[ix] : ~T!Live(row[e.id])]_vars

\* One pass of the table scanner over an index removes every item that was
\* dangling when the pass began and has stayed so (spec section 8, test 12).
OnePassRepair == [][tab'.ph # tab.ph => start = {}]_vars

====
