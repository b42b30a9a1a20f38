---------------------------- MODULE MCRedisTable ----------------------------
(* Model-checking instance of RedisTable: two rows, a name index and a     *)
(* compound (cat, name) index, one unindexed integer counter.              *)
EXTENDS TableRefinement

CONSTANTS i1, i2, Ann, ann, bob, c1, cA, cB

\* A random primary: no key columns.
RandomPrimary == <<>>

MCProps == {"name", "cat", "cnt"}
MCIndexes == {"byName", "byCatName"}
MCIdxCols == ("byName" :> <<"name">>) @@ ("byCatName" :> <<"cat", "name">>)
\* The normalizer lower-cases text.
MCNormalize == (Ann :> ann) @@ (ann :> ann) @@ (bob :> bob) @@ (c1 :> c1)

Ent(id, props, t) == [id |-> id, props |-> props, ttl |-> t]
Set(p, v) == [prop |-> p, op |-> "set", val |-> v]
IdF(S) == [prop |-> "id", op |-> "in", vals |-> S]
EqF(p, v) == [prop |-> p, op |-> "eq", vals |-> {v}]

\* PUT queries: a new row, a named row, a row with a TTL.
PutNew   == <<Ent(NoId, ("name" :> Ann) @@ ("cat" :> c1), 0)>>
PutNamed == <<Ent(i1, "name" :> bob, 0)>>
PutTTL   == <<Ent(NoId, ("name" :> bob) @@ ("cnt" :> 1), 5)>>

\* UPDATE queries, each touching a property once, INCR on the counter only.
UpdRename  == [filter |-> EqF("name", ann), changes |-> <<Set("name", bob)>>]
UpdCat     == [filter |-> IdF({i1, i2}), changes |-> <<Set("cat", c1)>>]
UpdDropName == [filter |-> EqF("name", bob),
                changes |-> <<[prop |-> "name", op |-> "pdel", val |-> Nil]>>]
UpdCount   == [filter |-> IdF({i1}),
               changes |-> <<[prop |-> "cnt", op |-> "incr", val |-> 1]>>]

MCPutsTTL == {PutNew, PutNamed, PutTTL}
MCPuts    == {PutNew, PutNamed}
MCUpdates == {UpdRename, UpdCat, UpdDropName, UpdCount}
MCDelFilters == {EqF("name", bob), IdF({i1})}
\* The sequential run adds a PUT without entities and an UPDATE without
\* changes, which the server rejects.
UpdNoChange == [filter |-> EqF("name", bob), changes |-> <<>>]
MCSeqPuts == MCPuts \cup {<<>>}
MCSeqUpdates == MCUpdates \cup {UpdNoChange}
MCGetFilters == {IdF({i1, i2})}
\* Queries that look their rows up through a secondary index only.
MCIndexUpdates == {UpdRename, UpdDropName}
MCIndexDelFilters == {EqF("name", bob)}

\* A PUT of an entity without properties, next to a named row.
PutEmpty == <<Ent(i2, [p \in {} |-> Nil], 0)>>
MCEmptyPuts == {PutEmpty, PutNamed}
MCIdDelFilters == {IdF({i1})}

\* A row with a TTL, found by name after it expired.
MCTTLPuts == {PutTTL}
UpdCatByName == [filter |-> EqF("name", bob), changes |-> <<Set("cat", c1)>>]
MCByNameUpdates == {UpdCatByName}

\* A compound primary on the name: the ids are the prepared names.
NamePrimary == <<"name">>
MCKeyIds == {<<ann>>, <<bob>>}
\* PUTs without an id: a row in category c1, the same name (differently
\* cased) moved to category bob, and an entity without its key column.
PutKeyCat   == <<Ent(NoId, ("name" :> Ann) @@ ("cat" :> c1), 0)>>
PutKeyRecat == <<Ent(NoId, ("name" :> ann) @@ ("cat" :> bob), 0)>>
PutNoKey    == <<Ent(NoId, "cat" :> c1, 0)>>
MCKeyPuts == {PutKeyCat, PutKeyRecat, PutNoKey}
\* Lookups by key value go through the primary (filtersToIds).
MCKeyFilters == {EqF("name", ann)}
====
