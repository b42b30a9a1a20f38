---------------------------- MODULE MCRedisRepair ---------------------------
(* Model-checking instance of RedisRepair over the table of MCRedisTable:  *)
(* two rows, a name index and a compound (cat, name) index, a counter.     *)
EXTENDS RedisRepair

CONSTANTS i1, i2, Ann, ann, bob, c1, cA, cB

\* A random primary: no key columns.
RandomPrimary == <<>>

MCProps == {"name", "cat", "cnt"}
MCIndexes == {"byName", "byCatName"}
MCIdxCols == ("byName" :> <<"name">>) @@ ("byCatName" :> <<"cat", "name">>)
MCNormalize == (Ann :> ann) @@ (ann :> ann) @@ (bob :> bob) @@ (c1 :> c1)
MCIndexOrder == <<"byName", "byCatName">>
MCIdRank == (i1 :> 1) @@ (i2 :> 2)
\* Byte order of prepared values: hex digits < letters < the empty nil.
MCValRank(v) ==
    CASE v = Nil -> 9
      [] v = ann -> 5
      [] v = bob -> 6
      [] v = c1  -> 7
      [] OTHER   -> 1

Ent(id, props, t) == [id |-> id, props |-> props, ttl |-> t]
Set(p, v) == [prop |-> p, op |-> "set", val |-> v]
IdF(S) == [prop |-> "id", op |-> "in", vals |-> S]
EqF(p, v) == [prop |-> p, op |-> "eq", vals |-> {v}]

\* A named row, and a new row with a TTL.
PutNamed == <<Ent(i1, "name" :> bob, 0)>>
PutTTL   == <<Ent(NoId, ("name" :> bob) @@ ("cnt" :> 1), 5)>>

\* Clients: Puts with and without TTL, an update and a delete by name, a
\* get by id.
MCRepairPuts == {PutTTL, PutNamed}
MCRepairUpdates == {[filter |-> EqF("name", bob), changes |-> <<Set("cat", c1)>>]}
MCRepairDelFilters == {EqF("name", bob)}
MCRepairGets == {IdF({i1})}
\* Two rows with a TTL.
MCTwoTTLPuts == {PutTTL}
\* A named row that is renamed.
MCNamedPuts == {PutNamed}
MCRenames == {[filter |-> IdF({i1}), changes |-> <<Set("name", ann)>>]}
====
