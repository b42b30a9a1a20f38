-------------------------------- MODULE Store --------------------------------
(***************************************************************************)
(* What a table promises its clients (spec sections 3, 4.4, 7): a map from *)
(* ids to property bags on which each client's query takes effect in one   *)
(* atomic step between its call and its return.  Put sets every property   *)
(* of each entity (HMSET-style) and the TTL if given; Update applies its   *)
(* changes in order to every row its filter selects at that moment; Delete *)
(* removes the selected rows, again and again, and returns once its filter *)
(* selects nothing; a row whose TTL elapses disappears.  A filter that no  *)
(* index serves fails (NoIndex) and a change set with a failing change     *)
(* changes nothing: such a query returns without effect.                   *)
(***************************************************************************)
EXTENDS Integers, FiniteSets, Sequences, SequencesExt

CONSTANTS
    Ids, NoId, Props, IdKey, Nil, Clients, NoFilter,
    PutBatches, UpdateQueries, DelFilters, GetFilters,
    Canon(_),       \* the form in which a filter compares values (normalized text)
    Answerable(_)   \* some index can serve the filter

VARIABLES
    data,       \* [Ids -> [Props -> value or Nil]]
    expiring,   \* [Ids -> BOOLEAN]: the row has a TTL pending
    req         \* [Clients -> the query in flight and whether it took effect]

svars == <<data, expiring, req>>

NoRow == [p \in Props |-> Nil]
NoReq == [st |-> "none", op |-> "none", filter |-> NoFilter, changes |-> <<>>]
Exists(id) == data[id] # NoRow

\* The rows a filter selects: listed ids that exist, or rows whose value of
\* the property equals the filter's value.
Selected(f) ==
    IF f.prop = IdKey
    THEN {id \in f.vals : Exists(id)}
    ELSE {id \in Ids : Exists(id) /\ \E v \in f.vals : Canon(data[id][f.prop]) = Canon(v)}

\* One change applied to a row [r, t, ok]; ok turns FALSE on a failed INCR.
Apply(s, ch) ==
    CASE ch.op = "set"  -> [s EXCEPT !.r[ch.prop] = ch.val]
      [] ch.op = "pdel" -> [s EXCEPT !.r[ch.prop] = Nil]
      [] ch.op = "incr" -> IF s.r[ch.prop] \in Int \cup {Nil}
                           THEN [s EXCEPT !.r[ch.prop] = (IF @ = Nil THEN 0 ELSE @) + ch.val]
                           ELSE [s EXCEPT !.ok = FALSE]
      [] ch.op = "exp"  -> IF ch.val > 0 THEN [s EXCEPT !.t = TRUE]
                           ELSE [s EXCEPT !.r = NoRow, !.t = FALSE]
      [] OTHER          -> s

\* The row after a list of changes; a row left without fields has no key.
ApplyAll(s0, chs) ==
    LET s == FoldLeft(Apply, [s0 EXCEPT !.ok = TRUE], chs)
    IN  [s EXCEPT !.t = @ /\ s.r # NoRow]

RowState(id) == [r |-> data[id], t |-> expiring[id], ok |-> TRUE]

\* The entity as changes: one set per property, then the expiry.
EntityChanges(e) ==
    [i \in 1..Cardinality(DOMAIN e.props) |->
        LET p == SetToSeq(DOMAIN e.props)[i] IN [prop |-> p, op |-> "set", val |-> e.props[p]]]
    \o (IF e.ttl > 0 THEN <<[prop |-> "", op |-> "exp", val |-> e.ttl]>> ELSE <<>>)

\* A query that has been called and cannot change anything.
NoEffect(q) ==
    \/ q.op = "get"
    \/ ~Answerable(q.filter)
    \/ Selected(q.filter) = {}
    \/ \E id \in Selected(q.filter) : ~ApplyAll(RowState(id), q.changes).ok

Init ==
    /\ data = [id \in Ids |-> NoRow]
    /\ expiring = [id \in Ids |-> FALSE]
    /\ req = [c \in Clients |-> NoReq]

Call(c, op, f, chs) ==
    /\ req[c].st = "none"
    /\ req' = [req EXCEPT ![c] = [st |-> "called", op |-> op, filter |-> f, changes |-> chs]]
    /\ UNCHANGED <<data, expiring>>

\* Every entity of the batch written at once; an entity without an id gets
\* one that no existing row and no other such entity of the batch has.
Put(c, b) ==
    /\ req[c].st = "none"
    /\ \E ids \in [DOMAIN b -> Ids] :
         /\ \A i \in DOMAIN b :
               IF b[i].id # NoId THEN ids[i] = b[i].id
               ELSE /\ ~Exists(ids[i])
                    /\ \A j \in DOMAIN b \ {i} : b[j].id = NoId => ids[j] # ids[i]
         /\ LET step(s, i) == [s EXCEPT ![ids[i]] = ApplyAll(@, EntityChanges(b[i]))]
                fin == FoldLeft(step, [id \in Ids |-> RowState(id)], [i \in 1..Len(b) |-> i])
            IN  /\ data' = [id \in Ids |-> fin[id].r]
                /\ expiring' = [id \in Ids |-> fin[id].t]
    /\ req' = [req EXCEPT ![c] = [NoReq EXCEPT !.st = "applied", !.op = "put"]]

\* The Update takes effect on every selected row.
Update(c) ==
    LET q == req[c] IN
    /\ q.st = "called" /\ q.op = "update"
    /\ ~NoEffect(q)
    /\ LET sel == Selected(q.filter)
           res == [id \in sel |-> ApplyAll(RowState(id), q.changes)]
       IN  /\ data' = [id \in Ids |-> IF id \in sel THEN res[id].r ELSE data[id]]
           /\ expiring' = [id \in Ids |-> IF id \in sel THEN res[id].t ELSE expiring[id]]
    /\ req' = [req EXCEPT ![c].st = "applied"]

\* One round of a Delete removes the rows selected now.
Delete(c) ==
    LET q == req[c] IN
    /\ q.st = "called" /\ q.op = "delete"
    /\ ~NoEffect(q)
    /\ data' = [id \in Ids |-> IF id \in Selected(q.filter) THEN NoRow ELSE data[id]]
    /\ expiring' = [id \in Ids |-> expiring[id] /\ id \notin Selected(q.filter)]
    /\ UNCHANGED req

\* A query returns once it took effect, or when it can have none.
Return(c) ==
    /\ \/ req[c].st = "applied"
       \/ req[c].st = "called" /\ NoEffect(req[c])
    /\ req' = [req EXCEPT ![c] = NoReq]
    /\ UNCHANGED <<data, expiring>>

Expire(id) ==
    /\ expiring[id]
    /\ data' = [data EXCEPT ![id] = NoRow]
    /\ expiring' = [expiring EXCEPT ![id] = FALSE]
    /\ UNCHANGED req

Next ==
    \/ \E c \in Clients :
          \/ \E b \in PutBatches : Put(c, b)
          \/ \E q \in UpdateQueries : Call(c, "update", q.filter, q.changes)
          \/ \E f \in DelFilters : Call(c, "delete", f, <<>>)
          \/ \E f \in GetFilters : Call(c, "get", f, <<>>)
          \/ Update(c)
          \/ Delete(c)
          \/ Return(c)
    \/ \E id \in Ids : Expire(id)

Spec == Init /\ [][Next]_svars
====
