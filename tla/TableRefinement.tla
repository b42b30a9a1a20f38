--------------------------- MODULE TableRefinement ---------------------------
(***************************************************************************)
(* RedisTable seen through the Store interface.  The store's data are    *)
(* the row hashes and its pending expiries the PEXPIREs on the row keys;   *)
(* the indexes and the cache are hidden.  A client's query is "called"     *)
(* from Begin until it returns, and "applied" once the row transaction of  *)
(* a Put or Update committed (a Delete stays "called": it loops).  A       *)
(* filter is answerable when the primary matches it or an index starts with *)
(* property (table.getIds, selectIndex), and values compare as             *)
(* prepareValue makes them (normalized text).                              *)
(***************************************************************************)
EXTENDS RedisTable

\* The request a client has in flight, as the store sees it.
ReqOf(c) ==
    [st      |-> CASE cl[c].pc = "idle"                         -> "none"
                   [] cl[c].pc = "index" /\ cl[c].op # "delete" -> "applied"
                   [] OTHER                                    -> "called",
     op      |-> cl[c].op,
     filter  |-> cl[c].filter,
     changes |-> IF cl[c].op = "delete" THEN <<>> ELSE cl[c].changes]

Abs == INSTANCE Store WITH data <- row, expiring <- ttl, Canon <- Prepare,
                          req <- [c \in Clients |-> ReqOf(c)],
                          Answerable <- LAMBDA f : PrimaryMatches(f) \/ Candidates(f.prop) # {}

\* Every step of the clients changes the rows as one atomic Put, Update,
\* Delete or expiry of the abstract store would: an Update or Delete found
\* through the indexes touches exactly the rows its filter selects at the
\* moment its row transaction commits (table.Update, table.Delete, getIds).
ImplementsStore == Abs!Spec
====
