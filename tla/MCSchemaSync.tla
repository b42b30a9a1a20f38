----------------------------- MODULE MCSchemaSync -----------------------------
(* SchemaSync for TLC: two schemas of two tables, two deployers.           *)
EXTENDS SchemaSync

CONSTANTS s1, s2, t1, t2, d1, d2

MCNames == {s1, s2}
MCTableNames == {t1, t2}
MCDeployers == {d1, d2}

\* The root of the integration test (meduza_test.go): "./schema".
MCRootDir == <<".", "schema">>

\* The root of the provider's unit test (provider_test.go): "./".
MCCwdRoot == <<".">>

\* Version 1 declares no primaries; version 2 gives t1 a random and t2 a
\* compound primary.
MCPrimaryType == [x \in {1, 2} \X MCTableNames |->
                    CASE x = <<2, t2>> -> "compound"
                      [] x[1] = 1      -> "nil"
                      [] OTHER         -> "random"]

\* Version 2 gives t2 a sorted primary, which validation accepts.
MCSortedPrimary == [x \in {1, 2} \X MCTableNames |->
                      IF x = <<2, t2>> THEN "sorted" ELSE "random"]
====
