------------------------------ MODULE SchemaSync ------------------------------
(***************************************************************************)
(* How a deployed schema reaches the redis driver's tables.                *)
(*                                                                         *)
(*  - A Deployer (mdzctl deploy, types.go Deployer.Deploy) writes the      *)
(*    schema into the __mdz_schemas__ hash with HSET and then PUBLISHes    *)
(*    its name on __mdz_updates__.                                         *)
(*  - At start-up meduzad runs Provider.Init (HKEYS, then one HGET per     *)
(*    name) and then Driver.Init, which builds the tables of every schema  *)
(*    the provider read and starts monitorChanges.  monitorChanges calls   *)
(*    Provider.Updates, which dials and starts the subscriber goroutine.   *)
(*  - The subscriber dials, SUBSCRIBEs, and for each message loads the     *)
(*    schema with a fresh connection and sends it on an unbuffered channel *)
(*    to monitorChanges, which rebuilds its tables (handleSchema).  On a   *)
(*    read error it closes the connection, sleeps and starts over.         *)
(*                                                                         *)
(* A schema's content is a version number; a table of the driver holds     *)
(* the version it was built from.  Of a table's declaration only the type *)
(* of its primary index is kept: schema validation and newTable disagree   *)
(* on which types they accept.  Connection errors are faults, at most      *)
(* MaxFaults of them.                                                      *)
(***************************************************************************)
EXTENDS Integers, Sequences, FiniteSets

CONSTANTS
    Providers,      \* the SchemaProviders the driver may be given
    RootDir,        \* FilesProvider's root, a sequence of path elements
    Names,          \* schema names
    TableNames,     \* the tables of every schema
    Versions,       \* schema contents a deployer may deploy (Nat \ {0})
    Deployers,      \* concurrent mdzctl deploy processes, one Deploy each
    CtlDeployers,   \* those whose request reaches this meduzad's ctl server
    PrimaryType,    \* (version, table) -> type of the primary index, "nil" if none
    MaxFaults,      \* bound on connection errors
    MaxDumps        \* bound on /schemadump requests to the ctl server

ASSUME /\ Providers \subseteq {"redis", "files"}
       /\ Versions \subseteq Nat \ {0}
       /\ CtlDeployers \subseteq Deployers
       /\ DOMAIN PrimaryType = Versions \X TableNames
       /\ MaxFaults \in Nat
       /\ MaxDumps \in Nat

None == 0           \* no schema / no table / no file
Empty == -1         \* a schema file os.Create made and nothing wrote yet

VARIABLES
    prov,           \* the provider meduzad was started with
    hash,           \* the __mdz_schemas__ hash: name -> version
    dir,            \* the files <name>.schema.yaml in RootDir: name -> content
    dpc,            \* Deployer step: "hset", "publish" or "done"
                    \* (FilesDeployer: "create", "write" or "done")
    dname,          \* the schema name a Deployer wrote
    dver,           \* the version a FilesDeployer is writing
    watching,       \* the fsnotify watch on RootDir is in place
    events,         \* fsnotify events not yet read: [op, n]
    subscribed,     \* the subscriber's connection is subscribed at the server
    inbox,          \* messages published to that connection, not yet read
    mpc,            \* meduzad's start-up step (main, then monitorChanges)
    pending,        \* names HKEYS returned and not loaded yet
    pschemas,       \* Provider.schemas: name -> version
    spc,            \* the subscriber goroutine's step
    out,            \* the schema the subscriber is sending on ch
    tables,         \* Driver.tables: <<name, table>> -> version
    dschemas,       \* Driver.schemas: name -> version
    crashed,        \* the process died of a panic
    ctlUp,          \* ListenCtl has started the ctl HTTP server
    dump,           \* a /schemadump handler: "idle" or "iter" (in Schemas())
    dumps,          \* /schemadump requests served so far
    faults

vars == <<prov, ctlUp, dump, dumps, hash, dir, dpc, dname, dver, watching, events, subscribed,
          inbox, mpc, pending, pschemas, spc, out, tables, dschemas, crashed,
          faults>>

\* The ctl server's state.
ctlVars == <<ctlUp, dump, dumps>>

\* The FilesProvider and FilesDeployer state the redis path leaves alone.
fileVars == <<prov, dir, dver, watching, events>>

\* What the provider holds for a schema: the hash field or the file.
Deployed(n) == IF prov = "redis" THEN hash[n] ELSE dir[n]

Fault == faults < MaxFaults /\ faults' = faults + 1

\* allowedIndexTypes[RedisEngine]: the index types validation accepts.
RedisIndexTypes == {"simple", "compound", "sorted", "geo", "fulltext", "random"}

\* Index.Validate of a primary: its type must be one the redis engine allows
\* (the column check is abstracted: schemas name only columns they have).
PrimaryValid(ty) == ty \in RedisIndexTypes

\* Table.Validate: a table without a primary ("nil") gets a random one;
\* otherwise its primary must pass Index.Validate. The engine, name and
\* column checks come out the same for every version and are abstracted.
TablePrimary(v, t) == IF PrimaryType[v, t] = "nil" THEN "random"
                                                  ELSE PrimaryType[v, t]
TableValid(v, t) == PrimaryType[v, t] = "nil" \/ PrimaryValid(PrimaryType[v, t])

\* Schema.Validate: every table of the schema passes Table.Validate.
ValidSchema(v) == \A t \in TableNames : TableValid(v, t)

\* schema.Load of stored content: a missing field or an empty file has no
\* schema name and fails Validate, as does a schema with an index type the
\* engine refuses.
Loadable(c) == c \in Versions /\ ValidSchema(c)

\* Driver.newTable of a validated table: only compound and random primaries
\* are built.
NewTableOk(v, t) == TablePrimary(v, t) \in {"compound", "random"}

-----------------------------------------------------------------------------
(* Deployer.Deploy, run by the ctl server's HandleDeploySchema (of this or *)
(* another meduzad): the schema is loaded and validated before any write.  *)

\* A request to this meduzad's /deploy is served once ListenCtl ran.
Serving(d) == d \in CtlDeployers => ctlUp

\* HSET; an error returns before the PUBLISH.
DeployHSet(d, n, v) ==
    /\ dpc[d] = "hset" /\ Serving(d) /\ ValidSchema(v)
    /\ \/ /\ hash' = [hash EXCEPT ![n] = v]
          /\ dpc' = [dpc EXCEPT ![d] = "publish"]
          /\ dname' = [dname EXCEPT ![d] = n]
          /\ UNCHANGED faults
       \/ /\ Fault
          /\ dpc' = [dpc EXCEPT ![d] = "done"]
          /\ UNCHANGED <<hash, dname>>
    /\ UNCHANGED <<fileVars, ctlVars, subscribed, inbox, mpc, pending, pschemas, spc, out,
                   tables, dschemas, crashed>>

\* schema.Load rejects the schema: Deploy returns before any write.
DeployRejected(d, v) ==
    /\ dpc[d] = "hset" /\ Serving(d) /\ ~ValidSchema(v)
    /\ dpc' = [dpc EXCEPT ![d] = "done"]
    /\ UNCHANGED <<fileVars, ctlVars, hash, dname, subscribed, inbox, mpc, pending, pschemas, spc,
                   out, tables, dschemas, crashed, faults>>

\* PUBLISH reaches the connections subscribed at that moment; an error
\* returns after the HSET is done.
DeployPublish(d) ==
    /\ dpc[d] = "publish"
    /\ dpc' = [dpc EXCEPT ![d] = "done"]
    /\ \/ /\ inbox' = IF subscribed THEN Append(inbox, dname[d]) ELSE inbox
          /\ UNCHANGED faults
       \/ Fault /\ UNCHANGED inbox
    /\ UNCHANGED <<fileVars, ctlVars, hash, dname, subscribed, mpc, pending, pschemas, spc, out,
                   tables, dschemas, crashed>>

-----------------------------------------------------------------------------
(* Start-up: Provider.Init, then Driver.Init.                              *)

Up == ~crashed

\* HKEYS __mdz_schemas__.
ProviderHKeys ==
    /\ Up /\ mpc = "hkeys"
    /\ pending' = {n \in Names : hash[n] # None}
    /\ mpc' = "load"
    /\ UNCHANGED <<fileVars, ctlVars, hash, dpc, dname, subscribed, inbox, pschemas, spc, out,
                   tables, dschemas, crashed, faults>>

\* Provider.load: HGET (a missing field is an error) and schema.Load; a
\* dial or HGET error is a fault.  None when it returns an error.
RedisLoad(n) == IF Loadable(hash[n]) THEN hash[n] ELSE None

\* p.load(k, conn) for each name; an error skips the name.
ProviderLoad(k) ==
    /\ Up /\ prov = "redis" /\ mpc = "load" /\ k \in pending
    /\ pending' = pending \ {k}
    /\ \/ /\ RedisLoad(k) # None
          /\ pschemas' = [pschemas EXCEPT ![k] = RedisLoad(k)]
          /\ UNCHANGED faults
       \/ RedisLoad(k) = None /\ UNCHANGED <<pschemas, faults>>
       \/ Fault /\ UNCHANGED pschemas
    /\ UNCHANGED <<fileVars, ctlVars, hash, dpc, dname, subscribed, inbox, mpc, spc, out,
                   tables, dschemas, crashed>>

\* Schemas() of either provider: every schema it holds, in map order.
Schemas == {n \in Names : pschemas[n] # None}

ProviderInitDone ==
    /\ Up /\ mpc = "load" /\ pending = {}
    /\ pending' = Schemas
    /\ mpc' = "driver"
    /\ UNCHANGED <<fileVars, ctlVars, hash, dpc, dname, subscribed, inbox, pschemas, spc, out,
                   tables, dschemas, crashed, faults>>

\* handleSchema(<<n, v>>): tables are swapped one by one in the map order
\* of sc.Tables; the first newTable error returns, leaving the tables swapped
\* before it and Driver.schemas as they were.
HandleSchema(n, v) ==
    LET bad  == {t \in TableNames : ~NewTableOk(v, t)}
        Swap(S) == tables' = [k \in DOMAIN tables |->
                                IF k[1] = n /\ k[2] \in S THEN v ELSE tables[k]]
    IN  IF bad = {}
        THEN Swap(TableNames) /\ dschemas' = [dschemas EXCEPT ![n] = v]
        ELSE \E before \in SUBSET (TableNames \ bad) :
                Swap(before) /\ UNCHANGED dschemas

DriverInit(n) ==
    /\ Up /\ mpc = "driver" /\ n \in pending
    /\ HandleSchema(n, pschemas[n])
    /\ pending' = pending \ {n}
    /\ UNCHANGED <<fileVars, ctlVars, hash, dpc, dname, subscribed, inbox, mpc, pschemas, spc,
                   out, crashed, faults>>

\* Driver.Init has returned (it runs monitorChanges in a goroutine of its
\* own); Meduza.Start calls ListenCtl, whose server goroutine accepts the
\* ctl requests from now on.  The tests start no ctl server.
StartCtl ==
    /\ Up /\ prov = "redis" /\ ~ctlUp
    /\ mpc \in {"driver", "monitor", "stopped"} /\ pending = {}
    /\ ctlUp' = TRUE
    /\ UNCHANGED <<fileVars, dump, dumps, hash, dpc, dname, subscribed, inbox, mpc, pending,
                   pschemas, spc, out, tables, dschemas, crashed, faults>>

\* HandleDumpSchema calls sp.Schemas(), which ranges over p.schemas with no
\* lock, while the subscriber goroutine may write it ...
DumpBegin ==
    /\ Up /\ ctlUp /\ dump = "idle" /\ dumps < MaxDumps
    /\ dump' = "iter" /\ dumps' = dumps + 1
    /\ UNCHANGED <<fileVars, ctlUp, hash, dpc, dname, subscribed, inbox, mpc,
                   pending, pschemas, spc, out, tables, dschemas, crashed, faults>>

\* ... then looks the requested name up in the copy and answers.
DumpEnd ==
    /\ Up /\ dump = "iter"
    /\ dump' = "idle"
    /\ UNCHANGED <<fileVars, ctlUp, dumps, hash, dpc, dname, subscribed, inbox,
                   mpc, pending, pschemas, spc, out, tables, dschemas, crashed,
                   faults>>

\* go monitorChanges: sp.Updates() dials; if it fails monitorChanges
\* returns and no update is ever handled.
Updates ==
    /\ Up /\ prov = "redis" /\ mpc = "driver" /\ pending = {}
    /\ \/ mpc' = "monitor" /\ spc' = "subscribe" /\ UNCHANGED faults
       \/ Fault /\ mpc' = "stopped" /\ UNCHANGED spc
    /\ UNCHANGED <<fileVars, ctlVars, hash, dpc, dname, subscribed, inbox, pending, pschemas,
                   out, tables, dschemas, crashed>>

-----------------------------------------------------------------------------
(* The subscriber goroutine of Provider.Updates and monitorChanges.        *)

Dial ==
    /\ Up /\ spc = "dial"
    /\ \/ spc' = "subscribe" /\ UNCHANGED faults
       \/ Fault /\ UNCHANGED spc
    /\ UNCHANGED <<fileVars, ctlVars, hash, dpc, dname, subscribed, inbox, mpc, pending,
                   pschemas, out, tables, dschemas, crashed>>

\* psc.Subscribe; on error the connection is closed and redialled.
Subscribe ==
    /\ Up /\ spc = "subscribe"
    /\ \/ subscribed' = TRUE /\ spc' = "receive" /\ UNCHANGED faults
       \/ Fault /\ spc' = "dial" /\ UNCHANGED subscribed
    /\ UNCHANGED <<fileVars, ctlVars, hash, dpc, dname, inbox, mpc, pending, pschemas, out,
                   tables, dschemas, crashed>>

\* A redis.Message: p.load(name, nil) dials and HGETs; then
\* p.schemas[sc.Name] = sc runs before the nil check, so a failed load
\* dereferences a nil schema and the panic kills the process.
Receive ==
    /\ Up /\ spc = "receive" /\ inbox # <<>>
    /\ LET n == Head(inbox) IN
       \/ /\ RedisLoad(n) # None
          /\ pschemas' = [pschemas EXCEPT ![n] = RedisLoad(n)]
          /\ out' = <<n, RedisLoad(n)>>
          /\ spc' = "send"
          /\ UNCHANGED <<subscribed, crashed, faults>>
       \/ /\ \/ RedisLoad(n) = None /\ UNCHANGED faults
             \/ Fault
             \* The map write races a /schemadump iterating p.schemas; the
             \* runtime may detect it and throw, which no recover catches.
             \/ RedisLoad(n) # None /\ dump = "iter" /\ UNCHANGED faults
          /\ crashed' = TRUE
          /\ subscribed' = FALSE
          /\ UNCHANGED <<pschemas, out, spc>>
    /\ inbox' = Tail(inbox)
    /\ UNCHANGED <<fileVars, ctlVars, hash, dpc, dname, mpc, pending, tables, dschemas>>

\* A read error: the connection is closed, with the messages still on it.
ConnError ==
    /\ Up /\ spc = "receive" /\ Fault
    /\ subscribed' = FALSE /\ inbox' = <<>> /\ spc' = "dial"
    /\ UNCHANGED <<fileVars, ctlVars, hash, dpc, dname, mpc, pending, pschemas, out, tables,
                   dschemas, crashed>>

\* ch <- sc meets monitorChanges, which runs handleSchema(sc); the sender
\* goes back to its read loop.
MonitorHandle ==
    /\ Up /\ spc = "send" /\ mpc = "monitor"
    /\ HandleSchema(out[1], out[2])
    /\ spc' = IF prov = "redis" THEN "receive" ELSE "select"
    /\ UNCHANGED <<fileVars, ctlVars, hash, dpc, dname, subscribed, inbox, mpc, pending,
                   pschemas, out, crashed, faults>>

-----------------------------------------------------------------------------
(* FilesProvider and FilesDeployer (provider.go).  A path is a sequence of *)
(* elements; the file of schema n is the element n in RootDir.            *)

redisVars == <<hash, subscribed, inbox, ctlVars>>

\* filepath.Clean drops "." elements; the empty path is the working dir.
Clean(p) == SelectSeq(p, LAMBDA e : e # ".")
Join(a, b) == Clean(a \o b)

\* The name of an fsnotify event: the watch's path (filepath.Clean of the
\* root, "." for the working dir), "/", the file name, not cleaned.
EventName(n) == (IF Clean(RootDir) = <<>> THEN <<".">> ELSE Clean(RootDir)) \o <<n>>

\* The schema whose file a path opens, or None when os.Open fails.
FileAt(p) == IF \E n \in Names : Join(RootDir, <<n>>) = Clean(p) /\ dir[n] # None
             THEN CHOOSE n \in Names : Join(RootDir, <<n>>) = Clean(p)
             ELSE None

\* FilesDeployer.Deploy: os.Create truncates or makes the file (an error is
\* only logged, and io.Copy into the nil file then fails), io.Copy writes it.
\* Nothing validates the schema.  inotify reports the create of a new file
\* as Create, the truncation of an existing one as Write.
FilesCreate(d, n, v) ==
    /\ dpc[d] = "create"
    /\ \/ /\ dir' = [dir EXCEPT ![n] = Empty]
          /\ events' = IF watching
                       THEN Append(events, [op |-> IF dir[n] = None THEN "create" ELSE "write",
                                            n |-> n])
                       ELSE events
          /\ dpc' = [dpc EXCEPT ![d] = "write"]
          /\ dname' = [dname EXCEPT ![d] = n]
          /\ dver' = [dver EXCEPT ![d] = v]
          /\ UNCHANGED faults
       \/ /\ Fault
          /\ dpc' = [dpc EXCEPT ![d] = "done"]
          /\ UNCHANGED <<dir, events, dname, dver>>
    /\ UNCHANGED <<prov, watching, redisVars, mpc, pending, pschemas, spc, out,
                   tables, dschemas, crashed>>

FilesWrite(d) ==
    /\ dpc[d] = "write"
    /\ dir' = [dir EXCEPT ![dname[d]] = dver[d]]
    /\ events' = IF watching THEN Append(events, [op |-> "write", n |-> dname[d]])
                 ELSE events
    /\ dpc' = [dpc EXCEPT ![d] = "done"]
    /\ UNCHANGED <<prov, dname, dver, watching, redisVars, mpc, pending,
                   pschemas, spc, out, tables, dschemas, crashed, faults>>

\* FilesProvider.Init: ioutil.ReadDir lists the files ...
FilesReadDir ==
    /\ prov = "files" /\ mpc = "readdir"
    /\ pending' = {n \in Names : dir[n] # None}
    /\ mpc' = "load"
    /\ UNCHANGED <<fileVars, ctlVars, redisVars, dpc, dname, pschemas, spc, out, tables,
                   dschemas, crashed, faults>>

\* ... and LoadFile(filepath.Join(rootDir, file.Name())) reads each one
\* later; a file that fails to load is skipped.
FilesLoad(k) ==
    /\ prov = "files" /\ mpc = "load" /\ k \in pending
    /\ pending' = pending \ {k}
    /\ pschemas' = IF Loadable(dir[k]) THEN [pschemas EXCEPT ![k] = dir[k]]
                   ELSE pschemas
    /\ UNCHANGED <<fileVars, ctlVars, redisVars, dpc, dname, mpc, spc, out, tables,
                   dschemas, crashed, faults>>

\* monitorChanges calls FilesProvider.Updates: fsnotify.NewWatcher (an
\* error returns it to monitorChanges, which returns), then the watching
\* goroutine starts ...
FilesUpdates ==
    /\ Up /\ prov = "files" /\ mpc = "driver" /\ pending = {}
    /\ \/ mpc' = "adding" /\ spc' = "select" /\ UNCHANGED faults
       \/ Fault /\ mpc' = "stopped" /\ UNCHANGED spc
    /\ UNCHANGED <<fileVars, ctlVars, redisVars, dpc, dname, pending, pschemas, out,
                   tables, dschemas, crashed>>

\* ... and only then watcher.Add(rootDir) places the watch.  If it fails,
\* p.Stop closes stopchan, the goroutine returns and so does monitorChanges.
FilesAdd ==
    /\ Up /\ mpc = "adding"
    /\ \/ watching' = TRUE /\ mpc' = "monitor" /\ UNCHANGED <<spc, faults>>
       \/ Fault /\ mpc' = "stopped" /\ spc' = "exited" /\ UNCHANGED watching
    /\ UNCHANGED <<prov, dir, dver, events, redisVars, dpc, dname, pending,
                   pschemas, out, tables, dschemas, crashed>>

\* The goroutine reads an event.  Create is only logged.  A Write of a
\* *.schema.yaml loads filepath.Join(rootDir, event.Name), a path that holds
\* the root twice unless the root is the working dir; a load error is
\* logged, a schema is stored and sent on updatec.
WatchEvent ==
    /\ Up /\ spc = "select" /\ events # <<>>
    /\ LET e == Head(events)
           p == Join(RootDir, EventName(e.n))
           f == FileAt(p)
       IN  IF e.op = "write" /\ f # None /\ Loadable(dir[f])
           THEN /\ pschemas' = [pschemas EXCEPT ![f] = dir[f]]
                /\ out' = <<f, dir[f]>>
                /\ spc' = "send"
           ELSE UNCHANGED <<pschemas, out, spc>>
    /\ events' = Tail(events)
    /\ UNCHANGED <<prov, dir, dver, watching, redisVars, dpc, dname, mpc,
                   pending, tables, dschemas, crashed, faults>>

-----------------------------------------------------------------------------

\* meduzad runs with the redis Provider; the tests give the driver a
\* FilesProvider.  Either starts before any deploy, from what is stored.
Init ==
    /\ prov \in Providers
    /\ hash \in IF prov = "redis" THEN [Names -> {None} \cup Versions]
                ELSE {[n \in Names |-> None]}
    /\ dir \in IF prov = "files" THEN [Names -> {None} \cup Versions]
               ELSE {[n \in Names |-> None]}
    /\ dpc = [d \in Deployers |-> IF prov = "redis" THEN "hset" ELSE "create"]
    /\ dname = [d \in Deployers |-> CHOOSE n \in Names : TRUE]
    /\ dver = [d \in Deployers |-> None]
    /\ watching = FALSE
    /\ events = <<>>
    /\ subscribed = FALSE
    /\ inbox = <<>>
    /\ mpc = IF prov = "redis" THEN "hkeys" ELSE "readdir"
    /\ pending = {}
    /\ pschemas = [n \in Names |-> None]
    /\ spc = "off"
    /\ out = <<CHOOSE n \in Names : TRUE, None>>
    /\ tables = [k \in Names \X TableNames |-> None]
    /\ dschemas = [n \in Names |-> None]
    /\ crashed = FALSE
    /\ ctlUp = FALSE
    /\ dump = "idle"
    /\ dumps = 0
    /\ faults = 0

Next ==
    \/ \E d \in Deployers, n \in Names, v \in Versions : DeployHSet(d, n, v)
    \/ \E d \in Deployers, v \in Versions : DeployRejected(d, v)
    \/ \E d \in Deployers : DeployPublish(d)
    \/ \E d \in Deployers, n \in Names, v \in Versions : FilesCreate(d, n, v)
    \/ \E d \in Deployers : FilesWrite(d)
    \/ ProviderHKeys
    \/ \E k \in Names : ProviderLoad(k)
    \/ FilesReadDir
    \/ \E k \in Names : FilesLoad(k)
    \/ ProviderInitDone
    \/ \E n \in Names : DriverInit(n)
    \/ StartCtl
    \/ DumpBegin
    \/ DumpEnd
    \/ Updates
    \/ FilesUpdates
    \/ FilesAdd
    \/ Dial
    \/ Subscribe
    \/ Receive
    \/ ConnError
    \/ WatchEvent
    \/ MonitorHandle

\* Every goroutine and every deployer keeps running while it can; the
\* faults are not forced.  A process blocked on a read (Receive on an empty
\* connection, the watcher's select with no event) simply waits.
Fairness ==
    /\ \A d \in Deployers :
          /\ WF_vars(\E n \in Names, v \in Versions :
                       DeployHSet(d, n, v) \/ DeployRejected(d, v) \/ FilesCreate(d, n, v))
          /\ WF_vars(DeployPublish(d) \/ FilesWrite(d))
    /\ WF_vars(ProviderHKeys) /\ WF_vars(FilesReadDir) /\ WF_vars(ProviderInitDone)
    /\ \A k \in Names : WF_vars(ProviderLoad(k) \/ FilesLoad(k)) /\ WF_vars(DriverInit(k))
    /\ WF_vars(StartCtl) /\ WF_vars(DumpEnd) /\ WF_vars(Updates) /\ WF_vars(FilesUpdates) /\ WF_vars(FilesAdd)
    /\ WF_vars(Dial) /\ WF_vars(Subscribe) /\ WF_vars(Receive) /\ WF_vars(WatchEvent)
    /\ WF_vars(MonitorHandle)

Spec == Init /\ [][Next]_vars /\ Fairness

-----------------------------------------------------------------------------

\* Every table of the driver serves the version its provider holds.
Current == \A k \in Names \X TableNames : tables[k] = Deployed(k[1])

WatchedDeploysApplied ==
    (watching /\ \A d \in Deployers : dpc[d] = "create")
        ~> (/\ \A d \in Deployers : dpc[d] = "done"
            /\ events = <<>> /\ spc = "select"
            /\ Current)

====
