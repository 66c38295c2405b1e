---------------------------- MODULE StoreStartup ----------------------------
(***************************************************************************)
(* The life of the processes that share the policy database.  Every        *)
(* policy-server and policy-server-internal connects and runs store.New,   *)
(* which migrates the schema under a database lock and fills the groups    *)
(* table with one row per tag.  Then it starts its members one after the   *)
(* other; a signal, or a member that ends, stops them in reverse order,    *)
(* and the process closes its connection pool and exits.  What fails       *)
(* before that exits at once (log.Fatalf).  The platform starts a process  *)
(* that is down again.                                                     *)
(*                                                                         *)
(* The group of members (ifrit), the retrying connector, the migration     *)
(* library and the control script are external.                            *)
(***************************************************************************)
EXTENDS Naturals, FiniteSets

CONSTANTS
  Processes,      \* instances of policy-server and policy-server-internal
  NoProcess,      \* the migration lock is free
  Pools,          \* per process: connection pools that main opens
  Members,        \* per process: number of members
  StoreUsers,     \* per process: the members that use the store
  MaxRetries,     \* of the connector
  TagRows,        \* 2^(8*tagLength) - 1: rows one INSERT of populateTables adds
  NumMigrations,  \* entries of MigrationsToPerform
  MaxOutages,     \* bound: times the database goes down
  MaxFailures     \* bound: failures, crashes and signals in a behaviour

ASSUME StoreStartupAssumption ==
  /\ IsFiniteSet(Processes) /\ NoProcess \notin Processes
  /\ Pools \in [Processes -> Nat \ {0}] /\ Members \in [Processes -> Nat \ {0}]
  /\ \A p \in Processes : StoreUsers[p] \subseteq 1..Members[p]
  /\ TagRows \in Nat \ {0}
  /\ NumMigrations \in Nat \ {0}
  /\ MaxRetries \in Nat /\ MaxOutages \in Nat /\ MaxFailures \in Nat

VARIABLES
  pc,         \* where each process is
  pools,      \* per process: open connection pools
  tries,      \* per process: connection attempts that failed
  running,    \* per process: the members 1..running[p] run
  busy,       \* per process: members in the middle of an operation on the store
  lock,       \* holder of the migration lock
  applied,    \* number of migrations recorded as applied
  rows,       \* number of rows of groups
  dbUp,       \* the database answers
  outages,
  failures    \* failures so far

local == <<pc, pools, tries, running, busy>>
shared == <<lock, applied, rows, dbUp, outages>>
suvars == <<local, shared, failures>>

States == {"down", "connect", "lock", "migrate", "count", "insert",
           "start", "up", "stop", "closed"}

Init ==
  /\ pc = [p \in Processes |-> "down"]
  /\ pools = [p \in Processes |-> 0]
  /\ tries = [p \in Processes |-> 0]
  /\ running = [p \in Processes |-> 0]
  /\ busy = [p \in Processes |-> {}]
  /\ lock = NoProcess
  /\ applied = 0 /\ rows = 0
  /\ dbUp = TRUE /\ outages = 0 /\ failures = 0

Goto(p, s) == pc' = [pc EXCEPT ![p] = s]

\* The process is gone, and the database drops what its connections held.
Gone(p) ==
  /\ Goto(p, "down")
  /\ pools' = [pools EXCEPT ![p] = 0]
  /\ tries' = [tries EXCEPT ![p] = 0]
  /\ running' = [running EXCEPT ![p] = 0]
  /\ busy' = [busy EXCEPT ![p] = {}]
  /\ lock' = IF lock = p THEN NoProcess ELSE lock
  /\ UNCHANGED <<applied, rows, dbUp, outages>>

---------------------------------------------------------------------------
(* Up to the store *)

Start(p) ==
  /\ pc[p] = "down"
  /\ Goto(p, "connect")
  /\ UNCHANGED <<pools, tries, running, busy, shared, failures>>

\* NewConnectionPool: a connection arrives before the timeout.
Connect(p) ==
  /\ pc[p] = "connect" /\ dbUp
  /\ pools' = [pools EXCEPT ![p] = @ + 1]
  /\ tries' = [tries EXCEPT ![p] = 0]
  /\ Goto(p, IF pools'[p] = Pools[p] THEN "lock" ELSE "connect")
  /\ UNCHANGED <<running, busy, shared, failures>>

\* The goroutine tries again, in the background, ...
Retry(p) ==
  /\ pc[p] = "connect" /\ ~dbUp /\ tries[p] < MaxRetries
  /\ tries' = [tries EXCEPT ![p] = @ + 1]
  /\ UNCHANGED <<pc, pools, running, busy, shared, failures>>

\* ... until it gives up or main has waited for too long.
GiveUp(p) ==
  /\ pc[p] = "connect" /\ ~dbUp /\ Gone(p)
  /\ UNCHANGED failures

\* ExecMaxWithLock: all migrations run under one lock.
AcquireLock(p) ==
  /\ pc[p] = "lock" /\ dbUp /\ lock = NoProcess
  /\ lock' = p
  /\ Goto(p, "migrate")
  /\ UNCHANGED <<pools, tries, running, busy, applied, rows, dbUp, outages, failures>>

\* One entry of MigrationsToPerform that is not recorded as applied yet.
Migrate(p) ==
  /\ pc[p] = "migrate" /\ dbUp /\ applied < NumMigrations
  /\ applied' = applied + 1
  /\ UNCHANGED <<local, lock, rows, dbUp, outages, failures>>

ReleaseLock(p) ==
  /\ pc[p] = "migrate" /\ dbUp /\ applied = NumMigrations
  /\ lock' = NoProcess
  /\ Goto(p, "count")
  /\ UNCHANGED <<pools, tries, running, busy, applied, rows, dbUp, outages, failures>>

\* Mutant: the COUNT(*) is compared the wrong way round.
CountRows_Inverted(p) ==
  /\ pc[p] = "count" /\ dbUp
  /\ Goto(p, IF rows = 0 THEN "start" ELSE "insert")
  /\ UNCHANGED <<pools, tries, running, busy, shared, failures>>

\* populateTables: SELECT COUNT(*) FROM groups, without a lock and outside
\* any transaction ...
CountRows(p) ==
  /\ pc[p] = "count" /\ dbUp
  /\ Goto(p, IF rows > 0 THEN "start" ELSE "insert")
  /\ UNCHANGED <<pools, tries, running, busy, shared, failures>>

\* ... and the single INSERT of all rows.
InsertRows(p) ==
  /\ pc[p] = "insert" /\ dbUp
  /\ rows' = rows + TagRows
  /\ Goto(p, "start")
  /\ UNCHANGED <<pools, tries, running, busy, lock, applied, dbUp, outages, failures>>

---------------------------------------------------------------------------
(* The members *)

\* grouper.NewOrdered: the next member, once the one before is ready.
StartMember(p) ==
  /\ pc[p] = "start"
  /\ running' = [running EXCEPT ![p] = @ + 1]
  /\ Goto(p, IF running'[p] = Members[p] THEN "up" ELSE "start")
  /\ UNCHANGED <<pools, tries, busy, shared, failures>>

\* A request, a cycle of the cleaner or a count for the metrics.  A member that
\* has been signalled begins none.
BeginUse(p, m) ==
  /\ pc[p] \in {"start", "up", "stop"}
  /\ m \in StoreUsers[p] \ busy[p] /\ m <= running[p]
  /\ pc[p] = "stop" => m < running[p]
  /\ busy' = [busy EXCEPT ![p] = @ \cup {m}]
  /\ UNCHANGED <<pc, pools, tries, running, shared, failures>>

EndUse(p, m) ==
  /\ m \in busy[p]
  /\ busy' = [busy EXCEPT ![p] = @ \ {m}]
  /\ UNCHANGED <<pc, pools, tries, running, shared, failures>>

\* SIGTERM or SIGINT, or a member ends with an error.
Stop(p) ==
  /\ pc[p] \in {"start", "up"} /\ failures < MaxFailures
  /\ failures' = failures + 1
  /\ Goto(p, "stop")
  /\ UNCHANGED <<pools, tries, running, busy, shared>>

\* The last member is signalled.  It returns when it has finished what it does:
\* Poller.Run looks at its signals between two cycles.
StopMember(p) ==
  /\ pc[p] = "stop" /\ running[p] > 0 /\ running[p] \notin busy[p]
  /\ running' = [running EXCEPT ![p] = @ - 1]
  /\ UNCHANGED <<pc, pools, tries, busy, shared, failures>>

\* Mutant: the pool is closed when the signal arrives.
ClosePool_AtOnce(p) ==
  /\ pc[p] = "stop"
  /\ pools' = [pools EXCEPT ![p] = Pools[p] - 1]
  /\ Goto(p, IF running[p] = 0 THEN "closed" ELSE "stop")
  /\ UNCHANGED <<tries, running, busy, shared, failures>>

\* main: the monitor has returned, and the pool of the store is closed.  A pool
\* for the migrations stays open until the process exits.
ClosePool(p) ==
  /\ pc[p] = "stop" /\ running[p] = 0
  /\ pools' = [pools EXCEPT ![p] = @ - 1]
  /\ Goto(p, "closed")
  /\ UNCHANGED <<tries, running, busy, shared, failures>>

Exit(p) == pc[p] = "closed" /\ Gone(p) /\ UNCHANGED failures

\* The control script kills a process that has not ended in time.
Kill(p) == pc[p] = "stop" /\ Gone(p) /\ UNCHANGED failures

---------------------------------------------------------------------------
(* Failures and the specification *)

\* Mutant: an exiting process keeps the migration lock.
Fail_KeepsLock(p) ==
  /\ pc[p] # "down" /\ failures < MaxFailures
  /\ failures' = failures + 1
  /\ Goto(p, "down")
  /\ pools' = [pools EXCEPT ![p] = 0]
  /\ tries' = [tries EXCEPT ![p] = 0]
  /\ running' = [running EXCEPT ![p] = 0]
  /\ busy' = [busy EXCEPT ![p] = {}]
  /\ UNCHANGED <<lock, applied, rows, dbUp, outages>>

\* The process exits: the lock is not free within a minute, a statement fails
\* (log.Fatalf), or it crashes.
Fail(p) ==
  /\ pc[p] # "down" /\ failures < MaxFailures
  /\ failures' = failures + 1
  /\ Gone(p)

DatabaseDown ==
  /\ dbUp /\ outages < MaxOutages
  /\ dbUp' = FALSE /\ outages' = outages + 1
  /\ UNCHANGED <<local, lock, applied, rows, failures>>

DatabaseUp ==
  /\ ~dbUp
  /\ dbUp' = TRUE
  /\ UNCHANGED <<local, lock, applied, rows, outages, failures>>

Step(p) ==
  \/ Start(p) \/ Connect(p) \/ AcquireLock(p) \/ Migrate(p) \/ ReleaseLock(p)
  \/ CountRows(p) \/ InsertRows(p) \/ StartMember(p)
  \/ StopMember(p) \/ ClosePool(p) \/ Exit(p)

Next ==
  \/ \E p \in Processes :
       \/ Step(p) \/ Retry(p) \/ GiveUp(p) \/ Stop(p) \/ Kill(p) \/ Fail(p)
       \/ \E m \in StoreUsers[p] : BeginUse(p, m) \/ EndUse(p, m)
  \/ DatabaseDown \/ DatabaseUp

Spec == Init /\ [][Next]_suvars

\* The platform restarts what is down, the database comes back and answers, an
\* operation on the store ends, and a lock that is freed is taken by one of
\* those who wait.  No outage and no kill is assumed to happen.
FairSpec ==
  /\ Spec
  /\ WF_suvars(DatabaseUp)
  /\ \A p \in Processes :
       /\ WF_suvars(Step(p))
       /\ \A m \in StoreUsers[p] : WF_suvars(EndUse(p, m))

---------------------------------------------------------------------------
(* Properties *)

\* Type correctness; the lock is held exactly while migrating.
TypeOK ==
  /\ pc \in [Processes -> States]
  /\ \A p \in Processes :
       /\ pools[p] \in 0..Pools[p] /\ tries[p] \in 0..MaxRetries
       /\ running[p] \in 0..Members[p] /\ busy[p] \subseteq StoreUsers[p]
  /\ lock \in Processes \cup {NoProcess}
  /\ applied \in 0..NumMigrations
  /\ rows \in Nat /\ dbUp \in BOOLEAN
  /\ outages \in 0..MaxOutages /\ failures \in 0..MaxFailures
  /\ \A p \in Processes : pc[p] = "migrate" <=> lock = p

\* A member runs only on a complete schema with tags to hand out, whichever
\* process migrated and populated and wherever others failed.  Processes that
\* start together on an empty table all insert their rows, which the store's test
\* would not have ("does not exceed 2^(tag_length * 8) rows"); but no process adds
\* them twice, however often it fails and starts again.
UpMeansUsable ==
  /\ \A p \in Processes : running[p] > 0 => applied = NumMigrations /\ rows >= TagRows
  /\ rows <= Cardinality(Processes) * TagRows

\* No operation on the store is under way once the pool is closed: the process
\* waits for all members, also for a cleaner in the middle of a cycle.  (With
\* the types.)
PoolOutlivesMembers ==
  /\ TypeOK
  /\ \A p \in Processes : busy[p] # {} => pools[p] = Pools[p] /\ running[p] > 0

\* Once failures stop, every process comes up: nobody waits for the migration
\* lock of a process that is gone, and no signal is lost half way.
AllComeUp == <>[](\A p \in Processes : pc[p] = "up")
=============================================================================
