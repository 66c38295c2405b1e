-------------------------- MODULE StoreStartupProofs --------------------------
(***************************************************************************)
(* Proofs about StoreStartup, for any processes, members, migrations,      *)
(* outages and failures: who runs has a usable database, and the pool is   *)
(* closed last.                                                            *)
(***************************************************************************)
EXTENDS StoreStartup, FiniteSetTheorems, TLAPS

USE StoreStartupAssumption

---------------------------------------------------------------------------
(* The invariant *)

Types ==
  /\ pc \in [Processes -> States]
  /\ pools \in [Processes -> Nat] /\ tries \in [Processes -> Nat]
  /\ running \in [Processes -> Nat] /\ busy \in [Processes -> SUBSET Nat]
  /\ lock \in Processes \cup {NoProcess}
  /\ applied \in 0..NumMigrations /\ rows \in Nat /\ dbUp \in BOOLEAN
  /\ outages \in 0..MaxOutages /\ failures \in 0..MaxFailures

\* What a process has at each point of its life.
Life(p) ==
  /\ tries[p] <= MaxRetries
  /\ pc[p] = "down" => pools[p] = 0
  /\ pc[p] = "closed" => pools[p] < Pools[p]
  /\ pc[p] = "connect" => pools[p] < Pools[p]
  /\ pc[p] \notin {"down", "closed", "connect"} => pools[p] = Pools[p]
  /\ pc[p] \notin {"start", "up", "stop"} => running[p] = 0
  /\ pc[p] = "start" => running[p] < Members[p]
  /\ running[p] <= Members[p]
  /\ busy[p] \subseteq StoreUsers[p] /\ \A m \in busy[p] : m <= running[p]

Owner(p) == pc[p] = "migrate" <=> lock = p

\* Past the migrations the schema is complete, and past populateTables there
\* are rows; nothing takes either back.
Ready(p) ==
  /\ pc[p] \in {"count", "insert", "start", "up", "stop"} => applied = NumMigrations
  /\ pc[p] \in {"start", "up", "stop"} => rows > 0

\* The processes that have seen an empty table and have not filled it yet have
\* room left: each of them adds its rows once more at most.
Inserting == {p \in Processes : pc[p] = "insert"}

Filled ==
  \E n \in Nat : /\ rows = n * TagRows
                 /\ n + Cardinality(Inserting) <= Cardinality(Processes)

Inv == Types /\ Filled /\ \A p \in Processes : Life(p) /\ Owner(p) /\ Ready(p)

---------------------------------------------------------------------------
(* The rows *)

LEMMA InsertingFinite ==
  /\ IsFiniteSet(Inserting) /\ Cardinality(Inserting) \in Nat
  /\ Cardinality(Inserting) <= Cardinality(Processes) /\ Cardinality(Processes) \in Nat
<1>1. Inserting \subseteq Processes
  BY DEF Inserting
<1> QED
  BY <1>1, FS_Subset, FS_CardinalityType

LEMMA InsertingFiniteNext ==
  /\ IsFiniteSet(Inserting') /\ Cardinality(Inserting') \in Nat
  /\ Cardinality(Inserting') <= Cardinality(Processes)
<1>1. Inserting' \subseteq Processes
  BY DEF Inserting
<1> QED
  BY <1>1, FS_Subset, FS_CardinalityType

LEMMA FilledKept ==
  ASSUME Filled, rows' = rows, Inserting' \subseteq Inserting
  PROVE  Filled'
<1>1. PICK n \in Nat : /\ rows = n * TagRows
                       /\ n + Cardinality(Inserting) <= Cardinality(Processes)
  BY DEF Filled
<1>2. Cardinality(Inserting') <= Cardinality(Inserting)
  BY InsertingFinite, FS_Subset
<1>3. n + Cardinality(Inserting') <= Cardinality(Processes)
  BY <1>1, <1>2, InsertingFinite, InsertingFiniteNext
<1> QED
  BY <1>1, <1>3 DEF Filled

\* Nobody goes on to insert once there are rows.
LEMMA FilledEmpty ==
  ASSUME rows = 0, rows' = rows
  PROVE  Filled'
<1>1. 0 \in Nat /\ rows' = 0 * TagRows
  OBVIOUS
<1>2. 0 + Cardinality(Inserting') <= Cardinality(Processes)
  BY InsertingFiniteNext
<1> QED
  BY <1>1, <1>2 DEF Filled

LEMMA FilledMore ==
  ASSUME Types, Filled, NEW p \in Processes, pc[p] = "insert",
         rows' = rows + TagRows, Inserting' = Inserting \ {p}
  PROVE  Filled'
<1>1. PICK n \in Nat : /\ rows = n * TagRows
                       /\ n + Cardinality(Inserting) <= Cardinality(Processes)
  BY DEF Filled
<1>2. Cardinality(Inserting') = Cardinality(Inserting) - 1
  <2>1. p \in Inserting
    BY DEF Inserting
  <2> QED
    BY <2>1, InsertingFinite, FS_RemoveElement
<1>3. n + 1 \in Nat /\ rows' = (n + 1) * TagRows
  BY <1>1
<1>4. n + 1 + Cardinality(Inserting') <= Cardinality(Processes)
  BY <1>1, <1>2, InsertingFinite
<1> QED
  BY <1>3, <1>4 DEF Filled

LEMMA RowsAreEnough ==
  ASSUME Filled, rows > 0
  PROVE  rows >= TagRows
<1>1. PICK n \in Nat : rows = n * TagRows
  BY DEF Filled
<1>2. n >= 1
  BY <1>1
<1> QED
  BY <1>1, <1>2

LEMMA RowsAreBounded ==
  ASSUME Filled
  PROVE  rows <= Cardinality(Processes) * TagRows
<1>1. PICK n \in Nat : /\ rows = n * TagRows
                       /\ n + Cardinality(Inserting) <= Cardinality(Processes)
  BY DEF Filled
<1>2. n <= Cardinality(Processes) /\ Cardinality(Processes) \in Nat
  BY <1>1, InsertingFinite
<1>3. \A a, b \in Nat : a <= b => a * TagRows <= b * TagRows
  OBVIOUS
<1> QED
  BY <1>1, <1>2, <1>3

---------------------------------------------------------------------------
(* The steps of a process *)

LEMMA StartInv ==
  ASSUME Inv, NEW p \in Processes, Start(p)
  PROVE  Inv'
<1>1. Types /\ Filled /\ \A q \in Processes : Life(q) /\ Owner(q) /\ Ready(q)
  BY DEF Inv
<1>2. Types'
  BY <1>1 DEF Types, States, Life, Start, Goto, shared
<1>3. \A q \in Processes : Life(q)'
  BY <1>1 DEF Types, States, Life, Start, Goto, shared
<1>4. \A q \in Processes : Owner(q)'
  BY <1>1 DEF Types, States, Owner, Start, Goto, shared
<1>5. \A q \in Processes : Ready(q)'
  BY <1>1 DEF Types, States, Ready, Start, Goto, shared
<1>6. Filled'
  <2>1. rows' = rows /\ Inserting' \subseteq Inserting
    BY <1>1 DEF Types, Inserting, Start, Goto, shared
  <2> QED
    BY <1>1, <2>1, FilledKept
<1> QED
  BY <1>2, <1>3, <1>4, <1>5, <1>6 DEF Inv

LEMMA ConnectInv ==
  ASSUME Inv, NEW p \in Processes, Connect(p)
  PROVE  Inv'
<1>1. Types /\ Filled /\ \A q \in Processes : Life(q) /\ Owner(q) /\ Ready(q)
  BY DEF Inv
<1>2. Types'
  BY <1>1 DEF Types, States, Life, Connect, Goto, shared
<1>3. \A q \in Processes : Life(q)'
  BY <1>1 DEF Types, States, Life, Connect, Goto, shared
<1>4. \A q \in Processes : Owner(q)'
  BY <1>1 DEF Types, States, Owner, Connect, Goto, shared
<1>5. \A q \in Processes : Ready(q)'
  BY <1>1 DEF Types, States, Ready, Connect, Goto, shared
<1>6. Filled'
  <2>1. rows' = rows /\ Inserting' \subseteq Inserting
    BY <1>1 DEF Types, Inserting, Connect, Goto, shared
  <2> QED
    BY <1>1, <2>1, FilledKept
<1> QED
  BY <1>2, <1>3, <1>4, <1>5, <1>6 DEF Inv

LEMMA RetryInv ==
  ASSUME Inv, NEW p \in Processes, Retry(p)
  PROVE  Inv'
<1>1. Types /\ Filled /\ \A q \in Processes : Life(q) /\ Owner(q) /\ Ready(q)
  BY DEF Inv
<1>2. Types'
  BY <1>1 DEF Types, States, Life, Retry, shared
<1>3. \A q \in Processes : Life(q)'
  BY <1>1 DEF Types, States, Life, Retry, shared
<1>4. \A q \in Processes : Owner(q)'
  BY <1>1 DEF Types, States, Owner, Retry, shared
<1>5. \A q \in Processes : Ready(q)'
  BY <1>1 DEF Types, States, Ready, Retry, shared
<1>6. Filled'
  <2>1. rows' = rows /\ Inserting' \subseteq Inserting
    BY <1>1 DEF Types, Inserting, Retry, shared
  <2> QED
    BY <1>1, <2>1, FilledKept
<1> QED
  BY <1>2, <1>3, <1>4, <1>5, <1>6 DEF Inv

LEMMA GiveUpInv ==
  ASSUME Inv, NEW p \in Processes, GiveUp(p)
  PROVE  Inv'
<1>1. Types /\ Filled /\ \A q \in Processes : Life(q) /\ Owner(q) /\ Ready(q)
  BY DEF Inv
<1>2. Types'
  BY <1>1 DEF Types, States, Life, GiveUp, Gone, Goto
<1>3. \A q \in Processes : Life(q)'
  BY <1>1 DEF Types, States, Life, GiveUp, Gone, Goto
<1>4. \A q \in Processes : Owner(q)'
  BY <1>1 DEF Types, States, Owner, GiveUp, Gone, Goto
<1>5. \A q \in Processes : Ready(q)'
  BY <1>1 DEF Types, States, Ready, GiveUp, Gone, Goto
<1>6. Filled'
  <2>1. rows' = rows /\ Inserting' \subseteq Inserting
    BY <1>1 DEF Types, Inserting, GiveUp, Gone, Goto
  <2> QED
    BY <1>1, <2>1, FilledKept
<1> QED
  BY <1>2, <1>3, <1>4, <1>5, <1>6 DEF Inv

LEMMA AcquireLockInv ==
  ASSUME Inv, NEW p \in Processes, AcquireLock(p)
  PROVE  Inv'
<1>1. Types /\ Filled /\ \A q \in Processes : Life(q) /\ Owner(q) /\ Ready(q)
  BY DEF Inv
<1>2. Types'
  BY <1>1 DEF Types, States, Life, AcquireLock, Goto
<1>3. \A q \in Processes : Life(q)'
  BY <1>1 DEF Types, States, Life, AcquireLock, Goto
<1>4. \A q \in Processes : Owner(q)'
  BY <1>1 DEF Types, States, Owner, AcquireLock, Goto
<1>5. \A q \in Processes : Ready(q)'
  BY <1>1 DEF Types, States, Ready, AcquireLock, Goto
<1>6. Filled'
  <2>1. rows' = rows /\ Inserting' \subseteq Inserting
    BY <1>1 DEF Types, Inserting, AcquireLock, Goto
  <2> QED
    BY <1>1, <2>1, FilledKept
<1> QED
  BY <1>2, <1>3, <1>4, <1>5, <1>6 DEF Inv

LEMMA MigrateInv ==
  ASSUME Inv, NEW p \in Processes, Migrate(p)
  PROVE  Inv'
<1>1. Types /\ Filled /\ \A q \in Processes : Life(q) /\ Owner(q) /\ Ready(q)
  BY DEF Inv
<1>2. Types'
  BY <1>1 DEF Types, States, Life, Migrate, local
<1>3. \A q \in Processes : Life(q)'
  BY <1>1 DEF Types, States, Life, Migrate, local
<1>4. \A q \in Processes : Owner(q)'
  BY <1>1 DEF Types, States, Owner, Migrate, local
<1>5. \A q \in Processes : Ready(q)'
  BY <1>1 DEF Types, States, Ready, Migrate, local
<1>6. Filled'
  <2>1. rows' = rows /\ Inserting' \subseteq Inserting
    BY <1>1 DEF Types, Inserting, Migrate, local
  <2> QED
    BY <1>1, <2>1, FilledKept
<1> QED
  BY <1>2, <1>3, <1>4, <1>5, <1>6 DEF Inv

LEMMA ReleaseLockInv ==
  ASSUME Inv, NEW p \in Processes, ReleaseLock(p)
  PROVE  Inv'
<1>1. Types /\ Filled /\ \A q \in Processes : Life(q) /\ Owner(q) /\ Ready(q)
  BY DEF Inv
<1>2. Types'
  BY <1>1 DEF Types, States, Life, ReleaseLock, Goto
<1>3. \A q \in Processes : Life(q)'
  BY <1>1 DEF Types, States, Life, ReleaseLock, Goto
<1>4. \A q \in Processes : Owner(q)'
  BY <1>1 DEF Types, States, Owner, ReleaseLock, Goto
<1>5. \A q \in Processes : Ready(q)'
  BY <1>1 DEF Types, States, Ready, ReleaseLock, Goto
<1>6. Filled'
  <2>1. rows' = rows /\ Inserting' \subseteq Inserting
    BY <1>1 DEF Types, Inserting, ReleaseLock, Goto
  <2> QED
    BY <1>1, <2>1, FilledKept
<1> QED
  BY <1>2, <1>3, <1>4, <1>5, <1>6 DEF Inv

LEMMA CountRowsInv ==
  ASSUME Inv, NEW p \in Processes, CountRows(p)
  PROVE  Inv'
<1>1. Types /\ Filled /\ \A q \in Processes : Life(q) /\ Owner(q) /\ Ready(q)
  BY DEF Inv
<1>2. Types'
  BY <1>1 DEF Types, States, Life, CountRows, Goto, shared
<1>3. \A q \in Processes : Life(q)'
  BY <1>1 DEF Types, States, Life, CountRows, Goto, shared
<1>4. \A q \in Processes : Owner(q)'
  BY <1>1 DEF Types, States, Owner, CountRows, Goto, shared
<1>5. \A q \in Processes : Ready(q)'
  BY <1>1 DEF Types, States, Ready, CountRows, Goto, shared
<1>6. Filled'
  <2>1. CASE rows = 0
    BY <2>1, FilledEmpty DEF CountRows, shared
  <2>2. CASE rows # 0
    <3>1. rows' = rows /\ Inserting' \subseteq Inserting
      BY <1>1, <2>2 DEF Types, Inserting, CountRows, Goto, shared
    <3> QED
      BY <1>1, <3>1, FilledKept
  <2> QED
    BY <2>1, <2>2
<1> QED
  BY <1>2, <1>3, <1>4, <1>5, <1>6 DEF Inv

LEMMA InsertRowsInv ==
  ASSUME Inv, NEW p \in Processes, InsertRows(p)
  PROVE  Inv'
<1>1. Types /\ Filled /\ \A q \in Processes : Life(q) /\ Owner(q) /\ Ready(q)
  BY DEF Inv
<1>2. Types'
  BY <1>1 DEF Types, States, Life, InsertRows, Goto
<1>3. \A q \in Processes : Life(q)'
  BY <1>1 DEF Types, States, Life, InsertRows, Goto
<1>4. \A q \in Processes : Owner(q)'
  BY <1>1 DEF Types, States, Owner, InsertRows, Goto
<1>5. \A q \in Processes : Ready(q)'
  BY <1>1 DEF Types, States, Ready, InsertRows, Goto
<1>6. Filled'
  <2>1. /\ pc[p] = "insert" /\ rows' = rows + TagRows
        /\ Inserting' = Inserting \ {p}
    BY <1>1 DEF Types, Inserting, InsertRows, Goto
  <2> QED
    BY <1>1, <2>1, FilledMore
<1> QED
  BY <1>2, <1>3, <1>4, <1>5, <1>6 DEF Inv

LEMMA StartMemberInv ==
  ASSUME Inv, NEW p \in Processes, StartMember(p)
  PROVE  Inv'
<1>1. Types /\ Filled /\ \A q \in Processes : Life(q) /\ Owner(q) /\ Ready(q)
  BY DEF Inv
<1>2. Types'
  BY <1>1 DEF Types, States, Life, StartMember, Goto, shared
<1>3. \A q \in Processes : Life(q)'
  BY <1>1 DEF Types, States, Life, StartMember, Goto, shared
<1>4. \A q \in Processes : Owner(q)'
  BY <1>1 DEF Types, States, Owner, StartMember, Goto, shared
<1>5. \A q \in Processes : Ready(q)'
  BY <1>1 DEF Types, States, Ready, StartMember, Goto, shared
<1>6. Filled'
  <2>1. rows' = rows /\ Inserting' \subseteq Inserting
    BY <1>1 DEF Types, Inserting, StartMember, Goto, shared
  <2> QED
    BY <1>1, <2>1, FilledKept
<1> QED
  BY <1>2, <1>3, <1>4, <1>5, <1>6 DEF Inv

LEMMA StopInv ==
  ASSUME Inv, NEW p \in Processes, Stop(p)
  PROVE  Inv'
<1>1. Types /\ Filled /\ \A q \in Processes : Life(q) /\ Owner(q) /\ Ready(q)
  BY DEF Inv
<1>2. Types'
  BY <1>1 DEF Types, States, Life, Stop, Goto, shared
<1>3. \A q \in Processes : Life(q)'
  BY <1>1 DEF Types, States, Life, Stop, Goto, shared
<1>4. \A q \in Processes : Owner(q)'
  BY <1>1 DEF Types, States, Owner, Stop, Goto, shared
<1>5. \A q \in Processes : Ready(q)'
  BY <1>1 DEF Types, States, Ready, Stop, Goto, shared
<1>6. Filled'
  <2>1. rows' = rows /\ Inserting' \subseteq Inserting
    BY <1>1 DEF Types, Inserting, Stop, Goto, shared
  <2> QED
    BY <1>1, <2>1, FilledKept
<1> QED
  BY <1>2, <1>3, <1>4, <1>5, <1>6 DEF Inv

LEMMA StopMemberInv ==
  ASSUME Inv, NEW p \in Processes, StopMember(p)
  PROVE  Inv'
<1>1. Types /\ Filled /\ \A q \in Processes : Life(q) /\ Owner(q) /\ Ready(q)
  BY DEF Inv
<1>2. Types'
  BY <1>1 DEF Types, States, Life, StopMember, shared
<1>3. \A q \in Processes : Life(q)'
  BY <1>1 DEF Types, States, Life, StopMember, shared
<1>4. \A q \in Processes : Owner(q)'
  BY <1>1 DEF Types, States, Owner, StopMember, shared
<1>5. \A q \in Processes : Ready(q)'
  BY <1>1 DEF Types, States, Ready, StopMember, shared
<1>6. Filled'
  <2>1. rows' = rows /\ Inserting' \subseteq Inserting
    BY <1>1 DEF Types, Inserting, StopMember, shared
  <2> QED
    BY <1>1, <2>1, FilledKept
<1> QED
  BY <1>2, <1>3, <1>4, <1>5, <1>6 DEF Inv

LEMMA ClosePoolInv ==
  ASSUME Inv, NEW p \in Processes, ClosePool(p)
  PROVE  Inv'
<1>1. Types /\ Filled /\ \A q \in Processes : Life(q) /\ Owner(q) /\ Ready(q)
  BY DEF Inv
<1>2. Types'
  BY <1>1 DEF Types, States, Life, ClosePool, Goto, shared
<1>3. \A q \in Processes : Life(q)'
  BY <1>1 DEF Types, States, Life, ClosePool, Goto, shared
<1>4. \A q \in Processes : Owner(q)'
  BY <1>1 DEF Types, States, Owner, ClosePool, Goto, shared
<1>5. \A q \in Processes : Ready(q)'
  BY <1>1 DEF Types, States, Ready, ClosePool, Goto, shared
<1>6. Filled'
  <2>1. rows' = rows /\ Inserting' \subseteq Inserting
    BY <1>1 DEF Types, Inserting, ClosePool, Goto, shared
  <2> QED
    BY <1>1, <2>1, FilledKept
<1> QED
  BY <1>2, <1>3, <1>4, <1>5, <1>6 DEF Inv

LEMMA ExitInv ==
  ASSUME Inv, NEW p \in Processes, Exit(p)
  PROVE  Inv'
<1>1. Types /\ Filled /\ \A q \in Processes : Life(q) /\ Owner(q) /\ Ready(q)
  BY DEF Inv
<1>2. Types'
  BY <1>1 DEF Types, States, Life, Exit, Gone, Goto
<1>3. \A q \in Processes : Life(q)'
  BY <1>1 DEF Types, States, Life, Exit, Gone, Goto
<1>4. \A q \in Processes : Owner(q)'
  BY <1>1 DEF Types, States, Owner, Exit, Gone, Goto
<1>5. \A q \in Processes : Ready(q)'
  BY <1>1 DEF Types, States, Ready, Exit, Gone, Goto
<1>6. Filled'
  <2>1. rows' = rows /\ Inserting' \subseteq Inserting
    BY <1>1 DEF Types, Inserting, Exit, Gone, Goto
  <2> QED
    BY <1>1, <2>1, FilledKept
<1> QED
  BY <1>2, <1>3, <1>4, <1>5, <1>6 DEF Inv

LEMMA KillInv ==
  ASSUME Inv, NEW p \in Processes, Kill(p)
  PROVE  Inv'
<1>1. Types /\ Filled /\ \A q \in Processes : Life(q) /\ Owner(q) /\ Ready(q)
  BY DEF Inv
<1>2. Types'
  BY <1>1 DEF Types, States, Life, Kill, Gone, Goto
<1>3. \A q \in Processes : Life(q)'
  BY <1>1 DEF Types, States, Life, Kill, Gone, Goto
<1>4. \A q \in Processes : Owner(q)'
  BY <1>1 DEF Types, States, Owner, Kill, Gone, Goto
<1>5. \A q \in Processes : Ready(q)'
  BY <1>1 DEF Types, States, Ready, Kill, Gone, Goto
<1>6. Filled'
  <2>1. rows' = rows /\ Inserting' \subseteq Inserting
    BY <1>1 DEF Types, Inserting, Kill, Gone, Goto
  <2> QED
    BY <1>1, <2>1, FilledKept
<1> QED
  BY <1>2, <1>3, <1>4, <1>5, <1>6 DEF Inv

LEMMA FailInv ==
  ASSUME Inv, NEW p \in Processes, Fail(p)
  PROVE  Inv'
<1>1. Types /\ Filled /\ \A q \in Processes : Life(q) /\ Owner(q) /\ Ready(q)
  BY DEF Inv
<1>2. Types'
  BY <1>1 DEF Types, States, Life, Fail, Gone, Goto
<1>3. \A q \in Processes : Life(q)'
  BY <1>1 DEF Types, States, Life, Fail, Gone, Goto
<1>4. \A q \in Processes : Owner(q)'
  BY <1>1 DEF Types, States, Owner, Fail, Gone, Goto
<1>5. \A q \in Processes : Ready(q)'
  BY <1>1 DEF Types, States, Ready, Fail, Gone, Goto
<1>6. Filled'
  <2>1. rows' = rows /\ Inserting' \subseteq Inserting
    BY <1>1 DEF Types, Inserting, Fail, Gone, Goto
  <2> QED
    BY <1>1, <2>1, FilledKept
<1> QED
  BY <1>2, <1>3, <1>4, <1>5, <1>6 DEF Inv

LEMMA BeginUseInv ==
  ASSUME Inv, NEW p \in Processes, NEW m \in StoreUsers[p], BeginUse(p, m)
  PROVE  Inv'
<1>1. Types /\ Filled /\ \A q \in Processes : Life(q) /\ Owner(q) /\ Ready(q)
  BY DEF Inv
<1>2. StoreUsers[p] \subseteq Nat
  OBVIOUS
<1>3. Types'
  BY <1>1, <1>2 DEF Types, BeginUse, shared
<1>4. \A q \in Processes : Life(q)'
  BY <1>1 DEF Types, Life, BeginUse, shared
<1>5. \A q \in Processes : Owner(q)' /\ Ready(q)'
  BY <1>1 DEF Types, Owner, Ready, BeginUse, shared
<1>6. Filled'
  <2>1. rows' = rows /\ Inserting' \subseteq Inserting
    BY <1>1 DEF Inserting, BeginUse, shared
  <2> QED
    BY <1>1, <2>1, FilledKept
<1> QED
  BY <1>3, <1>4, <1>5, <1>6 DEF Inv

LEMMA EndUseInv ==
  ASSUME Inv, NEW p \in Processes, NEW m \in StoreUsers[p], EndUse(p, m)
  PROVE  Inv'
<1>1. Types /\ Filled /\ \A q \in Processes : Life(q) /\ Owner(q) /\ Ready(q)
  BY DEF Inv
<1>2. StoreUsers[p] \subseteq Nat
  OBVIOUS
<1>3. Types'
  BY <1>1, <1>2 DEF Types, EndUse, shared
<1>4. \A q \in Processes : Life(q)'
  BY <1>1 DEF Types, Life, EndUse, shared
<1>5. \A q \in Processes : Owner(q)' /\ Ready(q)'
  BY <1>1 DEF Types, Owner, Ready, EndUse, shared
<1>6. Filled'
  <2>1. rows' = rows /\ Inserting' \subseteq Inserting
    BY <1>1 DEF Inserting, EndUse, shared
  <2> QED
    BY <1>1, <2>1, FilledKept
<1> QED
  BY <1>3, <1>4, <1>5, <1>6 DEF Inv

LEMMA DatabaseInv ==
  ASSUME Inv, DatabaseDown \/ DatabaseUp \/ UNCHANGED suvars
  PROVE  Inv'
<1>1. Types /\ Filled /\ \A q \in Processes : Life(q) /\ Owner(q) /\ Ready(q)
  BY DEF Inv
<1>2. UNCHANGED <<local, lock, applied, rows, failures>>
  BY DEF DatabaseDown, DatabaseUp, suvars, shared
<1>3. Types'
  <2>1. dbUp' \in BOOLEAN
    BY <1>1 DEF Types, DatabaseDown, DatabaseUp, suvars, shared
  <2>2. outages' \in 0..MaxOutages
    BY <1>1 DEF Types, DatabaseDown, DatabaseUp, suvars, shared
  <2> QED
    BY <1>1, <1>2, <2>1, <2>2 DEF Types, local
<1>4. \A q \in Processes : Life(q)' /\ Owner(q)' /\ Ready(q)'
  <2>1. \A q \in Processes : Life(q)'
    BY <1>1, <1>2 DEF Life, local
  <2>2. \A q \in Processes : Owner(q)' /\ Ready(q)'
    BY <1>1, <1>2 DEF Owner, Ready, local
  <2> QED
    BY <2>1, <2>2
<1>5. Filled'
  <2>1. rows' = rows /\ Inserting' \subseteq Inserting
    BY <1>2 DEF Inserting, local
  <2> QED
    BY <1>1, <2>1, FilledKept
<1> QED
  BY <1>3, <1>4, <1>5 DEF Inv

---------------------------------------------------------------------------
(* The theorems *)

LEMMA InitInv ==
  ASSUME Init
  PROVE  Inv
<1>1. Types
  BY DEF Init, Types, States
<1>2. \A p \in Processes : Life(p) /\ Owner(p) /\ Ready(p)
  BY DEF Init, Life, Owner, Ready
<1>3. Filled
  <2>1. rows = 0 * TagRows
    BY DEF Init
  <2> QED
    BY <2>1, InsertingFinite DEF Filled
<1> QED
  BY <1>1, <1>2, <1>3 DEF Inv

LEMMA NextInv ==
  ASSUME Inv, [Next]_suvars
  PROVE  Inv'
<1>1. ASSUME NEW p \in Processes, Step(p) PROVE Inv'
  BY <1>1, StartInv, ConnectInv, AcquireLockInv, MigrateInv, ReleaseLockInv, CountRowsInv,
     InsertRowsInv, StartMemberInv, StopMemberInv, ClosePoolInv, ExitInv DEF Step
<1>2. ASSUME NEW p \in Processes,
             Retry(p) \/ GiveUp(p) \/ Stop(p) \/ Kill(p) \/ Fail(p)
      PROVE  Inv'
  BY <1>2, RetryInv, GiveUpInv, StopInv, KillInv, FailInv
<1>3. ASSUME NEW p \in Processes, NEW m \in StoreUsers[p], BeginUse(p, m) \/ EndUse(p, m)
      PROVE  Inv'
  BY <1>3, BeginUseInv, EndUseInv
<1>4. CASE DatabaseDown \/ DatabaseUp \/ UNCHANGED suvars
  BY <1>4, DatabaseInv
<1> QED
  BY <1>1, <1>2, <1>3, <1>4 DEF Next

\* Whichever process migrates and populates, and wherever others fail, crash
\* or are killed, a member runs only on a complete schema with tags to hand
\* out, and the groups table never has more rows than one INSERT of
\* populateTables per process.
THEOREM UsableWhenUp == Spec => []UpMeansUsable
<1>1. Init => Inv
  BY InitInv
<1>2. Inv /\ [Next]_suvars => Inv'
  BY NextInv
<1>3. Inv => UpMeansUsable
  <2> SUFFICES ASSUME Inv PROVE UpMeansUsable
    OBVIOUS
  <2>1. Types /\ Filled /\ \A p \in Processes : Life(p) /\ Ready(p)
    BY DEF Inv
  <2>2. ASSUME NEW p \in Processes, running[p] > 0
        PROVE  applied = NumMigrations /\ rows >= TagRows
    <3>1. pc[p] \in {"start", "up", "stop"}
      BY <2>1, <2>2 DEF Life
    <3>2. applied = NumMigrations /\ rows > 0
      BY <2>1, <3>1 DEF Ready
    <3> QED
      BY <2>1, <3>2, RowsAreEnough
  <2> QED
    BY <2>1, <2>2, RowsAreBounded DEF UpMeansUsable
<1> QED
  BY <1>1, <1>2, <1>3, PTL DEF Spec

\* An operation on the store is under way only while its member runs and the
\* process has all its connection pools open: main closes them after the last
\* member has returned.  (With the types, and with the migration lock held
\* exactly by the process that migrates.)
THEOREM PoolClosedLast == Spec => []PoolOutlivesMembers
<1>1. Init => Inv
  BY InitInv
<1>2. Inv /\ [Next]_suvars => Inv'
  BY NextInv
<1>3. Inv => PoolOutlivesMembers
  <2> SUFFICES ASSUME Inv PROVE PoolOutlivesMembers
    OBVIOUS
  <2>1. Types /\ \A p \in Processes : Life(p) /\ Owner(p)
    BY DEF Inv
  <2>2. ASSUME NEW p \in Processes
        PROVE  /\ pools[p] \in 0..Pools[p] /\ tries[p] \in 0..MaxRetries
               /\ running[p] \in 0..Members[p] /\ busy[p] \subseteq StoreUsers[p]
               /\ busy[p] # {} => pools[p] = Pools[p] /\ running[p] > 0
    <3>1. Life(p) /\ pools[p] \in Nat /\ tries[p] \in Nat /\ running[p] \in Nat
      BY <2>1 DEF Types
    <3>2. Pools[p] \in Nat /\ Members[p] \in Nat
      OBVIOUS
    <3>3. busy[p] # {} => running[p] > 0
      <4>1. \A m \in busy[p] : m \in 1..Members[p] /\ m <= running[p]
        BY <3>1 DEF Life
      <4> QED
        BY <3>1, <3>2, <4>1
    <3>4. running[p] > 0 => pools[p] = Pools[p]
      BY <3>1 DEF Life
    <3> QED
      BY <3>1, <3>2, <3>3, <3>4 DEF Life
  <2>3. TypeOK
    BY <2>1, <2>2 DEF TypeOK, Types, Owner
  <2> QED
    BY <2>2, <2>3 DEF PoolOutlivesMembers
<1> QED
  BY <1>1, <1>2, <1>3, PTL DEF Spec
=============================================================================
