------------------------------ MODULE StoreTx ------------------------------
(***************************************************************************)
(* Overlapping transactions of the policy store, one SQL statement per     *)
(* step.  Several API requests, the policy cleaner, and other policy       *)
(* server instances call store.Create and store.Delete on one database;    *)
(* nothing in the Go code serialises them.                                 *)
(*                                                                         *)
(* The database is external and modelled from its use: transactions begun  *)
(* with Beginx() at the driver's default level.                            *)
(*                                                                         *)
(* Postgres, READ COMMITTED: each statement sees what is committed when it *)
(* runs plus its own transaction's writes.  UPDATE of groups.guid (a       *)
(* uniquely indexed column) and SELECT ... FOR UPDATE lock the row; an     *)
(* INSERT locks the rows its foreign keys name against such updates (FOR   *)
(* KEY SHARE) and waits for an uncommitted row with the same unique key.   *)
(*                                                                         *)
(* MySQL (InnoDB), REPEATABLE READ: a plain SELECT sees the snapshot of    *)
(* the transaction's first one; statements that write or lock see what is  *)
(* committed.  The SELECT of an INSERT ... SELECT and LOCK IN SHARE MODE   *)
(* take shared locks.  The REFERENCES of the migrations stand behind a     *)
(* column, where MySQL ignores them: there are no foreign keys.  Gap locks *)
(* and the locks on policies rows that are only read are left out: they    *)
(* can but make a transaction wait.                                        *)
(*                                                                         *)
(* All locks are held to the end of the transaction.  Any statement may    *)
(* fail, and one member of a cycle of waiting transactions does.           *)
(***************************************************************************)
EXTENDS StoreTables, Sequences

CONSTANTS
  Drivers,    \* the databases to look at: tx.DriverName() of each
  Sessions,   \* database connections that run a transaction
  Lists,      \* the lists of policies that calls may be given
  MaxCalls    \* bound: number of calls made in a behaviour

ASSUME DriverAssumption == Drivers \subseteq {"postgres", "mysql"}

ASSUME StoreTxAssumption ==
  /\ Lists \subseteq Seq(Policy)
  /\ MaxCalls \in Nat

VARIABLES
  committed,  \* the tables as any new statement sees them
  call,       \* per session: the call it runs and where it is
  writes,     \* per session: its uncommitted writes
  locks,      \* per session: the row locks it holds
  calls,      \* number of calls begun so far
  driver      \* the database, which does not change

txvars == <<committed, call, writes, locks, calls, driver>>

MySQL == driver = "mysql"

\* pc names the next statement; side says for which of the two groups.  The
\* snapshot is MySQL's.
Idle == [op |-> "idle", todo |-> <<>>, pc |-> "begin", side |-> "src",
         src |-> 0, dst |-> 0, snapshot |-> EmptyTables]

NoWrites == [groups |-> << >>, insD |-> {}, delD |-> {}, insP |-> {}, delP |-> {}]

\* Exclusive and key-share locks on groups rows; the locks of GetID on
\* destinations rows, exclusive on Postgres and shared on MySQL.
NoLocks == [group |-> {}, share |-> {}, dest |-> {}]

Init ==
  /\ committed = EmptyTables
  /\ call = [s \in Sessions |-> Idle]
  /\ writes = [s \in Sessions |-> NoWrites]
  /\ locks = [s \in Sessions |-> NoLocks]
  /\ calls = 0 /\ driver \in Drivers

---------------------------------------------------------------------------
\* Tables t under the uncommitted writes w.
Overlay(t, w) ==
  [groups       |-> [i \in Tags |-> IF i \in DOMAIN w.groups THEN w.groups[i]
                                  ELSE t.groups[i]],
   destinations |-> (t.destinations \cup w.insD) \ w.delD,
   policies     |-> (t.policies \cup w.insP) \ w.delP]

\* The tables as a statement of session s that writes or locks sees them ...
View(s) == Overlay(committed, writes[s])

\* ... and as a plain SELECT does.
Reads(s) == IF MySQL THEN Overlay(call[s].snapshot, writes[s]) ELSE View(s)

P(s) == Head(call[s].todo)
Guid(s) == IF call[s].side = "src" THEN P(s).src ELSE P(s).dst
Row(s) == IF call[s].side = "src" THEN call[s].src ELSE call[s].dst
Dest(s) == [group |-> call[s].dst, svc |-> P(s).svc]
PolRow(s) == [group |-> call[s].src, destination |-> Dest(s)]

At(s, op, pc) == call[s].op = op /\ call[s].pc = pc

\* An uncommitted write of o stands in the way of giving guid g to a row.
TouchesGuid(o, g) ==
  \E i \in DOMAIN writes[o].groups :
    g \in {writes[o].groups[i], committed.groups[i]}

\* The row that firstBlankRow asks to lock.
Wanted(s) == IF call[s].pc = "blank" THEN FirstBlankRow(View(s)) ELSE {Row(s)}

\* Rows that o has inserted or deleted.
ChangedDests(o) == writes[o].insD \cup writes[o].delD
ChangedPols(o) == writes[o].insP \cup writes[o].delP

\* What o holds stands in the way of the next statement of s.
Blocks(o, s) ==
  CASE call[s].pc \in {"blank", "free"} ->
         Wanted(s) \cap (locks[o].group \cup locks[o].share) # {}
    [] call[s].pc = "update" -> TouchesGuid(o, Guid(s))
    [] call[s].pc = "insertDest" ->
         IF MySQL
         THEN Dest(s) \in ChangedDests(o)
         ELSE /\ Dest(s) \notin View(s).destinations
              /\ Dest(s) \in writes[o].insD \/ call[s].dst \in locks[o].group
    [] call[s].pc = "getDest" ->
         Dest(s) \in (IF MySQL THEN ChangedDests(o) ELSE locks[o].dest)
    [] call[s].pc = "insertPol" ->
         IF MySQL
         THEN PolRow(s) \in ChangedPols(o)
         ELSE PolRow(s) \notin View(s).policies /\ call[s].src \in locks[o].group
    [] call[s].pc = "deletePol" -> MySQL /\ PolRow(s) \in ChangedPols(o)
    [] call[s].pc = "deleteDest" -> MySQL /\ Dest(s) \in locks[o].dest
    [] OTHER -> FALSE

\* The sessions whose locks the next statement of s has to wait for.
Blockers(s) == {o \in Sessions \ {s} : Blocks(o, s)}

Runs(s, op, pc) == At(s, op, pc) /\ Blockers(s) = {}

Goto(s, pc) == call' = [call EXCEPT ![s].pc = pc]

\* A row id found or chosen for the current side.
Keep(s, i, pc) ==
  call' = [call EXCEPT ![s].pc = pc,
                       ![s].src = IF call[s].side = "src" THEN i ELSE @,
                       ![s].dst = IF call[s].side = "dst" THEN i ELSE @]

\* The same for the source, then on to the destination group.
ThenDst(s, i, pc, last) ==
  IF call[s].side = "src"
  THEN call' = [call EXCEPT ![s].pc = pc, ![s].side = "dst", ![s].src = i]
  ELSE call' = [call EXCEPT ![s].pc = last, ![s].side = "src", ![s].dst = i]

\* The next policy of the list, or the commit.
NextPolicy(s) ==
  call' = [call EXCEPT ![s].todo = Tail(@), ![s].side = "src",
                       ![s].src = 0, ![s].dst = 0,
                       ![s].pc = IF Len(call[s].todo) > 1 THEN "find" ELSE "commit"]

\* The foreign key of an inserted row locks groups row i.
KeyShare(s, i) ==
  locks' = IF MySQL THEN locks ELSE [locks EXCEPT ![s].share = @ \cup {i}]

LockGroup(s, i) == locks' = [locks EXCEPT ![s].group = @ \cup {i}]

WriteGroup(s, i, g) ==
  LET old == writes[s].groups
  IN  writes' = [writes EXCEPT ![s].groups =
        [k \in DOMAIN old \cup {i} |-> IF k = i THEN g ELSE old[k]]]

---------------------------------------------------------------------------
\* An empty list, which the cleaner may pass to Delete, is committed at once.
\* The first statement of a call is a SELECT, so the snapshot may as well be
\* taken here.
Begin(s, op, list) ==
  /\ call[s].op = "idle" /\ calls < MaxCalls
  /\ calls' = calls + 1
  /\ call' = [call EXCEPT ![s] = [Idle EXCEPT !.op = op, !.todo = list,
                                     !.snapshot = IF MySQL THEN committed ELSE @,
                                     !.pc = IF list = <<>> THEN "commit" ELSE "find"]]
  /\ UNCHANGED <<committed, writes, locks>>

BeginCreate(s) == \E list \in Lists : Begin(s, "create", list)
BeginDelete(s) == \E list \in Lists : Begin(s, "delete", list)

---------------------------------------------------------------------------
(* The statements of GroupTable.Create, for the source group and then for  *)
(* the destination group.                                                  *)

FindRowByGUID(s) ==
  /\ At(s, "create", "find")
  /\ LET rows == RowsOf(Reads(s), Guid(s))
     IN  \/ rows = {} /\ Goto(s, "blank")
         \/ \E i \in rows : ThenDst(s, i, "find", "insertDest")
  /\ UNCHANGED <<committed, writes, locks, calls>>

\* SELECT ... WHERE guid is NULL ... LIMIT 1 FOR UPDATE.
FirstBlank(s) ==
  /\ Runs(s, "create", "blank")
  /\ \E i \in FirstBlankRow(View(s)) : Keep(s, i, "update") /\ LockGroup(s, i)
  /\ UNCHANGED <<committed, writes, calls>>

\* Mutant: groups.guid has no UNIQUE key.
Update_NotUnique(s) ==
  /\ Runs(s, "create", "update")
  /\ WriteGroup(s, Row(s), Guid(s))
  /\ ThenDst(s, Row(s), "find", "insertDest")
  /\ UNCHANGED <<committed, locks, calls>>

\* UPDATE groups SET guid = ?; a unique-key violation is a failed statement.
Update(s) ==
  /\ Runs(s, "create", "update")
  /\ RowsOf(View(s), Guid(s)) = {}
  /\ WriteGroup(s, Row(s), Guid(s))
  /\ ThenDst(s, Row(s), "find", "insertDest")
  /\ UNCHANGED <<committed, locks, calls>>

---------------------------------------------------------------------------
(* DestinationTable.Create and PolicyTable.Create *)

InsertDest(s) ==
  /\ Runs(s, "create", "insertDest")
  /\ IF Dest(s) \in View(s).destinations
     THEN /\ locks' = IF MySQL THEN [locks EXCEPT ![s].dest = @ \cup {Dest(s)}] ELSE locks
          /\ UNCHANGED writes
     ELSE /\ writes' = [writes EXCEPT ![s].insD = @ \cup {Dest(s)},
                                      ![s].delD = @ \ {Dest(s)}]
          /\ KeyShare(s, call[s].dst)
  /\ Goto(s, "getDest")
  /\ UNCHANGED <<committed, calls>>

\* Mutant: GetID reads the row without FOR UPDATE.
LockDest_NoLock(s, pc) ==
  /\ Dest(s) \in View(s).destinations
  /\ Goto(s, pc)
  /\ UNCHANGED locks

\* DestinationTable.GetID: SELECT ... FOR UPDATE, on MySQL LOCK IN SHARE MODE,
\* which several transactions may hold at once.
LockDest(s, pc) ==
  /\ Dest(s) \in View(s).destinations
  /\ locks' = [locks EXCEPT ![s].dest = @ \cup {Dest(s)}]
  /\ Goto(s, pc)

CreateGetDest(s) ==
  /\ Runs(s, "create", "getDest")
  /\ LockDest(s, "insertPol")
  /\ UNCHANGED <<committed, writes, calls>>

InsertPol(s) ==
  /\ Runs(s, "create", "insertPol")
  /\ IF PolRow(s) \in View(s).policies
     THEN UNCHANGED <<writes, locks>>
     ELSE /\ writes' = [writes EXCEPT ![s].insP = @ \cup {PolRow(s)},
                                      ![s].delP = @ \ {PolRow(s)}]
          /\ KeyShare(s, call[s].src)
  /\ NextPolicy(s)
  /\ UNCHANGED <<committed, calls>>

---------------------------------------------------------------------------
(* store.Delete *)

\* GroupTable.GetID for both groups; sql.ErrNoRows skips the policy.
DeleteFind(s) ==
  /\ At(s, "delete", "find")
  /\ LET rows == RowsOf(Reads(s), Guid(s))
     IN  \/ rows = {} /\ NextPolicy(s)
         \/ \E i \in rows : ThenDst(s, i, "find", "getDest")
  /\ UNCHANGED <<committed, writes, locks, calls>>

DeleteGetDest(s) ==
  /\ Runs(s, "delete", "getDest")
  /\ \/ LockDest(s, "deletePol")
     \/ /\ Dest(s) \notin View(s).destinations
        /\ NextPolicy(s)
        /\ UNCHANGED locks
  /\ UNCHANGED <<committed, writes, calls>>

DeletePol(s) ==
  /\ Runs(s, "delete", "deletePol")
  /\ writes' = [writes EXCEPT ![s].delP = @ \cup {PolRow(s)},
                              ![s].insP = @ \ {PolRow(s)}]
  /\ Goto(s, "countDest")
  /\ UNCHANGED <<committed, locks, calls>>

CountDest(s) ==
  /\ At(s, "delete", "countDest")
  /\ Goto(s, IF DestinationInUse(Reads(s), Dest(s)) THEN "countPol" ELSE "deleteDest")
  /\ UNCHANGED <<committed, writes, locks, calls>>

DeleteDest(s) ==
  /\ Runs(s, "delete", "deleteDest")
  /\ writes' = [writes EXCEPT ![s].delD = @ \cup {Dest(s)},
                              ![s].insD = @ \ {Dest(s)}]
  /\ Goto(s, "countPol")
  /\ UNCHANGED <<committed, locks, calls>>

\* deleteGroupRowIfLast, for the source and then for the destination: two
\* counts, each on what the session sees when it runs, and the UPDATE.  The
\* source's own row id is kept for the destination's turn.
\* The second count is left out where the first has settled the matter.
AfterGroup(s) ==
  IF call[s].side = "src"
  THEN call' = [call EXCEPT ![s].pc = "countPol", ![s].side = "dst"]
  ELSE NextPolicy(s)

CountGroupPolicies(s) ==
  /\ At(s, "delete", "countPol")
  /\ IF GroupHasPolicies(Reads(s), Row(s)) THEN AfterGroup(s) ELSE Goto(s, "countDests")
  /\ UNCHANGED <<committed, writes, locks, calls>>

CountGroupDestinations(s) ==
  /\ At(s, "delete", "countDests")
  /\ IF GroupHasDestinations(Reads(s), Row(s)) THEN AfterGroup(s) ELSE Goto(s, "free")
  /\ UNCHANGED <<committed, writes, locks, calls>>

FreeGroup(s) ==
  /\ Runs(s, "delete", "free")
  /\ WriteGroup(s, Row(s), NULL)
  /\ LockGroup(s, Row(s))
  /\ AfterGroup(s)
  /\ UNCHANGED <<committed, calls>>

---------------------------------------------------------------------------
\* The end of a transaction: its locks and its writes are gone.
EndTx(s) ==
  /\ call' = [call EXCEPT ![s] = Idle]
  /\ writes' = [writes EXCEPT ![s] = NoWrites]
  /\ locks' = [locks EXCEPT ![s] = NoLocks]
  /\ UNCHANGED calls

Commit(s) ==
  /\ call[s].pc = "commit"
  /\ committed' = View(s)
  /\ EndTx(s)

\* Mutant: an error path returns without tx.Rollback().
Rollback_Forgotten(s) ==
  /\ call[s].op # "idle"
  /\ call' = [call EXCEPT ![s] = Idle]
  /\ UNCHANGED <<committed, writes, locks, calls>>

\* tx.Rollback(), then the error is returned.
Rollback(s) == call[s].op # "idle" /\ EndTx(s) /\ UNCHANGED committed

\* The statements that return an error by themselves: no blank row, the guid
\* was taken meanwhile, the destination was deleted meanwhile.
Fails(s) ==
  /\ call[s].op = "create" /\ Blockers(s) = {}
  /\ \/ call[s].pc = "blank" /\ FirstBlankRow(View(s)) = {}
     \/ call[s].pc = "update" /\ RowsOf(View(s), Guid(s)) # {}
     \/ call[s].pc = "getDest" /\ Dest(s) \notin View(s).destinations

\* s waits in a cycle, which the database breaks.
Deadlocked(s) ==
  \E D \in SUBSET Sessions : s \in D /\ \A x \in D : Blockers(x) \cap D # {}

\* rollback(tx, err) on an error the statements lead to ...
RollbackFailed(s) == (Fails(s) \/ Deadlocked(s)) /\ Rollback(s)

\* ... and on any other database error, at any statement.
RollbackDbError(s) == Rollback(s)

---------------------------------------------------------------------------
\* The steps a call takes once it has begun.
Step(s) ==
  \/ FindRowByGUID(s) \/ FirstBlank(s) \/ Update(s)
  \/ InsertDest(s) \/ CreateGetDest(s) \/ InsertPol(s)
  \/ DeleteFind(s) \/ DeleteGetDest(s) \/ DeletePol(s) \/ CountDest(s)
  \/ DeleteDest(s) \/ CountGroupPolicies(s) \/ CountGroupDestinations(s)
  \/ FreeGroup(s) \/ Commit(s) \/ RollbackFailed(s)

\* All calls that the bound allows have ended.
Done ==
  /\ calls = MaxCalls /\ \A s \in Sessions : call[s].op = "idle"
  /\ UNCHANGED txvars

Next ==
  \/ /\ \E s \in Sessions : \/ BeginCreate(s) \/ BeginDelete(s)
                            \/ Step(s) \/ RollbackDbError(s)
     /\ UNCHANGED driver
  \/ Done

Spec == Init /\ [][Next]_txvars

\* A call that has begun goes on: its goroutine is scheduled and the database
\* answers each statement or fails it.
FairSpec == Spec /\ \A s \in Sessions : WF_txvars(Step(s) /\ UNCHANGED driver)

---------------------------------------------------------------------------
(* Properties *)

\* Type correctness of the database and of the sessions.
TypeOK ==
  /\ committed \in Tables
  /\ \A s \in Sessions :
       /\ View(s) \in Tables /\ Reads(s) \in Tables
       /\ call[s].src \in Tags \cup {0} /\ call[s].dst \in Tags \cup {0}
       /\ locks[s].group \cup locks[s].share \subseteq Tags
       /\ locks[s].dest \subseteq DestinationRow
  /\ calls \in 0..MaxCalls /\ driver \in Drivers

\* However calls overlap, a guid has one tag: the lookup of GroupTable.Create
\* may be stale, but the unique key then fails the UPDATE.
GuidHasOneTag ==
  \A i, j \in Tags :
    committed.groups[i] = committed.groups[j] /\ committed.groups[i] # NULL
      => i = j

\* However calls overlap on Postgres, a policy's destination exists and a
\* destination has a policy: GetID locks the destinations row before policies
\* rows under it are added, deleted or counted.  On MySQL it is not so: two
\* sessions hold that lock at once, and the count is of an old snapshot.  (With
\* the types, on either.)
DestinationsConsistent ==
  /\ TypeOK
  /\ ~MySQL =>
       /\ \A r \in committed.policies : r.destination \in committed.destinations
       /\ \A d \in committed.destinations : DestinationInUse(committed, d)

\* Every call returns: whatever waits for whatever, each error path ends the
\* transaction and lets go of its locks.
EveryCallReturns ==
  \A s \in Sessions : call[s].op # "idle" ~> call[s].op = "idle"

\* All succeeds at any time: no policy refers to a group without a guid.
AllSucceeds == ~QueryFails(committed)
=============================================================================
