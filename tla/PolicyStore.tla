---------------------------- MODULE PolicyStore ----------------------------
(***************************************************************************)
(* The store of policy-server (store.go) when write transactions do not    *)
(* overlap.  Create and Delete run a transaction on a working copy of the  *)
(* tables, one policy of their list per step, and commit or roll back;     *)
(* every query reads the committed tables, also while a call is running.   *)
(* Overlapping transactions are the subject of module StoreTx.             *)
(***************************************************************************)
EXTENDS StoreTables, Sequences

CONSTANT MaxBatch    \* bound: longest list of policies one call takes

ASSUME PolicyStoreAssumption == MaxBatch \in Nat

VARIABLES
  tables,     \* the committed tables
  op,         \* the call that holds a transaction: "none", "create", "delete"
  args,       \* the list of policies the call was given
  next,       \* index in args of the policy the loop is at
  work,       \* the tables as the transaction sees them
  reserved    \* history: guids that were ever given a tag by CreateTag

vars == <<tables, op, args, next, work, reserved>>

Batches == UNION {[1..n -> Policy] : n \in 1..MaxBatch}

Init ==
  /\ tables = EmptyTables
  /\ op = "none" /\ args = <<>> /\ next = 1
  /\ work = EmptyTables
  /\ reserved = {}

---------------------------------------------------------------------------
\* s.conn.Beginx().
Begin(kind, ps) ==
  /\ op = "none"
  /\ op' = kind /\ args' = ps /\ next' = 1
  /\ work' = tables
  /\ UNCHANGED <<tables, reserved>>

BeginCreate == \E ps \in Batches : Begin("create", ps)
BeginDelete == \E ps \in Batches : Begin("delete", ps)

\* One turn of the loop of store.Create.
CreateNext ==
  /\ op = "create" /\ next <= Len(args)
  /\ LET p == args[next]
     IN  \E i \in GroupCreateRow(work, p.src) :
           LET w == UpdateRow(work, i, p.src)
           IN  \E j \in GroupCreateRow(w, p.dst) :
                 work' = CreateRows(UpdateRow(w, j, p.dst), i, j, p.svc)
  /\ next' = next + 1
  /\ UNCHANGED <<tables, op, args, reserved>>

\* One turn of the loop of store.Delete: sql.ErrNoRows for either group or
\* for the destination skips the policy.
DeleteNext ==
  /\ op = "delete" /\ next <= Len(args)
  /\ LET p == args[next]
         found == {ij \in RowsOf(work, p.src) \X RowsOf(work, p.dst) :
                     [group |-> ij[2], svc |-> p.svc] \in work.destinations}
     IN  \/ found = {} /\ work' = work
         \/ \E ij \in found :
              work' = DeleteRows(work, ij[1], ij[2],
                                 [group |-> ij[2], svc |-> p.svc])
  /\ next' = next + 1
  /\ UNCHANGED <<tables, op, args, reserved>>

EndTx == op' = "none" /\ args' = <<>> /\ next' = 1 /\ work' = EmptyTables

\* commit(tx) after the loop.  A commit whose answer is lost returns an error
\* to the caller but has had its effect: it is this step too.
Commit ==
  /\ op # "none" /\ next > Len(args)
  /\ tables' = work
  /\ EndTx
  /\ UNCHANGED reserved

\* Mutant: the error path ends the transaction without undoing it.
Rollback_KeepsWork ==
  /\ op # "none"
  /\ tables' = work
  /\ EndTx
  /\ UNCHANGED reserved

\* rollback(tx, err): no tag is left, or the database fails a statement or
\* the commit, which it may do at any point.
Rollback ==
  /\ op # "none"
  /\ EndTx
  /\ UNCHANGED <<tables, reserved>>

\* store.CreateTag: a transaction around a single GroupTable.Create.  When it
\* fails nothing changes.
CreateTag(g) ==
  /\ op = "none"
  /\ \E i \in GroupCreateRow(tables, g) : tables' = UpdateRow(tables, i, g)
  /\ reserved' = reserved \cup {g}
  /\ UNCHANGED <<op, args, next, work>>

Next ==
  \/ BeginCreate \/ BeginDelete
  \/ CreateNext \/ DeleteNext
  \/ Commit \/ Rollback
  \/ \E g \in Guids : CreateTag(g)

Spec == Init /\ [][Next]_vars

---------------------------------------------------------------------------
(* What must hold of the tables, before and after every policy of a list.  *)

\* No guid owns two tags.
GuidsUnique(t) ==
  \A i, j \in Tags : t.groups[i] = t.groups[j] /\ t.groups[i] # NULL => i = j

\* Every foreign key leads to a row, and to one that still has a guid, so the
\* left outer joins of All and ByGuids never produce a NULL to scan.
ReferencesResolve(t) ==
  /\ \A r \in t.policies : /\ r.destination \in t.destinations
                           /\ t.groups[r.group] # NULL
  /\ \A d \in t.destinations : t.groups[d.group] # NULL

\* A destination goes with the last policy that uses it.
DestinationsUsed(t) == \A d \in t.destinations : DestinationInUse(t, d)

\* A tag is held only for a group that a policy refers to, or for one that
\* CreateTag named.
TagsUsed(t) ==
  \A i \in Tags : \/ t.groups[i] \in reserved \cup {NULL}
                  \/ GroupHasPolicies(t, i) \/ GroupHasDestinations(t, i)

---------------------------------------------------------------------------
(* Properties *)

\* Type correctness of the store's state.
TypeOK ==
  /\ tables \in Tables /\ work \in Tables
  /\ op \in {"none", "create", "delete"}
  /\ args \in Seq(Policy) /\ next \in 1..(Len(args) + 1)
  /\ reserved \in SUBSET Guids

\* A guid has at most one tag, whatever mix of Create, Delete and CreateTag
\* calls came before and whichever of them rolled back (GroupTable.Create
\* looks the guid up before it takes a blank row).
GuidHasOneTag == GuidsUnique(tables)

\* The policies that All and ByGuids read can always be scanned: Delete never
\* gives back a tag, nor removes a destination, that a remaining policy needs
\* (the counts of deleteGroupRowIfLast and CountWhereDestinationID).
PoliciesResolve == ReferencesResolve(tables)

\* Nothing leaks: once the last policy that needs it is gone a destination
\* row is gone and a tag is free again, in whatever batches policies were
\* created and deleted (store.Delete).
NothingLeaks == DestinationsUsed(tables) /\ TagsUsed(tables)

\* The tag of each guid that has one, as store.Tags lists them.
TagMap(t) ==
  [g \in {r.id : r \in TagsOf(t)} |-> (CHOOSE r \in TagsOf(t) : r.id = g).tag]

Promise == INSTANCE PolicySpec WITH
             policies <- All(tables),
             tag      <- TagMap(tables),
             call     <- [op |-> op, ps |-> {args[i] : i \in DOMAIN args}]

\* Create, Delete and CreateTag are atomic and do what PolicySpec says: a list
\* is created or deleted as a whole or not at all, and a reader never sees a
\* part of it.
AtomicStore == Promise!Spec
=============================================================================
