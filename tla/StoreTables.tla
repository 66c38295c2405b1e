---------------------------- MODULE StoreTables ----------------------------
(***************************************************************************)
(* The three SQL tables of the policy store (policy-server/store) and the  *)
(* statements that the repositories GroupTable, DestinationTable and       *)
(* PolicyTable send to them, as operators on a record of table contents.   *)
(*                                                                         *)
(* groups        one row per tag, created once by populateTables; a row    *)
(*               holds the guid of the app (or other group) that owns the  *)
(*               tag, or NULL.                                             *)
(* destinations  a row is named by its unique key: the group it belongs to *)
(*               and its service, a (port, start_port, end_port, protocol) *)
(*               tuple.  The surrogate id is in bijection with that key.   *)
(* policies      a row is a (group_id, destination_id) pair.               *)
(***************************************************************************)
EXTENDS Naturals

CONSTANTS
  Guids,      \* app guids that policies may name
  Services,   \* (port, start_port, end_port, protocol) tuples
  NumTags,    \* rows of groups: 2^(8*tagLength) - 1 in the code
  NULL        \* SQL NULL in groups.guid

ASSUME StoreTablesAssumption ==
  /\ NumTags \in Nat \ {0}
  /\ NULL \notin Guids

Tags == 1..NumTags

\* store.Policy: Source.ID, Destination.ID and the destination's service.
Policy == [src : Guids, dst : Guids, svc : Services]

DestinationRow == [group : Tags, svc : Services]
PolicyRow == [group : Tags, destination : DestinationRow]

Tables == [groups       : [Tags -> Guids \cup {NULL}],
           destinations : SUBSET DestinationRow,
           policies     : SUBSET PolicyRow]

\* What populateTables leaves in a new database.
EmptyTables == [groups       |-> [i \in Tags |-> NULL],
                destinations |-> {},
                policies     |-> {}]

---------------------------------------------------------------------------
(* GroupTable *)

\* SELECT id FROM groups WHERE guid = ?   (findRowByGUID and GetID);
\* the empty set is sql.ErrNoRows.
RowsOf(t, guid) == {i \in Tags : t.groups[i] = guid}

\* SELECT id FROM groups WHERE guid IS NULL ORDER BY id LIMIT 1.
FirstBlankRow(t) ==
  {i \in RowsOf(t, NULL) : \A j \in RowsOf(t, NULL) : i <= j}

\* UPDATE groups SET guid = ? WHERE id = ?
UpdateRow(t, i, guid) == [t EXCEPT !.groups[i] = guid]

\* Mutant: Create takes a blank row without looking the guid up.
GroupCreateRow_NoLookup(t, guid) == FirstBlankRow(t)

\* The row GroupTable.Create settles on: the guid's own row, else the first
\* blank one.  The empty set is the error "failed to find available tag".
GroupCreateRow(t, guid) ==
  IF RowsOf(t, guid) # {} THEN RowsOf(t, guid) ELSE FirstBlankRow(t)

---------------------------------------------------------------------------
(* DestinationTable and PolicyTable *)

\* INSERT INTO destinations ... WHERE NOT EXISTS (...), then GetID.
DestinationCreate(t, d) == [t EXCEPT !.destinations = @ \cup {d}]

DestinationDelete(t, d) == [t EXCEPT !.destinations = @ \ {d}]

\* INSERT INTO policies ... WHERE NOT EXISTS (...).
PolicyCreate(t, r) == [t EXCEPT !.policies = @ \cup {r}]

PolicyDelete(t, r) == [t EXCEPT !.policies = @ \ {r}]

\* CountWhereDestinationID, CountWhereGroupID (policies) and
\* CountWhereGroupID (destinations), each only ever compared with 0.
DestinationInUse(t, d) == \E r \in t.policies : r.destination = d
GroupHasPolicies(t, i) == \E r \in t.policies : r.group = i
GroupHasDestinations(t, i) == \E d \in t.destinations : d.group = i

---------------------------------------------------------------------------
(* store.Create and store.Delete for one policy of the list *)

\* Mutant: the destinations that name the group are not counted.
DeleteGroupRowIfLast_PoliciesOnly(t, i) ==
  IF GroupHasPolicies(t, i) THEN t ELSE UpdateRow(t, i, NULL)

\* deleteGroupRowIfLast: the tag is given back (guid := NULL) when neither a
\* policy nor a destination refers to the row.
DeleteGroupRowIfLast(t, i) ==
  IF GroupHasPolicies(t, i) \/ GroupHasDestinations(t, i)
  THEN t
  ELSE UpdateRow(t, i, NULL)

\* Mutant: group and service swapped in the INSERT's argument list.
CreateRows_Swapped(t, i, j, svc) ==
  LET d == [group |-> svc, svc |-> j]
  IN  PolicyCreate(DestinationCreate(t, d), [group |-> i, destination |-> d])

\* The body of the loop of store.Create once both groups have a row: source
\* group i, destination group j.
CreateRows(t, i, j, svc) ==
  LET d == [group |-> j, svc |-> svc]
  IN  PolicyCreate(DestinationCreate(t, d), [group |-> i, destination |-> d])

\* Mutant: the destination row is never deleted.
DeleteDestinationIfUnused_Never(t, d) == t

\* The destination row is deleted with the last policy that uses it.
DeleteDestinationIfUnused(t, d) ==
  IF DestinationInUse(t, d) THEN t ELSE DestinationDelete(t, d)

\* The body of the loop of store.Delete once both groups and the destination
\* have been found.
DeleteRows(t, i, j, d) ==
  DeleteGroupRowIfLast(
    DeleteGroupRowIfLast(
      DeleteDestinationIfUnused(
        PolicyDelete(t, [group |-> i, destination |-> d]), d), i), j)

---------------------------------------------------------------------------
(* Queries *)

\* A row of the three-way join of policiesQuery.  Every policies row gives
\* one; a NULL guid in it makes rows.Scan, and with it the query, fail.
JoinRow(t, r) == [src |-> t.groups[r.group],
                  dst |-> t.groups[r.destination.group],
                  svc |-> r.destination.svc]

QueryFails(t) ==
  \E r \in t.policies : NULL \in {JoinRow(t, r).src, JoinRow(t, r).dst}

\* store.All, when it does not fail.
All(t) == {JoinRow(t, r) : r \in t.policies}

\* store.ByGuids: one WHERE clause per non-empty list, joined with AND or OR;
\* two empty lists return no policy at all.
ByGuids(t, srcGuids, destGuids, inSourceAndDest) ==
  LET src    == {p \in All(t) : p.src \in srcGuids}
      dst    == {p \in All(t) : p.dst \in destGuids}
      wheres == (IF srcGuids # {} THEN {src} ELSE {}) \cup
                (IF destGuids # {} THEN {dst} ELSE {})
  IN  IF inSourceAndDest
      THEN {p \in UNION wheres : \A w \in wheres : p \in w}
      ELSE UNION wheres

\* store.Tags: the guids that own a tag, each with its tag.
TagsOf(t) == {[id |-> t.groups[i], tag |-> i] :
                i \in {k \in Tags : t.groups[k] # NULL}}
=============================================================================
