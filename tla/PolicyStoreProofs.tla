------------------------- MODULE PolicyStoreProofs -------------------------
(***************************************************************************)
(* Proofs about PolicyStore, for any guids, services, number of tags and   *)
(* batch size.                                                             *)
(***************************************************************************)
EXTENDS PolicyStore, TLAPS

USE StoreTablesAssumption, PolicyStoreAssumption

\* The strengthening: the tables are well formed between any two policies of
\* a list, in the transaction's working copy as well as in the committed
\* tables.  Each of the three safety invariants alone is not inductive: that
\* a tag is given back safely needs unique guids and used destinations.
TablesOK(t) ==
  /\ t \in Tables
  /\ GuidsUnique(t)
  /\ ReferencesResolve(t)
  /\ DestinationsUsed(t)
  /\ TagsUsed(t)

Inv == TypeOK /\ TablesOK(tables) /\ TablesOK(work)

---------------------------------------------------------------------------
\* What GroupTable.Create leaves behind: the guid owns row i, no other row has
\* changed and no row that had an owner has another one.
LEMMA GroupCreateLemma ==
  ASSUME NEW t \in Tables, GuidsUnique(t),
         NEW guid \in Guids, NEW i \in GroupCreateRow(t, guid)
  PROVE  LET w == UpdateRow(t, i, guid)
         IN  /\ i \in Tags
             /\ w \in Tables
             /\ GuidsUnique(w)
             /\ w.groups[i] = guid
             /\ \A k \in Tags : t.groups[k] # NULL => w.groups[k] = t.groups[k]
             /\ \A k \in Tags : k # i => w.groups[k] = t.groups[k]
             /\ w.destinations = t.destinations
             /\ w.policies = t.policies
<1> DEFINE w == UpdateRow(t, i, guid)
<1>1. i \in Tags
  BY DEF GroupCreateRow, RowsOf, FirstBlankRow
<1>2. t.groups[i] = guid \/ (t.groups[i] = NULL /\ \A k \in Tags : t.groups[k] # guid)
  BY DEF GroupCreateRow, RowsOf, FirstBlankRow
<1>3. /\ w \in Tables
      /\ w.groups[i] = guid
      /\ \A k \in Tags : k # i => w.groups[k] = t.groups[k]
      /\ w.destinations = t.destinations
      /\ w.policies = t.policies
  BY <1>1 DEF UpdateRow, Tables
<1>4. \A k \in Tags : t.groups[k] # NULL => w.groups[k] = t.groups[k]
  BY <1>1, <1>2, <1>3
<1>5. GuidsUnique(w)
  BY <1>1, <1>2, <1>3 DEF GuidsUnique
<1> QED
  BY <1>1, <1>3, <1>4, <1>5

\* The two INSERTs of store.Create add one row each and change nothing else.
LEMMA InsertLemma ==
  ASSUME NEW t \in Tables, NEW d \in DestinationRow, NEW r \in PolicyRow
  PROVE  LET u == PolicyCreate(DestinationCreate(t, d), r)
         IN  /\ u.groups = t.groups
             /\ u.destinations = t.destinations \cup {d}
             /\ u.policies = t.policies \cup {r}
             /\ u \in Tables
  BY DEF Tables, PolicyCreate, DestinationCreate

\* One turn of the loop of store.Create keeps the tables well formed.  The two
\* guids have their rows, and no guid loses or changes its own.
LEMMA CreateOneLemma ==
  ASSUME NEW t, TablesOK(t), NEW p \in Policy,
         NEW i \in GroupCreateRow(t, p.src),
         NEW j \in GroupCreateRow(UpdateRow(t, i, p.src), p.dst),
         NEW u, u = CreateRows(UpdateRow(UpdateRow(t, i, p.src), j, p.dst), i, j, p.svc)
  PROVE  /\ TablesOK(u)
         /\ i \in Tags /\ j \in Tags /\ u.groups[i] = p.src /\ u.groups[j] = p.dst
         /\ \A k \in Tags : t.groups[k] # NULL => u.groups[k] = t.groups[k]
         /\ \A k \in Tags : k # i /\ k # j => u.groups[k] = t.groups[k]
         /\ u.policies = t.policies \cup
              {[group |-> i, destination |-> [group |-> j, svc |-> p.svc]]}
<1> DEFINE w == UpdateRow(t, i, p.src)
           v == UpdateRow(w, j, p.dst)
           d == [group |-> j, svc |-> p.svc]
           r == [group |-> i, destination |-> d]
<1>0. p.src \in Guids /\ p.dst \in Guids /\ p.svc \in Services
  BY DEF Policy
<1>1. /\ i \in Tags /\ w \in Tables /\ GuidsUnique(w) /\ w.groups[i] = p.src
      /\ \A k \in Tags : t.groups[k] # NULL => w.groups[k] = t.groups[k]
      /\ \A k \in Tags : k # i => w.groups[k] = t.groups[k]
      /\ w.destinations = t.destinations /\ w.policies = t.policies
  BY <1>0, GroupCreateLemma DEF TablesOK
<1>2. /\ j \in Tags /\ v \in Tables /\ GuidsUnique(v) /\ v.groups[j] = p.dst
      /\ \A k \in Tags : w.groups[k] # NULL => v.groups[k] = w.groups[k]
      /\ \A k \in Tags : k # j => v.groups[k] = w.groups[k]
      /\ v.destinations = w.destinations /\ v.policies = w.policies
  <2>1. j \in GroupCreateRow(w, p.dst)
    OBVIOUS
  <2> HIDE DEF w
  <2> QED BY <2>1, <1>0, <1>1, GroupCreateLemma
<1>3. /\ d \in DestinationRow
      /\ r \in PolicyRow
      /\ u.groups = v.groups
      /\ u.destinations = t.destinations \cup {d}
      /\ u.policies = t.policies \cup {r}
      /\ u \in Tables
  <2>1. d \in DestinationRow /\ r \in PolicyRow
    BY <1>0, <1>1, <1>2 DEF DestinationRow, PolicyRow
  <2>2. u = PolicyCreate(DestinationCreate(v, d), r)
    BY DEF CreateRows
  <2> HIDE DEF v, w, d, r
  <2>3. /\ u.groups = v.groups
        /\ u.destinations = v.destinations \cup {d}
        /\ u.policies = v.policies \cup {r}
        /\ u \in Tables
    BY <1>2, <2>1, <2>2, InsertLemma
  <2> QED BY <1>1, <1>2, <2>1, <2>3
<1> HIDE DEF v, w
<1>4. GuidsUnique(u)
  BY <1>2, <1>3 DEF GuidsUnique
<1>5. \A k \in Tags : t.groups[k] # NULL => u.groups[k] # NULL
  BY <1>1, <1>2, <1>3
<1>6. u.groups[i] # NULL /\ u.groups[j] # NULL
  BY <1>0, <1>1, <1>2, <1>3
<1>7. ReferencesResolve(u)
  <2>1. ASSUME NEW x \in u.policies
        PROVE  x.destination \in u.destinations /\ u.groups[x.group] # NULL
    <3>1. CASE x = r
      BY <3>1, <1>3, <1>6
    <3>2. CASE x \in t.policies
      BY <3>2, <1>3, <1>5 DEF TablesOK, ReferencesResolve, Tables, PolicyRow
    <3> QED BY <2>1, <3>1, <3>2, <1>3
  <2>2. ASSUME NEW x \in u.destinations
        PROVE  u.groups[x.group] # NULL
    <3>1. CASE x = d
      BY <3>1, <1>6
    <3>2. CASE x \in t.destinations
      BY <3>2, <1>5 DEF TablesOK, ReferencesResolve, Tables, DestinationRow
    <3> QED BY <2>2, <3>1, <3>2, <1>3
  <2> QED BY <2>1, <2>2 DEF ReferencesResolve
<1>8. DestinationsUsed(u)
  BY <1>3 DEF TablesOK, DestinationsUsed, DestinationInUse
<1>9. TagsUsed(u)
  <2> SUFFICES ASSUME NEW k \in Tags
               PROVE  \/ u.groups[k] \in reserved \cup {NULL}
                      \/ GroupHasPolicies(u, k) \/ GroupHasDestinations(u, k)
    BY DEF TagsUsed
  <2>1. CASE k = i
    BY <2>1, <1>3 DEF GroupHasPolicies
  <2>2. CASE k = j
    BY <2>2, <1>3 DEF GroupHasDestinations
  <2>3. CASE k # i /\ k # j
    <3>1. u.groups[k] = t.groups[k]
      BY <2>3, <1>1, <1>2, <1>3
    <3>2. /\ GroupHasPolicies(t, k) => GroupHasPolicies(u, k)
          /\ GroupHasDestinations(t, k) => GroupHasDestinations(u, k)
      BY <1>3 DEF GroupHasPolicies, GroupHasDestinations
    <3> QED BY <3>1, <3>2 DEF TablesOK, TagsUsed
  <2> QED BY <2>1, <2>2, <2>3
<1>10. TablesOK(u)
  BY <1>3, <1>4, <1>7, <1>8, <1>9 DEF TablesOK
<1>11. u.groups[i] = p.src /\ u.groups[j] = p.dst
  BY <1>0, <1>1, <1>2, <1>3
<1>12. /\ \A k \in Tags : t.groups[k] # NULL => u.groups[k] = t.groups[k]
       /\ \A k \in Tags : k # i /\ k # j => u.groups[k] = t.groups[k]
  BY <1>1, <1>2, <1>3
<1> QED
  BY <1>1, <1>2, <1>3, <1>10, <1>11, <1>12

---------------------------------------------------------------------------
\* Whether the tag of row k is accounted for, but for the guids of X.
TagUsed(X, t, k) ==
  \/ t.groups[k] \in X \cup {NULL}
  \/ GroupHasPolicies(t, k) \/ GroupHasDestinations(t, k)

\* deleteGroupRowIfLast leaves row k free or in use, and every reference to a
\* group intact.
LEMMA GroupDeleteLemma ==
  ASSUME NEW t \in Tables, GuidsUnique(t), ReferencesResolve(t),
         DestinationsUsed(t), NEW k \in Tags, NEW X
  PROVE  LET u == DeleteGroupRowIfLast(t, k)
         IN  /\ u \in Tables /\ GuidsUnique(u) /\ ReferencesResolve(u)
             /\ DestinationsUsed(u)
             /\ TagUsed(X, u, k)
             /\ \A m \in Tags : TagUsed(X, t, m) => TagUsed(X, u, m)
<1> DEFINE u == DeleteGroupRowIfLast(t, k)
<1>1. CASE GroupHasPolicies(t, k) \/ GroupHasDestinations(t, k)
  BY <1>1 DEF DeleteGroupRowIfLast, TagUsed
<1>2. CASE ~GroupHasPolicies(t, k) /\ ~GroupHasDestinations(t, k)
  <2>1. u = UpdateRow(t, k, NULL)
    BY <1>2 DEF DeleteGroupRowIfLast
  <2> HIDE DEF u
  <2>2. /\ u \in Tables
        /\ u.groups[k] = NULL
        /\ \A m \in Tags : m # k => u.groups[m] = t.groups[m]
        /\ u.policies = t.policies /\ u.destinations = t.destinations
    BY <2>1 DEF Tables, UpdateRow
  <2>3. GuidsUnique(u)
    BY <2>2 DEF GuidsUnique
  <2>4. ReferencesResolve(u)
    BY <1>2, <2>2 DEF ReferencesResolve, GroupHasPolicies,
                      GroupHasDestinations, Tables, PolicyRow, DestinationRow
  <2>5. DestinationsUsed(u)
    BY <2>2 DEF DestinationsUsed, DestinationInUse
  <2>6. TagUsed(X, u, k) /\ \A m \in Tags : TagUsed(X, t, m) => TagUsed(X, u, m)
    BY <2>2 DEF TagUsed, GroupHasPolicies, GroupHasDestinations
  <2> QED BY <2>2, <2>3, <2>4, <2>5, <2>6 DEF u
<1> QED BY <1>1, <1>2

\* Deleting a policies row, and its destination if that was the last one,
\* leaves only the tags of the two groups to be looked at.
LEMMA PolicyDeleteLemma ==
  ASSUME NEW t, TablesOK(t), NEW i \in Tags, NEW d \in t.destinations, NEW X
  PROVE  LET r == [group |-> i, destination |-> d]
             u == DeleteDestinationIfUnused(PolicyDelete(t, r), d)
         IN  /\ u \in Tables /\ GuidsUnique(u) /\ ReferencesResolve(u)
             /\ DestinationsUsed(u)
             /\ \A k \in Tags : k # i /\ k # d.group /\ TagUsed(X, t, k) => TagUsed(X, u, k)
             /\ u.groups = t.groups /\ u.policies = t.policies \ {r}
<1> DEFINE r == [group |-> i, destination |-> d]
           v == PolicyDelete(t, r)
           u == DeleteDestinationIfUnused(v, d)
<1>0. t \in Tables /\ d \in DestinationRow
  BY DEF TablesOK, Tables
<1>1. /\ v \in Tables /\ v.groups = t.groups
      /\ v.destinations = t.destinations /\ v.policies = t.policies \ {r}
  BY <1>0 DEF Tables, PolicyDelete
<1> HIDE DEF v
<1>2. /\ u \in Tables /\ u.groups = t.groups /\ u.policies = v.policies
      /\ \/ u.destinations = t.destinations /\ DestinationInUse(v, d)
         \/ u.destinations = t.destinations \ {d} /\ ~DestinationInUse(v, d)
  <2>1. CASE DestinationInUse(v, d)
    BY <1>1, <2>1 DEF DeleteDestinationIfUnused
  <2>2. CASE ~DestinationInUse(v, d)
    <3>1. u = DestinationDelete(v, d)
      BY <2>2 DEF DeleteDestinationIfUnused
    <3> HIDE DEF u
    <3> QED BY <1>1, <2>2, <3>1 DEF DestinationDelete, Tables
  <2> QED BY <2>1, <2>2
<1> HIDE DEF u
<1>3. GuidsUnique(u)
  BY <1>2 DEF TablesOK, GuidsUnique
<1>4. ReferencesResolve(u)
  <2>1. ReferencesResolve(t)
    BY DEF TablesOK
  <2> QED BY <1>1, <1>2, <2>1 DEF ReferencesResolve, DestinationInUse
<1>5. DestinationsUsed(u)
  <2> SUFFICES ASSUME NEW e \in u.destinations
               PROVE  DestinationInUse(u, e)
    BY DEF DestinationsUsed
  <2>1. CASE e = d
    BY <1>2, <2>1 DEF DestinationInUse
  <2>2. CASE e # d
    <3>1. PICK x \in t.policies : x.destination = e
      BY <1>2 DEF TablesOK, DestinationsUsed, DestinationInUse
    <3>2. x # r
      BY <3>1, <2>2
    <3> QED BY <3>1, <3>2, <1>1, <1>2 DEF DestinationInUse
  <2> QED BY <2>1, <2>2
<1>6. ASSUME NEW k \in Tags, k # i, k # d.group, TagUsed(X, t, k)
      PROVE  TagUsed(X, u, k)
  <2>1. GroupHasPolicies(t, k) => GroupHasPolicies(u, k)
    <3> SUFFICES ASSUME NEW x \in t.policies, x.group = k
                 PROVE  GroupHasPolicies(u, k)
      BY DEF GroupHasPolicies
    <3>1. x # r
      BY <1>6
    <3> QED BY <3>1, <1>1, <1>2 DEF GroupHasPolicies
  <2>2. GroupHasDestinations(t, k) => GroupHasDestinations(u, k)
    BY <1>2, <1>6 DEF GroupHasDestinations
  <2> QED BY <1>2, <1>6, <2>1, <2>2 DEF TagUsed
<1> QED
  BY <1>1, <1>2, <1>3, <1>4, <1>5, <1>6 DEF u, v

\* What deleteGroupRowIfLast changes.
LEMMA GroupDeleteRows ==
  ASSUME NEW t \in Tables, NEW k \in Tags
  PROVE  LET u == DeleteGroupRowIfLast(t, k)
         IN  /\ u.policies = t.policies /\ u.destinations = t.destinations
             /\ \A m \in Tags : m # k => u.groups[m] = t.groups[m]
             /\ \/ u.groups[k] = t.groups[k]
                \/ u.groups[k] = NULL /\ ~GroupHasPolicies(t, k) /\ ~GroupHasDestinations(t, k)
<1> DEFINE u == DeleteGroupRowIfLast(t, k)
<1>1. CASE GroupHasPolicies(t, k) \/ GroupHasDestinations(t, k)
  BY <1>1 DEF DeleteGroupRowIfLast
<1>2. CASE ~GroupHasPolicies(t, k) /\ ~GroupHasDestinations(t, k)
  <2>1. u = UpdateRow(t, k, NULL)
    BY <1>2 DEF DeleteGroupRowIfLast
  <2> HIDE DEF u
  <2>2. /\ u.groups[k] = NULL
        /\ \A m \in Tags : m # k => u.groups[m] = t.groups[m]
        /\ u.policies = t.policies /\ u.destinations = t.destinations
    BY <2>1 DEF Tables, UpdateRow
  <2> QED BY <1>2, <2>2 DEF u
<1> QED BY <1>1, <1>2

\* One turn of the loop of store.Delete keeps the tables well formed.  One row
\* of policies goes, and the tags of the two groups may be given back, if
\* nothing refers to them any more.
LEMMA DeleteOneLemma ==
  ASSUME NEW t, TablesOK(t), NEW i \in Tags, NEW j \in Tags,
         NEW d \in t.destinations, d.group = j, NEW X
  PROVE  LET w == DeleteRows(t, i, j, d)
         IN  /\ TablesOK(w)
             /\ (\A k \in Tags : TagUsed(X, t, k)) => (\A k \in Tags : TagUsed(X, w, k))
             /\ w.policies = t.policies \ {[group |-> i, destination |-> d]}
             /\ \A k \in Tags :
                  \/ w.groups[k] = t.groups[k]
                  \/ /\ w.groups[k] = NULL /\ k \in {i, j}
                     /\ ~GroupHasPolicies(w, k) /\ ~GroupHasDestinations(w, k)
<1> DEFINE r == [group |-> i, destination |-> d]
           u == DeleteDestinationIfUnused(PolicyDelete(t, r), d)
           v == DeleteGroupRowIfLast(u, i)
           w == DeleteGroupRowIfLast(v, j)
<1>1. /\ u \in Tables /\ GuidsUnique(u) /\ ReferencesResolve(u)
      /\ DestinationsUsed(u) /\ u.groups = t.groups /\ u.policies = t.policies \ {r}
      /\ \A k \in Tags : k # i /\ k # j /\ TagUsed(X, t, k) => TagUsed(X, u, k)
  BY PolicyDeleteLemma
<1>2. \A k \in Tags : k # i /\ k # j => TagUsed(reserved, u, k)
  <2>1. \A k \in Tags : k # i /\ k # j /\ TagUsed(reserved, t, k) => TagUsed(reserved, u, k)
    BY PolicyDeleteLemma
  <2>2. \A k \in Tags : TagUsed(reserved, t, k)
    BY DEF TablesOK, TagsUsed, TagUsed
  <2> QED BY <2>1, <2>2
<1>3. DeleteRows(t, i, j, d) = w
  BY DEF DeleteRows
<1> HIDE DEF r, u
<1>4. /\ v \in Tables /\ GuidsUnique(v) /\ ReferencesResolve(v)
      /\ DestinationsUsed(v)
      /\ \A k \in Tags : k # j => TagUsed(reserved, v, k)
  BY <1>1, <1>2, GroupDeleteLemma
<1>5. (\A k \in Tags : TagUsed(X, t, k)) => (\A k \in Tags : k # j => TagUsed(X, v, k))
  BY <1>1, GroupDeleteLemma
<1>6. /\ v.policies = u.policies /\ v.destinations = u.destinations
      /\ \A m \in Tags : m # i => v.groups[m] = u.groups[m]
      /\ \/ v.groups[i] = u.groups[i]
         \/ v.groups[i] = NULL /\ ~GroupHasPolicies(u, i) /\ ~GroupHasDestinations(u, i)
  BY <1>1, GroupDeleteRows
<1> HIDE DEF v
<1>7. /\ w \in Tables /\ GuidsUnique(w) /\ ReferencesResolve(w)
      /\ DestinationsUsed(w)
      /\ \A k \in Tags : TagUsed(reserved, w, k)
  BY <1>4, GroupDeleteLemma
<1>8. (\A k \in Tags : TagUsed(X, t, k)) => (\A k \in Tags : TagUsed(X, w, k))
  BY <1>4, <1>5, GroupDeleteLemma
<1>9. /\ w.policies = v.policies /\ w.destinations = v.destinations
      /\ \A m \in Tags : m # j => w.groups[m] = v.groups[m]
      /\ \/ w.groups[j] = v.groups[j]
         \/ w.groups[j] = NULL /\ ~GroupHasPolicies(v, j) /\ ~GroupHasDestinations(v, j)
  BY <1>4, GroupDeleteRows
<1> HIDE DEF w
<1>10. TablesOK(w)
  BY <1>7 DEF TablesOK, TagsUsed, TagUsed
<1>11. w.policies = t.policies \ {r}
  BY <1>1, <1>6, <1>9
<1>12. ASSUME NEW k \in Tags
       PROVE  \/ w.groups[k] = t.groups[k]
              \/ /\ w.groups[k] = NULL /\ k \in {i, j}
                 /\ ~GroupHasPolicies(w, k) /\ ~GroupHasDestinations(w, k)
  <2>1. /\ GroupHasPolicies(w, k) <=> GroupHasPolicies(u, k)
        /\ GroupHasPolicies(w, k) <=> GroupHasPolicies(v, k)
        /\ GroupHasDestinations(w, k) <=> GroupHasDestinations(u, k)
        /\ GroupHasDestinations(w, k) <=> GroupHasDestinations(v, k)
    BY <1>6, <1>9 DEF GroupHasPolicies, GroupHasDestinations
  <2> QED BY <1>1, <1>6, <1>9, <2>1
<1> QED
  BY <1>3, <1>8, <1>10, <1>11, <1>12 DEF r

---------------------------------------------------------------------------
\* The tables that populateTables leaves behind are well formed.
LEMMA EmptyTablesOK == reserved \in SUBSET Guids => TablesOK(EmptyTables)
  BY DEF TablesOK, EmptyTables, Tables, GuidsUnique, ReferencesResolve,
         DestinationsUsed, TagsUsed

\* The invariant holds of a new database.
LEMMA InitInv == Init => Inv
  BY EmptyTablesOK DEF Init, Inv, TypeOK, TablesOK

\* A batch is a list of policies.
LEMMA BatchesAreLists == Batches \subseteq Seq(Policy)
  BY DEF Batches

\* Every step of the store keeps the invariant.
LEMMA NextInv == Inv /\ [Next]_vars => Inv'
<1> SUFFICES ASSUME Inv, [Next]_vars PROVE Inv'
  OBVIOUS
<1> USE DEF Inv
<1>1. ASSUME NEW kind \in {"create", "delete"}, NEW ps \in Batches,
             Begin(kind, ps)
      PROVE  Inv'
  <2>1. ps \in Seq(Policy)
    BY BatchesAreLists
  <2>2. TypeOK'
    BY <1>1, <2>1 DEF Begin, TypeOK
  <2>3. TablesOK(tables)' /\ TablesOK(work)'
    BY <1>1 DEF Begin, TablesOK, TagsUsed
  <2> QED BY <2>2, <2>3
<1>2. CASE CreateNext
  <2> DEFINE p == args[next]
  <2>1. p \in Policy /\ next + 1 \in 1..(Len(args) + 1)
    BY <1>2 DEF CreateNext, TypeOK
  <2>2. PICK i \in GroupCreateRow(work, p.src) :
          \E j \in GroupCreateRow(UpdateRow(work, i, p.src), p.dst) :
            work' = CreateRows(UpdateRow(UpdateRow(work, i, p.src), j, p.dst),
                               i, j, p.svc)
    BY <1>2 DEF CreateNext
  <2>3. PICK j \in GroupCreateRow(UpdateRow(work, i, p.src), p.dst) :
          work' = CreateRows(UpdateRow(UpdateRow(work, i, p.src), j, p.dst),
                             i, j, p.svc)
    BY <2>2
  <2> HIDE DEF p
  <2>4. TablesOK(CreateRows(UpdateRow(UpdateRow(work, i, p.src), j, p.dst),
                            i, j, p.svc))
    BY <2>1, <2>3, CreateOneLemma
  <2>5. TablesOK(work)' /\ TablesOK(tables)'
    BY <1>2, <2>3, <2>4 DEF CreateNext, TablesOK, TagsUsed
  <2>6. TypeOK'
    BY <1>2, <2>1, <2>5 DEF CreateNext, TypeOK, TablesOK
  <2> QED BY <2>5, <2>6
<1>3. CASE DeleteNext
  <2> DEFINE p == args[next]
             found == {ij \in RowsOf(work, p.src) \X RowsOf(work, p.dst) :
                         [group |-> ij[2], svc |-> p.svc] \in work.destinations}
  <2>1. next + 1 \in 1..(Len(args) + 1)
    BY <1>3 DEF DeleteNext, TypeOK
  <2>2. TablesOK(work)'
    <3>1. CASE work' = work
      BY <1>3, <3>1 DEF DeleteNext, TablesOK, TagsUsed
    <3>2. ASSUME NEW ij \in found,
                 work' = DeleteRows(work, ij[1], ij[2],
                                    [group |-> ij[2], svc |-> p.svc])
          PROVE  TablesOK(work)'
      <4>1. /\ ij[1] \in Tags /\ ij[2] \in Tags
            /\ [group |-> ij[2], svc |-> p.svc] \in work.destinations
        BY DEF RowsOf
      <4>2. TablesOK(DeleteRows(work, ij[1], ij[2],
                                [group |-> ij[2], svc |-> p.svc]))
        BY <4>1, DeleteOneLemma
      <4> QED BY <1>3, <3>2, <4>2 DEF DeleteNext, TablesOK, TagsUsed
    <3> QED BY <1>3, <3>1, <3>2 DEF DeleteNext
  <2>3. TablesOK(tables)'
    BY <1>3 DEF DeleteNext, TablesOK, TagsUsed
  <2>4. TypeOK'
    BY <1>3, <2>1, <2>2, <2>3 DEF DeleteNext, TypeOK, TablesOK
  <2> QED BY <2>2, <2>3, <2>4
<1>4. ASSUME EndTx, reserved' = reserved, tables' \in {tables, work}
      PROVE  Inv'
  <2>1. TablesOK(tables)'
    BY <1>4 DEF TablesOK, TagsUsed
  <2>2. TablesOK(work)'
    <3>1. TablesOK(EmptyTables)
      BY EmptyTablesOK DEF TypeOK
    <3> QED BY <1>4, <3>1 DEF EndTx, TablesOK, TagsUsed
  <2>3. TypeOK'
    BY <1>4, <2>1, <2>2 DEF EndTx, TypeOK, TablesOK
  <2> QED BY <2>1, <2>2, <2>3
<1>5. ASSUME NEW g \in Guids, CreateTag(g)
      PROVE  Inv'
  <2>1. PICK i \in GroupCreateRow(tables, g) : tables' = UpdateRow(tables, i, g)
    BY <1>5 DEF CreateTag
  <2>2. /\ i \in Tags /\ tables' \in Tables /\ GuidsUnique(tables')
        /\ tables'.groups[i] = g
        /\ \A k \in Tags : tables.groups[k] # NULL =>
                             tables'.groups[k] = tables.groups[k]
        /\ \A k \in Tags : k # i => tables'.groups[k] = tables.groups[k]
        /\ tables'.destinations = tables.destinations
        /\ tables'.policies = tables.policies
    BY <2>1, GroupCreateLemma DEF TablesOK
  <2>3. reserved' = reserved \cup {g} /\ work' = work
    BY <1>5 DEF CreateTag
  <2>4. ReferencesResolve(tables')
    BY <2>2 DEF TablesOK, ReferencesResolve, Tables, PolicyRow, DestinationRow
  <2>5. DestinationsUsed(tables')
    BY <2>2 DEF TablesOK, DestinationsUsed, DestinationInUse
  <2>6. TagsUsed(tables)'
    BY <2>2, <2>3 DEF TablesOK, TagsUsed, GroupHasPolicies, GroupHasDestinations
  <2>7. TablesOK(tables)'
    BY <2>2, <2>4, <2>5, <2>6 DEF TablesOK
  <2>8. TablesOK(work)'
    BY <2>3 DEF TablesOK, TagsUsed
  <2>9. TypeOK'
    BY <1>5, <2>2, <2>3 DEF CreateTag, TypeOK
  <2> QED BY <2>7, <2>8, <2>9
<1>6. CASE UNCHANGED vars
  BY <1>6 DEF vars, TypeOK, TablesOK, TagsUsed
<1> QED
  BY <1>1, <1>2, <1>3, <1>4, <1>5, <1>6
  DEF Next, BeginCreate, BeginDelete, Commit, Rollback

\* The inductive invariant of the store, for every set of guids and services,
\* any number of tags and lists of any length.
THEOREM StoreInv == Spec => []Inv
<1>1. Init => Inv
  BY InitInv
<1>2. Inv /\ [Next]_vars => Inv'
  BY NextInv
<1> QED BY <1>1, <1>2, PTL DEF Spec

\* The state of the store always has its declared type.
THEOREM StoreTypeCorrect == Spec => []TypeOK
  BY StoreInv, PTL DEF Inv

\* GroupTable.Create never gives a guid a second tag.
THEOREM StoreGuidHasOneTag == Spec => []GuidHasOneTag
<1>1. Inv => GuidHasOneTag
  BY DEF Inv, TablesOK, GuidHasOneTag
<1> QED BY <1>1, StoreInv, PTL

\* store.Delete never takes away a row that a remaining policy refers to, so
\* the queries of All and ByGuids never meet a NULL.
THEOREM StorePoliciesResolve == Spec => []PoliciesResolve
<1>1. Inv => PoliciesResolve
  BY DEF Inv, TablesOK, PoliciesResolve
<1> QED BY <1>1, StoreInv, PTL

\* store.Delete gives back every destination row and every tag whose last
\* policy is gone.
THEOREM StoreNothingLeaks == Spec => []NothingLeaks
<1>1. Inv => NothingLeaks
  BY DEF Inv, TablesOK, NothingLeaks
<1> QED BY <1>1, StoreInv, PTL

---------------------------------------------------------------------------
(* The store keeps PolicySpec's promise *)

Owners(t) == {t.groups[k] : k \in Tags} \ {NULL}

\* The policies of the list that the loop is past.
Done == {args[i] : i \in 1..(next - 1)}

\* How far a call has got: the working copy holds the committed policies and
\* the ones that are done; every guid that had a tag has the same one.
Creating ==
  /\ All(work) = All(tables) \cup Done
  /\ \A k \in Tags : tables.groups[k] # NULL => work.groups[k] = tables.groups[k]
  /\ Owners(work) = Owners(tables) \cup Promise!GuidsOf(Done)

\* Tags are only given back, by guids of the list, and a guid of a committed
\* policy has given its tag back if it has no policy left.
Deleting ==
  /\ All(work) = All(tables) \ Done
  /\ \A k \in Tags : work.groups[k] # NULL => work.groups[k] = tables.groups[k]
  /\ \A k \in Tags : tables.groups[k] # NULL /\ work.groups[k] = NULL =>
                       tables.groups[k] \in Promise!GuidsOf(Done)
  /\ \A k \in Tags : TagUsed(Guids \ Promise!GuidsOf(All(tables)), work, k)

CallInv ==
  /\ op = "none" => args = <<>>
  /\ op = "create" => Creating
  /\ op = "delete" => Deleting

\* The guids of the policies that All reads are those that own a row which a
\* policy or a destination refers to.
LEMMA GuidsOfAll ==
  ASSUME NEW t, TablesOK(t)
  PROVE  /\ All(t) \subseteq Policy
         /\ \A g \in Promise!GuidsOf(All(t)) :
              /\ g \in Guids
              /\ \E k \in Tags : t.groups[k] = g /\ (GroupHasPolicies(t, k) \/ GroupHasDestinations(t, k))
         /\ \A k \in Tags : GroupHasPolicies(t, k) \/ GroupHasDestinations(t, k) =>
              t.groups[k] \in Promise!GuidsOf(All(t))
<1>1. /\ t \in Tables /\ ReferencesResolve(t) /\ DestinationsUsed(t)
  BY DEF TablesOK
<1>2. ASSUME NEW r \in t.policies
      PROVE  /\ r.group \in Tags /\ r.destination \in t.destinations
             /\ r.destination.group \in Tags /\ r.destination.svc \in Services
             /\ t.groups[r.group] \in Guids /\ t.groups[r.destination.group] \in Guids
  BY <1>1 DEF Tables, PolicyRow, DestinationRow, ReferencesResolve
<1>3. ASSUME NEW x \in All(t)
      PROVE  \E r \in t.policies : /\ x = [src |-> t.groups[r.group],
                                          dst |-> t.groups[r.destination.group],
                                          svc |-> r.destination.svc]
                                   /\ x.src = t.groups[r.group]
                                   /\ x.dst = t.groups[r.destination.group]
  BY DEF All, JoinRow
<1>4. ASSUME NEW r \in t.policies
      PROVE  \E x \in All(t) : x.src = t.groups[r.group] /\ x.dst = t.groups[r.destination.group]
  <2>1. JoinRow(t, r) \in All(t)
    BY DEF All
  <2>2. JoinRow(t, r).src = t.groups[r.group] /\ JoinRow(t, r).dst = t.groups[r.destination.group]
    BY DEF JoinRow
  <2> QED BY <2>1, <2>2
<1>5. All(t) \subseteq Policy
  <2> SUFFICES ASSUME NEW x \in All(t) PROVE x \in Policy
    OBVIOUS
  <2> QED BY <1>2, <1>3 DEF Policy
<1>6. ASSUME NEW g \in Promise!GuidsOf(All(t))
      PROVE  /\ g \in Guids
             /\ \E k \in Tags : t.groups[k] = g /\ (GroupHasPolicies(t, k) \/ GroupHasDestinations(t, k))
  <2>1. PICK x \in All(t) : g = x.src \/ g = x.dst
    BY DEF Promise!GuidsOf
  <2>2. PICK r \in t.policies : x.src = t.groups[r.group] /\ x.dst = t.groups[r.destination.group]
    BY <1>3
  <2>3. GroupHasPolicies(t, r.group) /\ GroupHasDestinations(t, r.destination.group)
    BY <1>2 DEF GroupHasPolicies, GroupHasDestinations
  <2> QED BY <1>2, <2>1, <2>2, <2>3
<1>7. ASSUME NEW k \in Tags, GroupHasPolicies(t, k) \/ GroupHasDestinations(t, k)
      PROVE  t.groups[k] \in Promise!GuidsOf(All(t))
  <2>1. PICK r \in t.policies : r.group = k \/ r.destination.group = k
    BY <1>1, <1>7 DEF GroupHasPolicies, GroupHasDestinations, DestinationsUsed, DestinationInUse
  <2>2. PICK x \in All(t) : x.src = t.groups[r.group] /\ x.dst = t.groups[r.destination.group]
    BY <1>4
  <2> QED BY <2>1, <2>2 DEF Promise!GuidsOf
<1> QED BY <1>5, <1>6, <1>7

\* store.Tags lists each guid that owns a row, with the number of the row.
LEMMA TagMapLemma ==
  ASSUME NEW t \in Tables, GuidsUnique(t)
  PROVE  /\ TagMap(t) \in [Owners(t) -> Tags]
         /\ \A k \in Tags : t.groups[k] # NULL =>
              t.groups[k] \in Owners(t) /\ TagMap(t)[t.groups[k]] = k
<1>1. \A r : r \in TagsOf(t) <=>
        \E k \in Tags : t.groups[k] # NULL /\ r = [id |-> t.groups[k], tag |-> k]
  BY DEF TagsOf
<1>2. {r.id : r \in TagsOf(t)} = Owners(t)
  <2>1. ASSUME NEW r \in TagsOf(t) PROVE r.id \in Owners(t)
    BY <1>1 DEF Owners
  <2>2. ASSUME NEW g \in Owners(t) PROVE \E r \in TagsOf(t) : g = r.id
    <3>1. PICK k \in Tags : g = t.groups[k] /\ g # NULL
      BY DEF Owners
    <3>2. [id |-> t.groups[k], tag |-> k] \in TagsOf(t)
      BY <1>1, <3>1
    <3> QED BY <3>1, <3>2
  <2> QED BY <2>1, <2>2
<1>3. TagMap(t) = [g \in Owners(t) |-> (CHOOSE r \in TagsOf(t) : r.id = g).tag]
  BY <1>2 DEF TagMap
<1>4. ASSUME NEW k \in Tags, t.groups[k] # NULL
      PROVE  t.groups[k] \in Owners(t) /\ TagMap(t)[t.groups[k]] = k
  <2>1. t.groups[k] \in Owners(t)
    BY <1>4 DEF Owners
  <2>2. [id |-> t.groups[k], tag |-> k] \in TagsOf(t)
    BY <1>1, <1>4
  <2>3. \A r \in TagsOf(t) : r.id = t.groups[k] => r.tag = k
    BY <1>1, <1>4 DEF GuidsUnique
  <2>4. (CHOOSE r \in TagsOf(t) : r.id = t.groups[k]).tag = k
    BY <2>2, <2>3
  <2> QED BY <1>3, <2>1, <2>4
<1>5. TagMap(t) \in [Owners(t) -> Tags]
  <2>1. ASSUME NEW g \in Owners(t) PROVE TagMap(t)[g] \in Tags
    <3>1. PICK k \in Tags : t.groups[k] = g /\ g # NULL
      BY DEF Owners
    <3> QED BY <1>4, <3>1
  <2> QED BY <1>3, <2>1
<1> QED BY <1>4, <1>5

\* The policies that All reads after one turn of either loop.
LEMMA CreateAll ==
  ASSUME NEW t, TablesOK(t), NEW u, NEW p \in Policy, NEW i \in Tags, NEW j \in Tags,
         \A k \in Tags : t.groups[k] # NULL => u.groups[k] = t.groups[k],
         u.groups[i] = p.src, u.groups[j] = p.dst,
         u.policies = t.policies \cup {[group |-> i, destination |-> [group |-> j, svc |-> p.svc]]}
  PROVE  All(u) = All(t) \cup {p}
<1> DEFINE r == [group |-> i, destination |-> [group |-> j, svc |-> p.svc]]
<1>1. JoinRow(u, r) = p
  BY DEF JoinRow, Policy
<1>2. ASSUME NEW x \in t.policies PROVE JoinRow(u, x) = JoinRow(t, x)
  <2>1. /\ x.group \in Tags /\ x.destination.group \in Tags
        /\ t.groups[x.group] # NULL /\ t.groups[x.destination.group] # NULL
    BY DEF TablesOK, Tables, PolicyRow, DestinationRow, ReferencesResolve
  <2> QED BY <2>1 DEF JoinRow
<1> HIDE DEF r
<1>3. u.policies = t.policies \cup {r}
  BY DEF r
<1> QED BY <1>1, <1>2, <1>3 DEF All

LEMMA DeleteAll ==
  ASSUME NEW t, TablesOK(t), NEW w, NEW p \in Policy, NEW i \in Tags, NEW j \in Tags,
         TablesOK(w), t.groups[i] = p.src, t.groups[j] = p.dst,
         w.policies = t.policies \ {[group |-> i, destination |-> [group |-> j, svc |-> p.svc]]},
         \A k \in Tags : w.groups[k] = t.groups[k] \/ w.groups[k] = NULL
  PROVE  All(w) = All(t) \ {p}
<1> DEFINE r == [group |-> i, destination |-> [group |-> j, svc |-> p.svc]]
<1>1. JoinRow(t, r) = p
  BY DEF JoinRow, Policy
<1>2. ASSUME NEW x \in w.policies PROVE JoinRow(w, x) = JoinRow(t, x)
  <2>1. /\ x.group \in Tags /\ x.destination.group \in Tags
        /\ w.groups[x.group] # NULL /\ w.groups[x.destination.group] # NULL
    BY DEF TablesOK, Tables, PolicyRow, DestinationRow, ReferencesResolve
  <2> QED BY <2>1 DEF JoinRow
<1>3. ASSUME NEW x \in t.policies, JoinRow(t, x) = p PROVE x = r
  <2>1. /\ x = [group |-> x.group, destination |-> x.destination]
        /\ x.destination = [group |-> x.destination.group, svc |-> x.destination.svc]
        /\ x.group \in Tags /\ x.destination.group \in Tags
    BY DEF TablesOK, Tables, PolicyRow, DestinationRow
  <2>2. /\ t.groups[x.group] = p.src /\ t.groups[x.destination.group] = p.dst
        /\ x.destination.svc = p.svc
    BY <1>3 DEF JoinRow
  <2>3. p.src # NULL /\ p.dst # NULL
    BY DEF Policy
  <2>4. x.group = i /\ x.destination.group = j
    BY <2>1, <2>2, <2>3 DEF TablesOK, GuidsUnique
  <2> QED BY <2>1, <2>2, <2>4
<1> HIDE DEF r
<1>4. w.policies = t.policies \ {r}
  BY DEF r
<1> QED BY <1>1, <1>2, <1>3, <1>4 DEF All

\* A policy that Delete does not find is not there.
LEMMA NotFound ==
  ASSUME NEW t, TablesOK(t), NEW p \in All(t)
  PROVE  \E i \in RowsOf(t, p.src), j \in RowsOf(t, p.dst) :
           [group |-> j, svc |-> p.svc] \in t.destinations
<1>1. PICK r \in t.policies : p = JoinRow(t, r)
  BY DEF All
<1>2. /\ r.group \in Tags /\ r.destination.group \in Tags /\ r.destination \in t.destinations
      /\ r.destination = [group |-> r.destination.group, svc |-> r.destination.svc]
  BY DEF TablesOK, Tables, PolicyRow, DestinationRow, ReferencesResolve
<1>3. /\ p.src = t.groups[r.group] /\ p.dst = t.groups[r.destination.group]
      /\ p.svc = r.destination.svc
  BY <1>1 DEF JoinRow
<1> QED BY <1>2, <1>3 DEF RowsOf

\* One more policy of the list is done.
LEMMA DoneGrows ==
  ASSUME TypeOK, next <= Len(args), args' = args, next' = next + 1
  PROVE  /\ args[next] \in Policy
         /\ Done' = Done \cup {args[next]}
         /\ Promise!GuidsOf(Done') =
              Promise!GuidsOf(Done) \cup {args[next].src, args[next].dst}
<1>1. args \in Seq(Policy) /\ next \in Nat /\ next >= 1
  BY DEF TypeOK
<1>2. args[next] \in Policy
  BY <1>1
<1>3. 1..(next' - 1) = 1..(next - 1) \cup {next}
  BY <1>1
<1>4. Done' = {args[i] : i \in 1..(next' - 1)}
  BY DEF Done
<1>5. Done' = Done \cup {args[next]}
  BY <1>3, <1>4 DEF Done
<1> DEFINE D == Done
           E == Done'
<1> HIDE DEF D, E
<1>6. E = D \cup {args[next]}
  BY <1>5 DEF D, E
<1>7. Promise!GuidsOf(E) = Promise!GuidsOf(D) \cup {args[next].src, args[next].dst}
  BY <1>6 DEF Promise!GuidsOf
<1> QED BY <1>2, <1>5, <1>7 DEF D, E

\* A turn of the loop of store.Create.
LEMMA CreateTurn ==
  ASSUME Inv, Creating, CreateNext
  PROVE  Creating'
<1> DEFINE p == args[next]
<1>1. /\ TypeOK /\ TablesOK(work) /\ next <= Len(args) /\ args' = args
      /\ next' = next + 1 /\ tables' = tables
  BY DEF Inv, CreateNext
<1>2. /\ p \in Policy /\ Done' = Done \cup {p}
      /\ Promise!GuidsOf(Done') = Promise!GuidsOf(Done) \cup {p.src, p.dst}
  BY <1>1, DoneGrows
<1>3. PICK i \in GroupCreateRow(work, p.src) :
        \E j \in GroupCreateRow(UpdateRow(work, i, p.src), p.dst) :
          work' = CreateRows(UpdateRow(UpdateRow(work, i, p.src), j, p.dst), i, j, p.svc)
  BY DEF CreateNext
<1>4. PICK j \in GroupCreateRow(UpdateRow(work, i, p.src), p.dst) :
        work' = CreateRows(UpdateRow(UpdateRow(work, i, p.src), j, p.dst), i, j, p.svc)
  BY <1>3
<1> HIDE DEF p
<1>a. PICK u : u = CreateRows(UpdateRow(UpdateRow(work, i, p.src), j, p.dst), i, j, p.svc)
  OBVIOUS
<1>5. /\ i \in Tags /\ j \in Tags /\ u.groups[i] = p.src /\ u.groups[j] = p.dst
      /\ \A k \in Tags : work.groups[k] # NULL => u.groups[k] = work.groups[k]
      /\ \A k \in Tags : k # i /\ k # j => u.groups[k] = work.groups[k]
      /\ u.policies = work.policies \cup
           {[group |-> i, destination |-> [group |-> j, svc |-> p.svc]]}
  <2>1. TablesOK(work) /\ p \in Policy
    BY <1>1, <1>2
  <2>2. /\ TablesOK(u)
        /\ i \in Tags /\ j \in Tags /\ u.groups[i] = p.src /\ u.groups[j] = p.dst
    BY <2>1, <1>a, CreateOneLemma
  <2>3. /\ \A k \in Tags : work.groups[k] # NULL => u.groups[k] = work.groups[k]
        /\ \A k \in Tags : k # i /\ k # j => u.groups[k] = work.groups[k]
    BY <2>1, <1>a, CreateOneLemma
  <2>4. u.policies = work.policies \cup
           {[group |-> i, destination |-> [group |-> j, svc |-> p.svc]]}
    BY <2>1, <1>a, CreateOneLemma
  <2> QED BY <2>2, <2>3, <2>4
<1>6. work' = u
  BY <1>4, <1>a
<1>7. All(u) = All(work) \cup {p}
  BY <1>1, <1>2, <1>5, CreateAll
<1>8. Owners(u) = Owners(work) \cup {p.src, p.dst}
  <2>1. p.src # NULL /\ p.dst # NULL
    BY <1>2 DEF Policy
  <2>2. Owners(u) \subseteq Owners(work) \cup {p.src, p.dst}
    BY <1>5 DEF Owners
  <2>3. Owners(work) \subseteq Owners(u)
    BY <1>5 DEF Owners
  <2>4. p.src \in Owners(u) /\ p.dst \in Owners(u)
    BY <1>5, <2>1 DEF Owners
  <2> QED BY <2>2, <2>3, <2>4
<1>9. All(work)' = All(tables)' \cup Done'
  <2>1. All(work') = All(tables) \cup Done'
    BY <1>2, <1>6, <1>7 DEF Creating
  <2> QED BY <1>1, <2>1 DEF All, JoinRow
<1>10. \A k \in Tags : tables'.groups[k] # NULL => work'.groups[k] = tables'.groups[k]
  BY <1>1, <1>5, <1>6 DEF Creating
<1>11. Owners(work') = Owners(tables') \cup Promise!GuidsOf(Done')
  BY <1>1, <1>2, <1>6, <1>8 DEF Creating
<1> QED BY <1>9, <1>10, <1>11 DEF Creating, Owners

\* A turn of the loop of store.Delete.
LEMMA DeleteTurn ==
  ASSUME Inv, Deleting, DeleteNext
  PROVE  Deleting'
<1> DEFINE p == args[next]
           found == {ij \in RowsOf(work, p.src) \X RowsOf(work, p.dst) :
                       [group |-> ij[2], svc |-> p.svc] \in work.destinations}
           X == Guids \ Promise!GuidsOf(All(tables))
<1>1. /\ TypeOK /\ TablesOK(work) /\ next <= Len(args) /\ args' = args
      /\ next' = next + 1 /\ tables' = tables
  BY DEF Inv, DeleteNext
<1>2. /\ p \in Policy /\ Done' = Done \cup {p}
      /\ Promise!GuidsOf(Done') = Promise!GuidsOf(Done) \cup {p.src, p.dst}
  BY <1>1, DoneGrows
<1>3. /\ All(work) = All(tables) \ Done
      /\ \A k \in Tags : work.groups[k] # NULL => work.groups[k] = tables.groups[k]
      /\ \A k \in Tags : tables.groups[k] # NULL /\ work.groups[k] = NULL =>
                           tables.groups[k] \in Promise!GuidsOf(Done)
      /\ \A k \in Tags : TagUsed(X, work, k)
  BY DEF Deleting
<1>4. \/ found = {} /\ work' = work
      \/ \E ij \in found : work' = DeleteRows(work, ij[1], ij[2], [group |-> ij[2], svc |-> p.svc])
  BY DEF DeleteNext
<1> HIDE DEF p
<1> SUFFICES /\ All(work') = All(tables) \ Done'
             /\ \A k \in Tags : work'.groups[k] # NULL => work'.groups[k] = tables.groups[k]
             /\ \A k \in Tags : tables.groups[k] # NULL /\ work'.groups[k] = NULL =>
                                  tables.groups[k] \in Promise!GuidsOf(Done')
             /\ \A k \in Tags : TagUsed(X, work', k)
  <2>1. All(tables)' = All(tables) /\ All(work)' = All(work')
    BY <1>1 DEF All, JoinRow
  <2>2. \A k \in Tags : TagUsed(X, work', k) <=>
                           TagUsed(Guids \ Promise!GuidsOf(All(tables)), work, k)'
    BY <1>1 DEF TagUsed, GroupHasPolicies, GroupHasDestinations
  <2> QED BY <1>1, <2>1, <2>2 DEF Deleting
<1>5. CASE found = {} /\ work' = work
  <2>1. p \notin All(work)
    <3> SUFFICES ASSUME p \in All(work) PROVE FALSE
      OBVIOUS
    <3>1. PICK i \in RowsOf(work, p.src), j \in RowsOf(work, p.dst) :
            [group |-> j, svc |-> p.svc] \in work.destinations
      BY <1>1, NotFound
    <3>2. <<i, j>> \in found
      BY <3>1
    <3> QED BY <1>5, <3>2
  <2> HIDE DEF X
  <2> QED BY <1>2, <1>3, <1>5, <2>1
<1>6. ASSUME NEW ij \in found,
             work' = DeleteRows(work, ij[1], ij[2], [group |-> ij[2], svc |-> p.svc])
      PROVE  /\ All(work') = All(tables) \ Done'
             /\ \A k \in Tags : work'.groups[k] # NULL => work'.groups[k] = tables.groups[k]
             /\ \A k \in Tags : tables.groups[k] # NULL /\ work'.groups[k] = NULL =>
                                  tables.groups[k] \in Promise!GuidsOf(Done')
             /\ \A k \in Tags : TagUsed(X, work', k)
  <2>1. PICK i, j : i = ij[1] /\ j = ij[2]
    OBVIOUS
  <2>2. PICK d : d = [group |-> j, svc |-> p.svc]
    OBVIOUS
  <2>3. /\ i \in Tags /\ j \in Tags /\ work.groups[i] = p.src /\ work.groups[j] = p.dst
        /\ d \in work.destinations /\ d.group = j
    BY <2>1, <2>2 DEF RowsOf
  <2>4. PICK w : w = DeleteRows(work, i, j, d)
    OBVIOUS
  <2>5. work' = w
    BY <1>6, <2>1, <2>2, <2>4
  <2> HIDE DEF X, found
  <2>6. /\ TablesOK(w)
        /\ (\A k \in Tags : TagUsed(X, work, k)) => (\A k \in Tags : TagUsed(X, w, k))
        /\ w.policies = work.policies \ {[group |-> i, destination |-> d]}
        /\ \A k \in Tags :
             \/ w.groups[k] = work.groups[k]
             \/ /\ w.groups[k] = NULL /\ k \in {i, j}
                /\ ~GroupHasPolicies(w, k) /\ ~GroupHasDestinations(w, k)
    BY <1>1, <2>3, <2>4, DeleteOneLemma
  <2>7. All(w) = All(work) \ {p}
    <3>1. w.policies = work.policies \
                         {[group |-> i, destination |-> [group |-> j, svc |-> p.svc]]}
      BY <2>2, <2>6
    <3>2. \A k \in Tags : w.groups[k] = work.groups[k] \/ w.groups[k] = NULL
      BY <2>6
    <3> QED BY <1>1, <1>2, <2>3, <2>6, <3>1, <3>2, DeleteAll
  <2>8. \A k \in Tags : w.groups[k] # NULL => w.groups[k] = tables.groups[k]
    BY <1>3, <2>6
  <2>9. ASSUME NEW k \in Tags, tables.groups[k] # NULL, w.groups[k] = NULL
        PROVE  tables.groups[k] \in Promise!GuidsOf(Done')
    <3>1. CASE work.groups[k] = NULL
      BY <1>2, <1>3, <2>9, <3>1
    <3>2. CASE work.groups[k] # NULL
      <4>1. k = i \/ k = j
        BY <2>6, <2>9, <3>2
      <4>2. tables.groups[k] = work.groups[k]
        BY <1>3, <3>2
      <4> QED BY <1>2, <2>3, <4>1, <4>2
    <3> QED BY <3>1, <3>2
  <2>10. \A k \in Tags : TagUsed(X, w, k)
    BY <1>3, <2>6
  <2> QED BY <1>2, <1>3, <2>5, <2>7, <2>8, <2>9, <2>10
<1> QED BY <1>4, <1>5, <1>6

\* The call's invariant is kept by every step.
LEMMA CallInvNext == Inv /\ CallInv /\ [Next]_vars => CallInv'
<1> SUFFICES ASSUME Inv, CallInv, [Next]_vars PROVE CallInv'
  OBVIOUS
<1>1. ASSUME NEW kind \in {"create", "delete"}, NEW ps \in Batches, Begin(kind, ps)
      PROVE  CallInv'
  <2>1. /\ op' = kind /\ tables' = tables /\ work' = tables /\ next' = 1
    BY <1>1 DEF Begin
  <2>2. Done' = {}
    <3>1. 1..(next' - 1) = {}
      BY <2>1
    <3> QED BY <3>1 DEF Done
  <2>3. Promise!GuidsOf(Done') = {}
    BY <2>2 DEF Promise!GuidsOf
  <2>4. Creating'
    BY <2>1, <2>2, <2>3 DEF Creating, All, JoinRow, Owners
  <2>5. ASSUME NEW k \in Tags
        PROVE  TagUsed(Guids \ Promise!GuidsOf(All(tables)), tables, k)
    <3>1. TablesOK(tables)
      BY DEF Inv
    <3>2. CASE tables.groups[k] \in Promise!GuidsOf(All(tables))
      <4>1. PICK m \in Tags : /\ tables.groups[m] = tables.groups[k]
                              /\ GroupHasPolicies(tables, m) \/ GroupHasDestinations(tables, m)
        BY <3>1, <3>2, GuidsOfAll
      <4>2. tables.groups[k] \in Guids
        BY <3>1, <3>2, GuidsOfAll
      <4>3. m = k
        BY <3>1, <4>1, <4>2 DEF TablesOK, GuidsUnique
      <4> QED BY <4>1, <4>3 DEF TagUsed
    <3>3. CASE tables.groups[k] \notin Promise!GuidsOf(All(tables))
      BY <3>1, <3>3 DEF TagUsed, TablesOK, Tables
    <3> QED BY <3>2, <3>3
  <2>6. Deleting'
    <3>1. \A k \in Tags : TagUsed(Guids \ Promise!GuidsOf(All(tables)), work, k)'
      BY <2>1, <2>5 DEF TagUsed, GroupHasPolicies, GroupHasDestinations
    <3> QED BY <2>1, <2>2, <2>3, <3>1 DEF Deleting, All, JoinRow
  <2> QED BY <2>1, <2>4, <2>6 DEF CallInv
<1>2. CASE CreateNext
  <2>1. Creating' /\ op' = "create"
    BY <1>2, CreateTurn DEF CreateNext, CallInv
  <2> QED BY <2>1 DEF CallInv
<1>3. CASE DeleteNext
  <2>1. Deleting' /\ op' = "delete"
    BY <1>3, DeleteTurn DEF DeleteNext, CallInv
  <2> QED BY <2>1 DEF CallInv
<1>4. CASE EndTx
  BY <1>4 DEF EndTx, CallInv
<1>5. ASSUME NEW g \in Guids, CreateTag(g) PROVE CallInv'
  BY <1>5 DEF CreateTag, CallInv
<1>6. CASE UNCHANGED vars
  <2>1. /\ tables' = tables /\ work' = work /\ args' = args /\ next' = next /\ op' = op
    BY <1>6 DEF vars
  <2>2. Creating <=> Creating'
    BY <2>1 DEF Creating, Done, All, JoinRow, Owners
  <2>3. Deleting <=> Deleting'
    BY <2>1 DEF Deleting, Done, All, JoinRow, TagUsed, GroupHasPolicies, GroupHasDestinations
  <2> QED BY <2>1, <2>2, <2>3 DEF CallInv
<1> QED
  BY <1>1, <1>2, <1>3, <1>4, <1>5, <1>6
  DEF Next, BeginCreate, BeginDelete, Commit, Rollback

\* What store.Tags lists after guids have been given tags.
LEMMA TagsExtend ==
  ASSUME NEW t \in Tables, GuidsUnique(t), NEW u \in Tables, GuidsUnique(u),
         \A k \in Tags : t.groups[k] # NULL => u.groups[k] = t.groups[k],
         NEW gs, Owners(u) = Owners(t) \cup gs
  PROVE  /\ TagMap(u) \in [DOMAIN TagMap(t) \cup gs -> 1..NumTags]
         /\ DOMAIN TagMap(u) = DOMAIN TagMap(t) \cup gs
         /\ \A g \in DOMAIN TagMap(t) : TagMap(u)[g] = TagMap(t)[g]
         /\ \A g, h \in DOMAIN TagMap(u) : TagMap(u)[g] = TagMap(u)[h] => g = h
<1>1. /\ TagMap(t) \in [Owners(t) -> Tags] /\ TagMap(u) \in [Owners(u) -> Tags]
      /\ \A k \in Tags : t.groups[k] # NULL => TagMap(t)[t.groups[k]] = k
      /\ \A k \in Tags : u.groups[k] # NULL => TagMap(u)[u.groups[k]] = k
  BY TagMapLemma
<1>2. DOMAIN TagMap(t) = Owners(t) /\ DOMAIN TagMap(u) = Owners(u)
  BY <1>1
<1>3. ASSUME NEW g \in Owners(t) PROVE TagMap(u)[g] = TagMap(t)[g]
  <2>1. PICK k \in Tags : t.groups[k] = g /\ g # NULL
    BY DEF Owners
  <2> QED BY <1>1, <2>1
<1>4. ASSUME NEW g \in Owners(u), NEW h \in Owners(u), TagMap(u)[g] = TagMap(u)[h]
      PROVE  g = h
  <2>1. PICK k \in Tags : u.groups[k] = g /\ g # NULL
    BY DEF Owners
  <2>2. PICK m \in Tags : u.groups[m] = h /\ h # NULL
    BY DEF Owners
  <2> QED BY <1>1, <1>4, <2>1, <2>2
<1> QED BY <1>1, <1>2, <1>3, <1>4 DEF Tags

---------------------------------------------------------------------------
(* The simulation: the working copy is invisible until the commit. *)

\* The state that PolicySpec sees.
Calls == [op |-> op, ps |-> {args[i] : i \in DOMAIN args}]

LEMMA InitPromise == Init => Promise!Init
<1> SUFFICES ASSUME Init PROVE Promise!Init
  OBVIOUS
<1>1. tables = EmptyTables /\ op = "none" /\ args = <<>>
  BY DEF Init
<1>2. All(tables) = {}
  BY <1>1 DEF All, EmptyTables
<1>3. TagsOf(tables) = {}
  BY <1>1 DEF TagsOf, EmptyTables
<1>4. TagMap(tables) = [g \in {} |-> 0]
  BY <1>3 DEF TagMap
<1>5. Calls = [op |-> "none", ps |-> {}]
  <2>1. {args[i] : i \in DOMAIN args} = {}
    BY <1>1
  <2> QED BY <1>1, <2>1 DEF Calls
<1> QED BY <1>2, <1>4, <1>5 DEF Calls, Promise!Init, Promise!NoCall

\* The begin of a transaction is the caller's request.
LEMMA BeginAsks ==
  ASSUME Inv, CallInv, NEW kind \in {"create", "delete"}, NEW ps \in Batches, Begin(kind, ps)
  PROVE  Promise!Next
<1>1. /\ op = "none" /\ args = <<>> /\ op' = kind /\ args' = ps /\ tables' = tables
  BY DEF Begin, CallInv
<1>2. Calls = Promise!NoCall
  <2>1. {args[i] : i \in DOMAIN args} = {}
    BY <1>1
  <2> QED BY <1>1, <2>1 DEF Calls, Promise!NoCall
<1> DEFINE qs == {ps[i] : i \in DOMAIN ps}
<1>3. qs \in SUBSET Promise!Policy
  <2>1. ps \in Seq(Policy)
    BY BatchesAreLists
  <2>2. \A i \in DOMAIN ps : ps[i] \in Policy
    BY <2>1
  <2> QED BY <2>2 DEF Policy, Promise!Policy
<1>4. Calls' = [op |-> kind, ps |-> qs]
  BY <1>1 DEF Calls
<1>5. All(tables)' = All(tables) /\ TagMap(tables)' = TagMap(tables)
  BY <1>1 DEF All, JoinRow, TagMap, TagsOf
<1> HIDE DEF qs
<1>6. Promise!Ask(kind, qs)
  BY <1>2, <1>4, <1>5 DEF Promise!Ask, Calls
<1> QED BY <1>3, <1>6 DEF Promise!Next

\* A turn of either loop is invisible.
LEMMA TurnStutters ==
  ASSUME tables' = tables, op' = op, args' = args
  PROVE  UNCHANGED Promise!avars
<1>1. All(tables)' = All(tables) /\ TagMap(tables)' = TagMap(tables)
  BY DEF All, JoinRow, TagMap, TagsOf
<1>2. Calls' = Calls
  BY DEF Calls
<1> QED BY <1>1, <1>2 DEF Promise!avars, Calls

\* At the end of the list all its policies are done; afterwards there is no
\* call.
LEMMA Ended ==
  ASSUME TypeOK, EndTx, op # "none"
  PROVE  /\ Calls # Promise!NoCall /\ Calls' = Promise!NoCall
         /\ next > Len(args) => Calls.ps = Done
<1>1. Calls.op = op /\ Calls.ps = {args[i] : i \in DOMAIN args}
  BY DEF Calls
<1>2. Calls # Promise!NoCall
  BY <1>1 DEF Promise!NoCall
<1>3. Calls' = Promise!NoCall
  <2>1. op' = "none" /\ args' = <<>>
    BY DEF EndTx
  <2>2. {args'[i] : i \in DOMAIN args'} = {}
    BY <2>1
  <2>3. Calls' = [op |-> op', ps |-> {args'[i] : i \in DOMAIN args'}]
    BY DEF Calls
  <2> QED BY <2>1, <2>2, <2>3 DEF Promise!NoCall
<1>4. ASSUME next > Len(args) PROVE Calls.ps = Done
  <2>1. DOMAIN args = 1..Len(args) /\ Len(args) \in Nat /\ next \in 1..(Len(args) + 1)
    BY DEF TypeOK
  <2>2. next - 1 = Len(args)
    BY <1>4, <2>1
  <2> QED BY <1>1, <2>1, <2>2 DEF Done
<1> QED BY <1>2, <1>3, <1>4

\* rollback(tx, err): the call is refused.
LEMMA RollbackRefuses ==
  ASSUME Inv, Rollback
  PROVE  Promise!Next
<1>1. Calls # Promise!NoCall /\ Calls' = Promise!NoCall
  BY Ended DEF Inv, Rollback
<1>2. All(tables)' = All(tables) /\ TagMap(tables)' = TagMap(tables)
  BY DEF Rollback, All, JoinRow, TagMap, TagsOf
<1>3. Promise!Refuse
  BY <1>1, <1>2 DEF Promise!Refuse, Calls
<1> QED BY <1>3 DEF Promise!Next

\* The commit of a transaction of store.Create creates the whole list.
LEMMA CommitCreates ==
  ASSUME Inv, CallInv, Commit, op = "create"
  PROVE  Promise!Next
<1>1. /\ TypeOK /\ TablesOK(tables) /\ TablesOK(work) /\ Creating
      /\ tables' = work /\ EndTx /\ next > Len(args)
  BY DEF Inv, CallInv, Commit
<1>2. Calls' = Promise!NoCall /\ Calls.ps = Done /\ Calls.op = "create"
  BY <1>1, Ended DEF Calls
<1>3. All(tables)' = All(tables) \cup Calls.ps
  <2>1. All(tables)' = All(work)
    BY <1>1 DEF All, JoinRow
  <2> QED BY <1>1, <1>2, <2>1 DEF Creating
<1> DEFINE gs == Promise!GuidsOf(Calls.ps)
<1>4. Owners(work) = Owners(tables) \cup gs
  BY <1>1, <1>2 DEF Creating
<1> HIDE DEF gs
<1>5. /\ TagMap(work) \in [DOMAIN TagMap(tables) \cup gs -> 1..NumTags]
      /\ DOMAIN TagMap(work) = DOMAIN TagMap(tables) \cup gs
      /\ \A g \in DOMAIN TagMap(tables) : TagMap(work)[g] = TagMap(tables)[g]
      /\ \A g, h \in DOMAIN TagMap(work) : TagMap(work)[g] = TagMap(work)[h] => g = h
  BY <1>1, <1>4, TagsExtend DEF TablesOK, Creating
<1>6. TagMap(tables)' = TagMap(work)
  BY <1>1 DEF TagMap, TagsOf
<1>7. Promise!CreateTags(gs)
  BY <1>5, <1>6 DEF Promise!CreateTags, Promise!Extends
<1>8. Promise!Create
  BY <1>2, <1>3, <1>7 DEF Promise!Create, Calls, gs
<1> QED BY <1>8 DEF Promise!Next

\* The commit of a transaction of store.Delete deletes the whole list, and
\* gives back the tags of the guids that have no policy left.
LEMMA CommitDeletes ==
  ASSUME Inv, CallInv, Commit, op = "delete"
  PROVE  Promise!Next
<1>1. /\ TypeOK /\ TablesOK(tables) /\ TablesOK(work) /\ Deleting
      /\ tables' = work /\ EndTx /\ next > Len(args)
  BY DEF Inv, CallInv, Commit
<1>2. Calls' = Promise!NoCall /\ Calls.ps = Done /\ Calls.op = "delete"
  BY <1>1, Ended DEF Calls
<1>3. All(tables)' = All(work) /\ All(work) = All(tables) \ Calls.ps
  <2>1. All(tables)' = All(work)
    BY <1>1 DEF All, JoinRow
  <2> QED BY <1>1, <1>2, <2>1 DEF Deleting
<1> DEFINE gone == Owners(tables) \ Owners(work)
           before == Promise!GuidsOf(All(tables))
           after == Promise!GuidsOf(All(work))
<1>4. /\ \A k \in Tags : work.groups[k] # NULL => work.groups[k] = tables.groups[k]
      /\ \A k \in Tags : tables.groups[k] # NULL /\ work.groups[k] = NULL =>
                           tables.groups[k] \in Promise!GuidsOf(Calls.ps)
      /\ \A k \in Tags : TagUsed(Guids \ before, work, k)
  BY <1>1, <1>2 DEF Deleting
<1>5. \A g \in after : g \in Owners(work)
  BY <1>1, GuidsOfAll DEF Owners
<1>6. \A g \in before : g \in Owners(tables) /\ g \in Guids
  BY <1>1, GuidsOfAll DEF Owners
<1>7. gone \subseteq Promise!GuidsOf(Calls.ps) \ after
  <2> SUFFICES ASSUME NEW g \in gone PROVE g \in Promise!GuidsOf(Calls.ps) /\ g \notin after
    OBVIOUS
  <2>1. PICK k \in Tags : tables.groups[k] = g /\ g # NULL
    BY DEF Owners
  <2>2. work.groups[k] = NULL
    BY <1>4, <2>1 DEF Owners
  <2> QED BY <1>4, <1>5, <2>1, <2>2
<1>8. before \ after \subseteq gone
  <2> SUFFICES ASSUME NEW g \in before, g \notin after, g \in Owners(work) PROVE FALSE
    BY <1>6
  <2>1. PICK k \in Tags : work.groups[k] = g /\ g # NULL
    BY DEF Owners
  <2>2. GroupHasPolicies(work, k) \/ GroupHasDestinations(work, k)
    BY <1>4, <2>1 DEF TagUsed
  <2>3. g \in after
    BY <1>1, <2>1, <2>2, GuidsOfAll
  <2> QED BY <2>3
<1>9. /\ TagMap(tables) \in [Owners(tables) -> Tags] /\ TagMap(work) \in [Owners(work) -> Tags]
      /\ \A k \in Tags : tables.groups[k] # NULL => TagMap(tables)[tables.groups[k]] = k
      /\ \A k \in Tags : work.groups[k] # NULL => TagMap(work)[work.groups[k]] = k
  BY <1>1, TagMapLemma DEF TablesOK
<1>10. Owners(tables) \ gone = Owners(work)
  BY <1>4 DEF Owners
<1>11. ASSUME NEW g \in Owners(work) PROVE TagMap(work)[g] = TagMap(tables)[g]
  <2>1. PICK k \in Tags : work.groups[k] = g /\ g # NULL
    BY DEF Owners
  <2> QED BY <1>4, <1>9, <2>1
<1>12. TagMap(work) = [g \in DOMAIN TagMap(tables) \ gone |-> TagMap(tables)[g]]
  <2> HIDE DEF gone
  <2> QED BY <1>9, <1>10, <1>11
<1>13. TagMap(tables)' = TagMap(work)
  BY <1>1 DEF TagMap, TagsOf
<1> HIDE DEF gone
<1>14. Promise!Delete
  BY <1>2, <1>3, <1>7, <1>8, <1>12, <1>13 DEF Promise!Delete, Calls
<1> QED BY <1>14 DEF Promise!Next

\* store.CreateTag gives one guid a tag.
LEMMA CreateTagKeepsPromise ==
  ASSUME Inv, Inv', CallInv, NEW g \in Guids, CreateTag(g)
  PROVE  Promise!Next
<1>1. /\ TablesOK(tables) /\ op = "none" /\ args = <<>> /\ op' = op /\ args' = args
  BY DEF CreateTag, CallInv, Inv
<1>2. Calls = Promise!NoCall /\ Calls' = Calls
  <2>1. {args[i] : i \in DOMAIN args} = {}
    BY <1>1
  <2> QED BY <1>1, <2>1 DEF Calls, Promise!NoCall
<1>3. PICK i \in GroupCreateRow(tables, g) : tables' = UpdateRow(tables, i, g)
  BY DEF CreateTag
<1>4. PICK u : u = UpdateRow(tables, i, g)
  OBVIOUS
<1>5. /\ i \in Tags /\ u \in Tables /\ GuidsUnique(u) /\ u.groups[i] = g
      /\ \A k \in Tags : tables.groups[k] # NULL => u.groups[k] = tables.groups[k]
      /\ \A k \in Tags : k # i => u.groups[k] = tables.groups[k]
      /\ u.policies = tables.policies
  BY <1>1, <1>4, GroupCreateLemma DEF TablesOK
<1>6. All(u) = All(tables)
  <2>1. ASSUME NEW x \in tables.policies PROVE JoinRow(u, x) = JoinRow(tables, x)
    <3>1. /\ x.group \in Tags /\ x.destination.group \in Tags
          /\ tables.groups[x.group] # NULL /\ tables.groups[x.destination.group] # NULL
      BY <1>1 DEF TablesOK, Tables, PolicyRow, DestinationRow, ReferencesResolve
    <3> QED BY <1>5, <3>1 DEF JoinRow
  <2> QED BY <1>5, <2>1 DEF All
<1>7. Owners(u) = Owners(tables) \cup {g}
  <2>1. Owners(u) \subseteq Owners(tables) \cup {g}
    BY <1>5 DEF Owners
  <2>2. Owners(tables) \subseteq Owners(u) /\ g \in Owners(u)
    BY <1>5 DEF Owners
  <2> QED BY <2>1, <2>2
<1>8. /\ TagMap(u) \in [DOMAIN TagMap(tables) \cup {g} -> 1..NumTags]
      /\ DOMAIN TagMap(u) = DOMAIN TagMap(tables) \cup {g}
      /\ \A h \in DOMAIN TagMap(tables) : TagMap(u)[h] = TagMap(tables)[h]
      /\ \A h, m \in DOMAIN TagMap(u) : TagMap(u)[h] = TagMap(u)[m] => h = m
  BY <1>1, <1>5, <1>7, TagsExtend DEF TablesOK
<1>9. TagMap(tables)' = TagMap(u) /\ All(tables)' = All(u)
  BY <1>3, <1>4 DEF TagMap, TagsOf, All, JoinRow
<1>10. Promise!CreateTags({g})
  BY <1>8, <1>9 DEF Promise!CreateTags, Promise!Extends
<1>11. Promise!CreateTag(g)
  BY <1>2, <1>6, <1>9, <1>10 DEF Promise!CreateTag, Calls
<1> QED BY <1>11 DEF Promise!Next

\* Every step of the store is a step of PolicySpec, or invisible to it.
LEMMA StepKeepsPromise ==
  Inv /\ Inv' /\ CallInv /\ [Next]_vars => [Promise!Next]_(Promise!avars)
<1> SUFFICES ASSUME Inv, Inv', CallInv, [Next]_vars
             PROVE  Promise!Next \/ UNCHANGED Promise!avars
  OBVIOUS
<1>1. CASE \E ps \in Batches : Begin("create", ps) \/ Begin("delete", ps)
  BY <1>1, BeginAsks
<1>2. CASE CreateNext \/ DeleteNext
  BY <1>2, TurnStutters DEF CreateNext, DeleteNext
<1>3. CASE Commit
  <2>1. op = "create" \/ op = "delete"
    BY <1>3 DEF Commit, Inv, TypeOK
  <2> QED BY <1>3, <2>1, CommitCreates, CommitDeletes
<1>4. CASE Rollback
  BY <1>4, RollbackRefuses
<1>5. CASE \E g \in Guids : CreateTag(g)
  BY <1>5, CreateTagKeepsPromise
<1>6. CASE UNCHANGED vars
  BY <1>6, TurnStutters DEF vars
<1> QED
  BY <1>1, <1>2, <1>3, <1>4, <1>5, <1>6 DEF Next, BeginCreate, BeginDelete

\* Create, Delete and CreateTag are atomic: the store implements PolicySpec,
\* for any guids, services, number of tags and length of a list.
THEOREM StoreKeepsPromise == Spec => AtomicStore
<1>1. Init => CallInv
  BY DEF Init, CallInv
<1>2. Spec => []CallInv
  BY <1>1, CallInvNext, StoreInv, PTL DEF Spec
<1>3. Spec => []Inv
  BY StoreInv
<1> QED
  BY <1>2, <1>3, InitPromise, StepKeepsPromise, PTL DEF Spec, AtomicStore, Promise!Spec

=============================================================================
