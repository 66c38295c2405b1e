---------------------------- MODULE StoreTxProofs ----------------------------
(***************************************************************************)
(* Proofs about StoreTx, for any guids, services, number of tags, sessions *)
(* and calls: what the unique key and the row locks of the database give   *)
(* to transactions that overlap.                                           *)
(***************************************************************************)
EXTENDS StoreTx, SequenceTheorems, TLAPS

USE StoreTablesAssumption, StoreTxAssumption

---------------------------------------------------------------------------
(* Types *)

\* What a transaction has set groups.guid to.
Partial == UNION {[D -> Guids \cup {NULL}] : D \in SUBSET Tags}

Statements ==
  {"begin", "find", "blank", "update", "insertDest", "getDest", "insertPol", "deletePol",
   "countDest", "deleteDest", "countPol", "countDests", "free", "commit"}

Calls ==
  [op : {"idle", "create", "delete"}, todo : Seq(Policy), pc : Statements,
   side : {"src", "dst"}, src : Tags \cup {0}, dst : Tags \cup {0},
   snapshot : Tables]

Writes ==
  [groups : Partial, insD : SUBSET DestinationRow, delD : SUBSET DestinationRow,
   insP : SUBSET PolicyRow, delP : SUBSET PolicyRow]

Locks == [group : SUBSET Tags, share : SUBSET Tags, dest : SUBSET DestinationRow]

Types ==
  /\ committed \in Tables /\ call \in [Sessions -> Calls]
  /\ writes \in [Sessions -> Writes] /\ locks \in [Sessions -> Locks]
  /\ calls \in 0..MaxCalls

\* The rows that are known at a statement of call c.
RowsKnown(c) ==
  /\ c.pc \in {"find", "blank"} => (c.side = "dst" => c.src \in Tags)
  /\ c.pc = "update" => c.src \in Tags /\ (c.side = "dst" => c.dst \in Tags)
  /\ c.pc \notin {"find", "blank", "update", "commit"} => c.src \in Tags /\ c.dst \in Tags

Creates(c) ==
  c.op = "create" /\ c.pc \in {"find", "blank", "update", "insertDest", "getDest",
                               "insertPol", "commit"}
Deletes(c) ==
  c.op = "delete" /\ c.pc \in {"find", "getDest", "deletePol", "countDest", "deleteDest",
                               "countPol", "countDests", "free", "commit"}

\* Where a call is, and what it can have written.
Running(c, w) ==
  /\ Creates(c) \/ Deletes(c)
  /\ c.pc # "commit" => c.todo # <<>>
  /\ RowsKnown(c)
  /\ Creates(c) => w.delD = {} /\ w.delP = {}
  /\ Deletes(c) => w.insD = {} /\ w.insP = {}

SessionOK(c, w, l) == (c = Idle /\ w = NoWrites /\ l = NoLocks) \/ Running(c, w)

Shape == Types /\ \A s \in Sessions : SessionOK(call[s], writes[s], locks[s])

---------------------------------------------------------------------------
(* The groups *)

\* A row that a transaction has given a guid, or is about to, is locked.
GroupLocks ==
  /\ \A s \in Sessions : /\ DOMAIN writes[s].groups \subseteq locks[s].group
                         /\ call[s].pc = "update" => Row(s) \in locks[s].group
  /\ \A s, o \in Sessions : s # o => locks[s].group \cap locks[o].group = {}

\* The guid that s has given to row i is in no other row that s sees, and no
\* other transaction gives it to a row or takes it from one.
OwnGuid(s, i) ==
  writes[s].groups[i] # NULL =>
    /\ \A k \in Tags \ {i} : View(s).groups[k] # writes[s].groups[i]
    /\ \A o \in Sessions \ {s} : ~TouchesGuid(o, writes[s].groups[i])

Own == \A s \in Sessions : \A i \in DOMAIN writes[s].groups : OwnGuid(s, i)

Groups == GroupLocks /\ GuidHasOneTag /\ Own

---------------------------------------------------------------------------
(* The destinations *)

\* A policies row is added or deleted under the lock of its destination.
DestLocked(s) ==
  /\ \A r \in writes[s].insP \cup writes[s].delP : r.destination \in locks[s].dest
  /\ writes[s].delD \subseteq locks[s].dest
  /\ call[s].pc \in {"insertPol", "deletePol", "countDest", "deleteDest"} =>
       Dest(s) \in locks[s].dest

\* No two sessions lock or insert the same destination.
Apart ==
  \A s, o \in Sessions : s # o => /\ locks[s].dest \cap locks[o].dest = {}
                                  /\ writes[s].insD \cap writes[o].insD = {}

\* What s has inserted: a destination that was not there, and that gets its
\* policy before the commit; and policies whose destination is there.
Inserted(s) ==
  /\ writes[s].insD \cap committed.destinations = {}
  /\ \A d \in writes[s].insD :
       \/ \E r \in writes[s].insP : r.destination = d
       \/ call[s].pc \in {"getDest", "insertPol"} /\ d = Dest(s)
  /\ \A r \in writes[s].insP : r.destination \in committed.destinations \cup writes[s].insD
  /\ call[s].pc = "insertPol" => Dest(s) \in committed.destinations \cup writes[s].insD

\* What s has deleted: destinations with all their policies, and of no other
\* destination, once it is counted, all policies.
Deleted(s) ==
  /\ \A r \in committed.policies :
       /\ r.destination \in writes[s].delD => r \in writes[s].delP
       /\ call[s].pc = "deleteDest" /\ r.destination = Dest(s) => r \in writes[s].delP
  /\ \A d \in locks[s].dest \cap committed.destinations :
       \/ d \in writes[s].delD
       \/ \E r \in committed.policies : r \notin writes[s].delP /\ r.destination = d
       \/ call[s].pc \in {"countDest", "deleteDest"} /\ d = Dest(s)

Consistent ==
  /\ \A r \in committed.policies : r.destination \in committed.destinations
  /\ \A d \in committed.destinations : DestinationInUse(committed, d)

Rows(s) == DestLocked(s) /\ Inserted(s) /\ Deleted(s)

Destinations == Consistent /\ Apart /\ \A s \in Sessions : Rows(s)

---------------------------------------------------------------------------
(* What the operators on tables and functions give *)

LEMMA Merge ==
  ASSUME NEW f \in Partial, NEW i \in Tags, NEW g \in Guids \cup {NULL}
  PROVE  [k \in DOMAIN f \cup {i} |-> IF k = i THEN g ELSE f[k]] \in Partial
<1>1. PICK D \in SUBSET Tags : f \in [D -> Guids \cup {NULL}]
  BY DEF Partial
<1>2. D \cup {i} \in SUBSET Tags
  OBVIOUS
<1>3. [k \in DOMAIN f \cup {i} |-> IF k = i THEN g ELSE f[k]]
        \in [D \cup {i} -> Guids \cup {NULL}]
  BY <1>1
<1> QED
  BY <1>2, <1>3 DEF Partial

LEMMA PartialTypes ==
  ASSUME NEW f \in Partial
  PROVE  DOMAIN f \subseteq Tags /\ \A k \in DOMAIN f : f[k] \in Guids \cup {NULL}
BY DEF Partial

LEMMA NothingWritten ==
  /\ << >> \in Partial /\ DOMAIN << >> = {}
  /\ NoWrites \in Writes
  /\ NoLocks \in Locks
  /\ EmptyTables \in Tables
  /\ Idle \in Calls
<1>1. << >> \in Partial /\ DOMAIN << >> = {}
  BY DEF Partial
<1>2. NoWrites \in Writes
  BY <1>1 DEF NoWrites, Writes
<1>3. EmptyTables \in Tables
  BY DEF EmptyTables, Tables
<1> QED
  BY <1>1, <1>2, <1>3 DEF NoLocks, Locks, Idle, Calls, Statements

LEMMA OverlayTables ==
  ASSUME NEW t \in Tables, NEW w \in Writes
  PROVE  /\ Overlay(t, w) \in Tables
         /\ \A k \in Tags : Overlay(t, w).groups[k] =
              IF k \in DOMAIN w.groups THEN w.groups[k] ELSE t.groups[k]
         /\ Overlay(t, w).destinations = (t.destinations \cup w.insD) \ w.delD
         /\ Overlay(t, w).policies = (t.policies \cup w.insP) \ w.delP
         /\ DOMAIN w.groups \subseteq Tags
         /\ \A k \in DOMAIN w.groups : w.groups[k] \in Guids \cup {NULL}
<1>2. w.groups \in Partial /\ t.groups \in [Tags -> Guids \cup {NULL}]
  BY DEF Writes, Tables
<1>3. /\ DOMAIN w.groups \subseteq Tags
      /\ \A k \in DOMAIN w.groups : w.groups[k] \in Guids \cup {NULL}
  BY <1>2, PartialTypes
<1> DEFINE h == [k \in Tags |-> IF k \in DOMAIN w.groups THEN w.groups[k] ELSE t.groups[k]]
<1>4. Overlay(t, w) = [groups |-> h,
                       destinations |-> (t.destinations \cup w.insD) \ w.delD,
                       policies |-> (t.policies \cup w.insP) \ w.delP]
  BY DEF Overlay
<1>5. h \in [Tags -> Guids \cup {NULL}]
  BY <1>2, <1>3
<1>6. \A k \in Tags : h[k] = IF k \in DOMAIN w.groups THEN w.groups[k] ELSE t.groups[k]
  OBVIOUS
<1> HIDE DEF h
<1>7. /\ t.destinations \subseteq DestinationRow /\ t.policies \subseteq PolicyRow
      /\ w.insD \subseteq DestinationRow /\ w.insP \subseteq PolicyRow
  BY DEF Tables, Writes
<1>8. Overlay(t, w) \in Tables
  BY <1>4, <1>5, <1>7 DEF Tables
<1> QED
  BY <1>3, <1>4, <1>6, <1>8

LEMMA ViewTables ==
  ASSUME Types, NEW s \in Sessions
  PROVE  /\ View(s) \in Tables /\ Reads(s) \in Tables
         /\ \A k \in Tags : View(s).groups[k] =
              IF k \in DOMAIN writes[s].groups THEN writes[s].groups[k]
              ELSE committed.groups[k]
         /\ View(s).destinations =
              (committed.destinations \cup writes[s].insD) \ writes[s].delD
         /\ View(s).policies = (committed.policies \cup writes[s].insP) \ writes[s].delP
         /\ DOMAIN writes[s].groups \subseteq Tags
         /\ \A k \in DOMAIN writes[s].groups : writes[s].groups[k] \in Guids \cup {NULL}
<1>1. writes[s] \in Writes /\ committed \in Tables /\ call[s].snapshot \in Tables
  BY DEF Types, Calls
<1>2. View(s) \in Tables /\ Overlay(call[s].snapshot, writes[s]) \in Tables
  BY <1>1, OverlayTables DEF View
<1>3. Reads(s) \in Tables
  BY <1>2 DEF Reads
<1> DEFINE t == committed  w == writes[s]
<1>4. /\ \A k \in Tags : Overlay(t, w).groups[k] =
           IF k \in DOMAIN w.groups THEN w.groups[k] ELSE t.groups[k]
      /\ Overlay(t, w).destinations = (t.destinations \cup w.insD) \ w.delD
      /\ Overlay(t, w).policies = (t.policies \cup w.insP) \ w.delP
      /\ DOMAIN w.groups \subseteq Tags
      /\ \A k \in DOMAIN w.groups : w.groups[k] \in Guids \cup {NULL}
  <2> HIDE DEF t, w
  <2>1. t \in Tables /\ w \in Writes
    BY <1>1 DEF t, w
  <2> QED
    BY <2>1, OverlayTables
<1>5. View(s) = Overlay(t, w)
  BY DEF View
<1> QED
  BY <1>2, <1>3, <1>4, <1>5

\* What is known of the policy at hand and of its rows.
LEMMA CurrentTypes ==
  ASSUME Types, NEW s \in Sessions, call[s].todo # <<>>
  PROVE  /\ P(s) \in Policy /\ Guid(s) \in Guids
         /\ Tail(call[s].todo) \in Seq(Policy)
         /\ Len(call[s].todo) > 1 => Tail(call[s].todo) # <<>>
         /\ call[s].dst \in Tags => Dest(s) \in DestinationRow
         /\ call[s].src \in Tags /\ call[s].dst \in Tags => PolRow(s) \in PolicyRow
<1>1. call[s] \in Calls
  BY DEF Types
<1>2. call[s].todo \in Seq(Policy)
  BY <1>1 DEF Calls
<1>3. P(s) \in Policy
  BY <1>2, HeadTailProperties DEF P
<1>4. Tail(call[s].todo) \in Seq(Policy)
  BY <1>2, HeadTailProperties
<1>5. Len(call[s].todo) > 1 => Tail(call[s].todo) # <<>>
  <2>1. Len(Tail(call[s].todo)) = Len(call[s].todo) - 1
    BY <1>2, HeadTailProperties
  <2>2. Len(<<>>) = 0 /\ Len(call[s].todo) \in Nat
    BY <1>2, LenProperties, EmptySeq
  <2> QED
    BY <2>1, <2>2
<1>6. P(s).src \in Guids /\ P(s).dst \in Guids /\ P(s).svc \in Services
  BY <1>3 DEF Policy
<1>7. Guid(s) \in Guids
  BY <1>6 DEF Guid
<1>8. call[s].dst \in Tags => Dest(s) \in DestinationRow
  BY <1>6 DEF Dest, DestinationRow
<1>9. call[s].src \in Tags /\ call[s].dst \in Tags => PolRow(s) \in PolicyRow
  BY <1>8 DEF PolRow, PolicyRow
<1> QED
  BY <1>3, <1>4, <1>5, <1>7, <1>8, <1>9

---------------------------------------------------------------------------
(* A step of a session is its own: it keeps the types, the other sessions  *)
(* and where a call can be.                                                *)

Others(s) ==
  \A o \in Sessions \ {s} :
    call'[o] = call[o] /\ writes'[o] = writes[o] /\ locks'[o] = locks[o]

Local(s) == Types' /\ Others(s) /\ SessionOK(call'[s], writes'[s], locks'[s])

\* What the moves do to the call of s.
LEMMA GotoMoves ==
  ASSUME Types, NEW s \in Sessions, NEW pc \in Statements,
         Goto(s, pc)
  PROVE  /\ call' \in [Sessions -> Calls]
         /\ \A o \in Sessions \ {s} : call'[o] = call[o]
         /\ call'[s].op = call[s].op /\ call'[s].todo = call[s].todo
         /\ call'[s].pc = pc /\ call'[s].side = call[s].side
         /\ call'[s].src = call[s].src /\ call'[s].dst = call[s].dst
<1>1. call \in [Sessions -> Calls] /\ call[s] \in Calls
  BY DEF Types
<1> DEFINE c == [call[s] EXCEPT !.pc = pc]
<1>2. c \in Calls
  BY <1>1 DEF Calls
<1>3. /\ c.op = call[s].op /\ c.todo = call[s].todo
      /\ c.pc = pc /\ c.side = call[s].side
      /\ c.src = call[s].src /\ c.dst = call[s].dst
  BY <1>1 DEF Calls
<1>4. call' = [call EXCEPT ![s] = c]
  BY <1>1 DEF Goto
<1> HIDE DEF c
<1> QED
  BY <1>1, <1>2, <1>3, <1>4

LEMMA KeepMoves ==
  ASSUME Types, NEW s \in Sessions, NEW pc \in Statements, NEW i \in Tags,
         Keep(s, i, pc)
  PROVE  /\ call' \in [Sessions -> Calls]
         /\ \A o \in Sessions \ {s} : call'[o] = call[o]
         /\ call'[s].op = call[s].op /\ call'[s].todo = call[s].todo
         /\ call'[s].pc = pc /\ call'[s].side = call[s].side
         /\ call'[s].src = (IF call[s].side = "src" THEN i ELSE call[s].src)
         /\ call'[s].dst = (IF call[s].side = "dst" THEN i ELSE call[s].dst)
<1>1. call \in [Sessions -> Calls] /\ call[s] \in Calls
  BY DEF Types
<1> DEFINE c == [call[s] EXCEPT !.pc = pc,
                                !.src = IF call[s].side = "src" THEN i ELSE @,
                                !.dst = IF call[s].side = "dst" THEN i ELSE @]
<1>2. c \in Calls
  BY <1>1 DEF Calls
<1>3. /\ c.op = call[s].op /\ c.todo = call[s].todo
      /\ c.pc = pc /\ c.side = call[s].side
      /\ c.src = (IF call[s].side = "src" THEN i ELSE call[s].src)
      /\ c.dst = (IF call[s].side = "dst" THEN i ELSE call[s].dst)
  BY <1>1 DEF Calls
<1>4. call' = [call EXCEPT ![s] = c]
  BY <1>1 DEF Keep
<1> HIDE DEF c
<1> QED
  BY <1>1, <1>2, <1>3, <1>4

LEMMA ThenDstMovesOn ==
  ASSUME Types, NEW s \in Sessions, NEW pc \in Statements, NEW last,
         NEW i \in Tags, call[s].side = "src",
         ThenDst(s, i, pc, last)
  PROVE  /\ call' \in [Sessions -> Calls]
         /\ \A o \in Sessions \ {s} : call'[o] = call[o]
         /\ call'[s].op = call[s].op /\ call'[s].todo = call[s].todo
         /\ call'[s].pc = pc /\ call'[s].side = "dst"
         /\ call'[s].src = i /\ call'[s].dst = call[s].dst
<1>1. call \in [Sessions -> Calls] /\ call[s] \in Calls
  BY DEF Types
<1> DEFINE c == [call[s] EXCEPT !.pc = pc, !.side = "dst", !.src = i]
<1>2. c \in Calls
  BY <1>1 DEF Calls
<1>3. /\ c.op = call[s].op /\ c.todo = call[s].todo
      /\ c.pc = pc /\ c.side = "dst"
      /\ c.src = i /\ c.dst = call[s].dst
  BY <1>1 DEF Calls
<1>4. call' = [call EXCEPT ![s] = c]
  BY <1>1 DEF ThenDst
<1> HIDE DEF c
<1> QED
  BY <1>1, <1>2, <1>3, <1>4

LEMMA ThenDstMovesLast ==
  ASSUME Types, NEW s \in Sessions, NEW pc, NEW last \in Statements,
         NEW i \in Tags, call[s].side = "dst",
         ThenDst(s, i, pc, last)
  PROVE  /\ call' \in [Sessions -> Calls]
         /\ \A o \in Sessions \ {s} : call'[o] = call[o]
         /\ call'[s].op = call[s].op /\ call'[s].todo = call[s].todo
         /\ call'[s].pc = last /\ call'[s].side = "src"
         /\ call'[s].src = call[s].src /\ call'[s].dst = i
<1>1. call \in [Sessions -> Calls] /\ call[s] \in Calls
  BY DEF Types
<1> DEFINE c == [call[s] EXCEPT !.pc = last, !.side = "src", !.dst = i]
<1>2. c \in Calls
  BY <1>1 DEF Calls
<1>3. /\ c.op = call[s].op /\ c.todo = call[s].todo
      /\ c.pc = last /\ c.side = "src"
      /\ c.src = call[s].src /\ c.dst = i
  BY <1>1 DEF Calls
<1>4. call' = [call EXCEPT ![s] = c]
  BY <1>1 DEF ThenDst
<1> HIDE DEF c
<1> QED
  BY <1>1, <1>2, <1>3, <1>4

LEMMA NextPolicyMoves ==
  ASSUME Types, NEW s \in Sessions,
         call[s].todo # <<>>,
         NextPolicy(s)
  PROVE  /\ call' \in [Sessions -> Calls]
         /\ \A o \in Sessions \ {s} : call'[o] = call[o]
         /\ call'[s].op = call[s].op /\ call'[s].todo = Tail(call[s].todo)
         /\ call'[s].pc = (IF Len(call[s].todo) > 1 THEN "find" ELSE "commit")
         /\ call'[s].side = "src"
         /\ call'[s].src = 0 /\ call'[s].dst = 0
<1>1. call \in [Sessions -> Calls] /\ call[s] \in Calls
  BY DEF Types
<1> DEFINE c == [call[s] EXCEPT !.todo = Tail(@), !.side = "src", !.src = 0, !.dst = 0,
                                !.pc = IF Len(call[s].todo) > 1 THEN "find" ELSE "commit"]
<1>0. Tail(call[s].todo) \in Seq(Policy)
  BY CurrentTypes
<1>2. c \in Calls
  BY <1>1, <1>0 DEF Calls, Statements
<1>3. /\ c.op = call[s].op /\ c.todo = Tail(call[s].todo)
      /\ c.pc = (IF Len(call[s].todo) > 1 THEN "find" ELSE "commit")
      /\ c.side = "src"
      /\ c.src = 0 /\ c.dst = 0
  BY <1>1 DEF Calls
<1>4. call' = [call EXCEPT ![s] = c]
  BY <1>1 DEF NextPolicy
<1> HIDE DEF c
<1> QED
  BY <1>1, <1>2, <1>3, <1>4

\* What the statements do to the writes and the locks of s.
LEMMA WriteGroupWrites ==
  ASSUME Types, NEW s \in Sessions, NEW i \in Tags, NEW g \in Guids \cup {NULL},
         WriteGroup(s, i, g)
  PROVE  /\ writes' \in [Sessions -> Writes]
         /\ \A o \in Sessions \ {s} : writes'[o] = writes[o]
         /\ DOMAIN writes'[s].groups = DOMAIN writes[s].groups \cup {i}
         /\ \A k \in DOMAIN writes[s].groups \cup {i} :
              writes'[s].groups[k] = IF k = i THEN g ELSE writes[s].groups[k]
         /\ writes'[s].insD = writes[s].insD /\ writes'[s].delD = writes[s].delD
         /\ writes'[s].insP = writes[s].insP /\ writes'[s].delP = writes[s].delP
<1>1. writes \in [Sessions -> Writes] /\ writes[s] \in Writes
  BY DEF Types
<1> DEFINE h == [k \in DOMAIN writes[s].groups \cup {i} |->
                   IF k = i THEN g ELSE writes[s].groups[k]]
           w == [writes[s] EXCEPT !.groups = h]
<1>2. h \in Partial
  <2>1. writes[s].groups \in Partial
    BY <1>1 DEF Writes
  <2> QED
    BY <2>1, Merge
<1>3. DOMAIN h = DOMAIN writes[s].groups \cup {i}
  OBVIOUS
<1>4. \A k \in DOMAIN writes[s].groups \cup {i} :
        h[k] = IF k = i THEN g ELSE writes[s].groups[k]
  OBVIOUS
<1>5. writes' = [writes EXCEPT ![s] = w]
  BY <1>1 DEF WriteGroup
<1> HIDE DEF h
<1>6. /\ w \in Writes /\ w.groups = h
      /\ w.insD = writes[s].insD /\ w.delD = writes[s].delD
      /\ w.insP = writes[s].insP /\ w.delP = writes[s].delP
  BY <1>1, <1>2 DEF Writes
<1> HIDE DEF w
<1> QED
  BY <1>1, <1>3, <1>4, <1>5, <1>6

LEMMA LockGroupLocks ==
  ASSUME Types, NEW s \in Sessions, NEW i \in Tags, LockGroup(s, i)
  PROVE  /\ locks' \in [Sessions -> Locks]
         /\ \A o \in Sessions \ {s} : locks'[o] = locks[o]
         /\ locks'[s].group = locks[s].group \cup {i}
         /\ locks'[s].share = locks[s].share /\ locks'[s].dest = locks[s].dest
<1>1. locks \in [Sessions -> Locks] /\ locks[s] \in Locks
  BY DEF Types
<1> DEFINE l == [locks[s] EXCEPT !.group = @ \cup {i}]
<1>2. /\ l \in Locks /\ l.group = locks[s].group \cup {i}
      /\ l.share = locks[s].share /\ l.dest = locks[s].dest
  BY <1>1 DEF Locks
<1>3. locks' = [locks EXCEPT ![s] = l]
  BY <1>1 DEF LockGroup
<1> HIDE DEF l
<1> QED
  BY <1>1, <1>2, <1>3

LEMMA Share ==
  ASSUME Types, NEW s \in Sessions, NEW i \in Tags,
         KeyShare(s, i)
  PROVE  /\ locks' \in [Sessions -> Locks]
         /\ \A o \in Sessions \ {s} : locks'[o] = locks[o]
         /\ locks'[s].group = locks[s].group /\ locks'[s].dest = locks[s].dest
<1>1. locks \in [Sessions -> Locks] /\ locks[s] \in Locks
  BY DEF Types
<1> DEFINE l == [locks[s] EXCEPT !.share = @ \cup {i}]
<1>2. l \in Locks /\ l.group = locks[s].group /\ l.dest = locks[s].dest
  BY <1>1 DEF Locks
<1>3. locks' = locks \/ locks' = [locks EXCEPT ![s] = l]
  BY <1>1 DEF KeyShare
<1> HIDE DEF l
<1> QED
  BY <1>1, <1>2, <1>3

LEMMA LockDestLocks ==
  ASSUME Types, NEW s \in Sessions, Dest(s) \in View(s).destinations,
         locks' = [locks EXCEPT ![s].dest = @ \cup {Dest(s)}]
  PROVE  /\ locks' \in [Sessions -> Locks]
         /\ \A o \in Sessions \ {s} : locks'[o] = locks[o]
         /\ locks'[s].group = locks[s].group
         /\ locks'[s].dest = locks[s].dest \cup {Dest(s)}
         /\ Dest(s) \in View(s).destinations
<1>1. locks \in [Sessions -> Locks] /\ locks[s] \in Locks
  BY DEF Types
<1> DEFINE l == [locks[s] EXCEPT !.dest = @ \cup {Dest(s)}]
<1>2. Dest(s) \in DestinationRow /\ Dest(s) \in View(s).destinations
  <2>1. View(s) \in Tables
    BY ViewTables
  <2>2. View(s).destinations \subseteq DestinationRow
    BY <2>1 DEF Tables
  <2> QED
    BY <2>2
<1>3. /\ l \in Locks /\ l.group = locks[s].group
      /\ l.dest = locks[s].dest \cup {Dest(s)}
  BY <1>1, <1>2 DEF Locks
<1>4. locks' = [locks EXCEPT ![s] = l]
  BY <1>1
<1> HIDE DEF l
<1> QED
  BY <1>1, <1>2, <1>3, <1>4

LEMMA DestWrites ==
  ASSUME Types, NEW s \in Sessions, NEW ins \in SUBSET DestinationRow,
         NEW del \in SUBSET DestinationRow,
         writes' = [writes EXCEPT ![s].insD = ins, ![s].delD = del]
  PROVE  /\ writes' \in [Sessions -> Writes]
         /\ \A o \in Sessions \ {s} : writes'[o] = writes[o]
         /\ writes'[s].groups = writes[s].groups
         /\ writes'[s].insD = ins /\ writes'[s].delD = del
         /\ writes'[s].insP = writes[s].insP /\ writes'[s].delP = writes[s].delP
<1>1. writes \in [Sessions -> Writes] /\ writes[s] \in Writes
  BY DEF Types
<1> DEFINE w == [writes[s] EXCEPT !.insD = ins, !.delD = del]
<1>2. /\ w \in Writes /\ w.groups = writes[s].groups /\ w.insD = ins /\ w.delD = del
      /\ w.insP = writes[s].insP /\ w.delP = writes[s].delP
  BY <1>1 DEF Writes
<1>3. writes' = [writes EXCEPT ![s] = w]
  BY <1>1
<1> HIDE DEF w
<1> QED
  BY <1>1, <1>2, <1>3

\* A step that leaves the groups alone, and one that leaves the destinations
\* and the policies alone.
GroupQuiet(s) ==
  /\ committed' = committed /\ writes'[s].groups = writes[s].groups
  /\ locks'[s].group = locks[s].group /\ call'[s].pc # "update"

DestQuiet(s) ==
  /\ committed' = committed /\ locks'[s].dest = locks[s].dest
  /\ writes'[s].insD = writes[s].insD /\ writes'[s].delD = writes[s].delD
  /\ writes'[s].insP = writes[s].insP /\ writes'[s].delP = writes[s].delP
  /\ call[s].pc \notin {"getDest", "insertPol", "countDest", "deleteDest"}
  /\ call'[s].pc \notin {"insertPol", "deletePol", "countDest", "deleteDest"}

LEMMA BegunRuns ==
  ASSUME Shape, NEW s \in Sessions, call[s].op # "idle"
  PROVE  /\ Types /\ Running(call[s], writes[s])
         /\ call[s] \in Calls /\ writes[s] \in Writes /\ locks[s] \in Locks
<1>1. Types /\ SessionOK(call[s], writes[s], locks[s])
  BY DEF Shape
<1>2. call[s] # Idle
  BY DEF Idle
<1>3. Running(call[s], writes[s])
  BY <1>1, <1>2 DEF SessionOK
<1>4. call[s] \in Calls /\ writes[s] \in Writes /\ locks[s] \in Locks
  BY <1>1 DEF Types
<1> QED
  BY <1>1, <1>3, <1>4

LEMMA FindRowByGUIDStep ==
  ASSUME Shape, NEW s \in Sessions, FindRowByGUID(s)
  PROVE  Local(s) /\ GroupQuiet(s) /\ DestQuiet(s)
<1>1. At(s, "create", "find") /\ UNCHANGED <<committed, writes, locks, calls>>
  BY DEF FindRowByGUID
<1>2. /\ Types /\ Running(call[s], writes[s]) /\ call[s] \in Calls
  BY <1>1, BegunRuns DEF At
<1>3. /\ call[s].op = "create" /\ call[s].pc = "find" /\ call[s].todo # <<>>
      /\ call[s].side \in {"src", "dst"} /\ (call[s].side = "dst" => call[s].src \in Tags)
      /\ writes[s].delD = {} /\ writes[s].delP = {}
  BY <1>1, <1>2 DEF At, Running, RowsKnown, Creates, Calls
<1>4. /\ call' \in [Sessions -> Calls]
      /\ \A o \in Sessions \ {s} : call'[o] = call[o]
      /\ call'[s].op = "create" /\ call'[s].todo = call[s].todo
      /\ \/ call'[s].pc = "blank" /\ call'[s].side = call[s].side /\ call'[s].src = call[s].src
         \/ call'[s].pc = "find" /\ call'[s].side = "dst" /\ call'[s].src \in Tags
         \/ call'[s].pc = "insertDest" /\ call'[s].src \in Tags /\ call'[s].dst \in Tags
  <2>1. CASE Goto(s, "blank")
    <3>1. "blank" \in Statements
      BY DEF Statements
    <3> QED
      BY <1>2, <1>3, <2>1, <3>1, GotoMoves
  <2>2. CASE \E i \in RowsOf(Reads(s), Guid(s)) : ThenDst(s, i, "find", "insertDest")
    <3>1. PICK i \in Tags : ThenDst(s, i, "find", "insertDest")
      BY <2>2 DEF RowsOf
    <3>2. "find" \in Statements /\ "insertDest" \in Statements
      BY DEF Statements
    <3>3. CASE call[s].side = "src"
      BY <1>2, <1>3, <3>1, <3>2, <3>3, ThenDstMovesOn
    <3>4. CASE call[s].side = "dst"
      BY <1>2, <1>3, <3>1, <3>2, <3>4, ThenDstMovesLast
    <3> QED
      BY <1>3, <3>3, <3>4
  <2> QED
    BY <2>1, <2>2 DEF FindRowByGUID
<1>5. Running(call'[s], writes'[s])
  BY <1>1, <1>3, <1>4 DEF Running, RowsKnown, Creates, Deletes
<1>6. Types' /\ Others(s)
  BY <1>1, <1>2, <1>4 DEF Types, Others
<1> QED
  BY <1>1, <1>3, <1>4, <1>5, <1>6 DEF Local, SessionOK, GroupQuiet, DestQuiet

\* A session that no lock keeps waiting.
LEMMA NotBlocked ==
  ASSUME NEW s \in Sessions, Blockers(s) = {}, NEW o \in Sessions \ {s}
  PROVE  /\ call[s].pc \in {"blank", "free"} =>
              Wanted(s) \cap (locks[o].group \cup locks[o].share) = {}
         /\ call[s].pc = "update" => ~TouchesGuid(o, Guid(s))
         /\ call[s].pc = "insertDest" =>
              Dest(s) \in View(s).destinations \/ Dest(s) \notin writes[o].insD
         /\ call[s].pc = "getDest" => driver = "mysql" \/ Dest(s) \notin locks[o].dest
<1>1. ~Blocks(o, s)
  BY DEF Blockers
<1>2. call[s].pc \in {"blank", "free"} =>
        Wanted(s) \cap (locks[o].group \cup locks[o].share) = {}
  BY <1>1 DEF Blocks, ChangedDests, MySQL
<1>3. call[s].pc = "update" => ~TouchesGuid(o, Guid(s))
  BY <1>1 DEF Blocks, ChangedDests, MySQL
<1>4. call[s].pc = "insertDest" =>
        Dest(s) \in View(s).destinations \/ Dest(s) \notin writes[o].insD
  BY <1>1 DEF Blocks, ChangedDests, MySQL
<1>5. call[s].pc = "getDest" => driver = "mysql" \/ Dest(s) \notin locks[o].dest
  BY <1>1 DEF Blocks, ChangedDests, MySQL
<1> QED
  BY <1>2, <1>3, <1>4, <1>5

\* On to the next policy, or to the other group.
GoesOn(s) ==
  /\ call' \in [Sessions -> Calls]
  /\ \A o \in Sessions \ {s} : call'[o] = call[o]
  /\ call'[s].op = call[s].op /\ call'[s].pc \in {"countPol", "find", "commit"}
  /\ call'[s].pc = "countPol" => call[s].op = "delete"
  /\ call'[s].pc # "commit" => call'[s].todo # <<>>
  /\ RowsKnown(call'[s])

LEMMA NextPolicyGoesOn ==
  ASSUME Types, NEW s \in Sessions, call[s].todo # <<>>, NextPolicy(s)
  PROVE  GoesOn(s) /\ call'[s].pc # "countPol"
<1>1. Len(call[s].todo) > 1 => Tail(call[s].todo) # <<>>
  BY CurrentTypes
<1>2. /\ call' \in [Sessions -> Calls]
      /\ \A o \in Sessions \ {s} : call'[o] = call[o]
      /\ call'[s].op = call[s].op /\ call'[s].todo = Tail(call[s].todo)
      /\ call'[s].pc = (IF Len(call[s].todo) > 1 THEN "find" ELSE "commit")
      /\ call'[s].side = "src"
  BY NextPolicyMoves
<1>3. RowsKnown(call'[s])
  BY <1>2 DEF RowsKnown
<1> QED
  BY <1>1, <1>2, <1>3 DEF GoesOn

LEMMA AfterGroupGoesOn ==
  ASSUME Types, NEW s \in Sessions, call[s].todo # <<>>, call[s].op = "delete",
         call[s].src \in Tags, call[s].dst \in Tags, AfterGroup(s)
  PROVE  GoesOn(s)
<1>1. CASE call[s].side = "src"
  <2>1. call \in [Sessions -> Calls] /\ call[s] \in Calls
    BY DEF Types
  <2> DEFINE c == [call[s] EXCEPT !.pc = "countPol", !.side = "dst"]
  <2>2. /\ c \in Calls /\ c.op = call[s].op /\ c.pc = "countPol" /\ c.todo = call[s].todo
        /\ c.src = call[s].src /\ c.dst = call[s].dst
    BY <2>1 DEF Calls, Statements
  <2>3. call' = [call EXCEPT ![s] = c]
    BY <1>1, <2>1 DEF AfterGroup
  <2> HIDE DEF c
  <2>4. call' \in [Sessions -> Calls] /\ call'[s] = c
    BY <2>1, <2>2, <2>3
  <2>5. \A o \in Sessions \ {s} : call'[o] = call[o]
    BY <2>1, <2>3
  <2>6. RowsKnown(c)
    BY <2>2 DEF RowsKnown
  <2> QED
    BY <2>2, <2>4, <2>5, <2>6 DEF GoesOn
<1>2. CASE call[s].side # "src"
  BY <1>2, NextPolicyGoesOn DEF AfterGroup
<1> QED
  BY <1>1, <1>2

\* What every action below shows of itself.
LEMMA LocalStep ==
  ASSUME Types, NEW s \in Sessions, calls' \in 0..MaxCalls, committed' \in Tables,
         call' \in [Sessions -> Calls], \A o \in Sessions \ {s} : call'[o] = call[o],
         writes' \in [Sessions -> Writes], \A o \in Sessions \ {s} : writes'[o] = writes[o],
         locks' \in [Sessions -> Locks], \A o \in Sessions \ {s} : locks'[o] = locks[o],
         Running(call'[s], writes'[s])
  PROVE  Local(s)
BY DEF Local, Types, Others, SessionOK

LEMMA FirstBlankStep ==
  ASSUME Shape, NEW s \in Sessions, FirstBlank(s)
  PROVE  /\ Local(s) /\ DestQuiet(s) /\ writes' = writes
         /\ call'[s].pc = "update"
         /\ \E i \in Tags : /\ locks'[s].group = locks[s].group \cup {i}
                            /\ (IF call'[s].side = "src" THEN call'[s].src
                                ELSE call'[s].dst) = i
                            /\ \A o \in Sessions \ {s} : i \notin locks[o].group
<1>1. /\ At(s, "create", "blank") /\ Blockers(s) = {}
      /\ UNCHANGED <<committed, writes, calls>>
  BY DEF FirstBlank, Runs
<1>2. Types /\ Running(call[s], writes[s]) /\ call[s] \in Calls
  BY <1>1, BegunRuns DEF At
<1>3. /\ call[s].op = "create" /\ call[s].pc = "blank" /\ call[s].todo # <<>>
      /\ call[s].side \in {"src", "dst"} /\ (call[s].side = "dst" => call[s].src \in Tags)
      /\ writes[s].delD = {} /\ writes[s].delP = {}
  BY <1>1, <1>2 DEF At, Running, RowsKnown, Creates, Calls
<1>4. PICK i \in FirstBlankRow(View(s)) : Keep(s, i, "update") /\ LockGroup(s, i)
  BY DEF FirstBlank
<1>5. i \in Tags
  BY DEF FirstBlankRow, RowsOf
<1>6. "update" \in Statements
  BY DEF Statements
<1>7. /\ call' \in [Sessions -> Calls]
      /\ \A o \in Sessions \ {s} : call'[o] = call[o]
      /\ call'[s].op = call[s].op /\ call'[s].todo = call[s].todo
      /\ call'[s].pc = "update" /\ call'[s].side = call[s].side
      /\ call'[s].src = (IF call[s].side = "src" THEN i ELSE call[s].src)
      /\ call'[s].dst = (IF call[s].side = "dst" THEN i ELSE call[s].dst)
  BY <1>2, <1>4, <1>5, <1>6, KeepMoves
<1>8. /\ locks' \in [Sessions -> Locks]
      /\ \A o \in Sessions \ {s} : locks'[o] = locks[o]
      /\ locks'[s].group = locks[s].group \cup {i} /\ locks'[s].dest = locks[s].dest
  BY <1>2, <1>4, <1>5, LockGroupLocks
<1>9. \A o \in Sessions \ {s} : i \notin locks[o].group
  BY <1>1, <1>3, NotBlocked DEF Wanted
<1>10. Running(call'[s], writes'[s])
  BY <1>1, <1>3, <1>5, <1>7 DEF Running, RowsKnown, Creates, Deletes
<1>11. Local(s)
  BY <1>1, <1>2, <1>7, <1>8, <1>10, LocalStep DEF Types
<1>12. DestQuiet(s)
  BY <1>1, <1>3, <1>7, <1>8 DEF DestQuiet
<1>13. (IF call'[s].side = "src" THEN call'[s].src ELSE call'[s].dst) = i
  BY <1>3, <1>7
<1> QED
  BY <1>1, <1>5, <1>7, <1>8, <1>9, <1>11, <1>12, <1>13

LEMMA UpdateStep ==
  ASSUME Shape, NEW s \in Sessions, Update(s)
  PROVE  /\ Local(s) /\ DestQuiet(s) /\ locks' = locks
         /\ call[s].pc = "update" /\ call'[s].pc # "update"
         /\ Row(s) \in Tags /\ Guid(s) \in Guids
         /\ WriteGroup(s, Row(s), Guid(s))
         /\ RowsOf(View(s), Guid(s)) = {}
         /\ \A o \in Sessions \ {s} : ~TouchesGuid(o, Guid(s))
<1>1. /\ At(s, "create", "update") /\ Blockers(s) = {}
      /\ RowsOf(View(s), Guid(s)) = {}
      /\ WriteGroup(s, Row(s), Guid(s)) /\ ThenDst(s, Row(s), "find", "insertDest")
      /\ UNCHANGED <<committed, locks, calls>>
  BY DEF Update, Runs
<1>2. Types /\ Running(call[s], writes[s]) /\ call[s] \in Calls
  BY <1>1, BegunRuns DEF At
<1>3. /\ call[s].op = "create" /\ call[s].pc = "update" /\ call[s].todo # <<>>
      /\ call[s].side \in {"src", "dst"} /\ call[s].src \in Tags
      /\ (call[s].side = "dst" => call[s].dst \in Tags)
      /\ writes[s].delD = {} /\ writes[s].delP = {}
  BY <1>1, <1>2 DEF At, Running, RowsKnown, Creates, Calls
<1>4. Row(s) \in Tags /\ Guid(s) \in Guids
  BY <1>2, <1>3, CurrentTypes DEF Row
<1>5. PICK i \in Tags : i = Row(s)
  BY <1>4
<1>6. PICK g \in Guids : g = Guid(s)
  BY <1>4
<1>7. "find" \in Statements /\ "insertDest" \in Statements
  BY DEF Statements
<1>8. /\ call' \in [Sessions -> Calls]
      /\ \A o \in Sessions \ {s} : call'[o] = call[o]
      /\ call'[s].op = "create" /\ call'[s].todo = call[s].todo
      /\ \/ call'[s].pc = "find" /\ call'[s].side = "dst" /\ call'[s].src \in Tags
         \/ call'[s].pc = "insertDest" /\ call'[s].src \in Tags /\ call'[s].dst \in Tags
  <2>1. ThenDst(s, i, "find", "insertDest")
    BY <1>1, <1>5
  <2>2. CASE call[s].side = "src"
    BY <1>2, <1>3, <1>7, <2>1, <2>2, ThenDstMovesOn
  <2>3. CASE call[s].side = "dst"
    BY <1>2, <1>3, <1>7, <2>1, <2>3, ThenDstMovesLast
  <2> QED
    BY <1>3, <2>2, <2>3
<1>9. /\ writes' \in [Sessions -> Writes]
      /\ \A o \in Sessions \ {s} : writes'[o] = writes[o]
      /\ writes'[s].insD = writes[s].insD /\ writes'[s].delD = writes[s].delD
      /\ writes'[s].insP = writes[s].insP /\ writes'[s].delP = writes[s].delP
  <2>1. WriteGroup(s, i, g)
    BY <1>1, <1>5, <1>6
  <2> QED
    BY <1>2, <2>1, WriteGroupWrites
<1>10. Running(call'[s], writes'[s])
  BY <1>3, <1>8, <1>9 DEF Running, RowsKnown, Creates, Deletes
<1>11. Local(s)
  BY <1>1, <1>2, <1>8, <1>9, <1>10, LocalStep DEF Types
<1>12. DestQuiet(s)
  BY <1>1, <1>3, <1>8, <1>9 DEF DestQuiet
<1>13. \A o \in Sessions \ {s} : ~TouchesGuid(o, Guid(s))
  BY <1>1, <1>3, NotBlocked
<1> QED
  BY <1>1, <1>3, <1>4, <1>8, <1>11, <1>12, <1>13

\* The policy at hand where both its rows are known.
LEMMA AtRows ==
  ASSUME Shape, NEW s \in Sessions, NEW op \in {"create", "delete"}, At(s, op, call[s].pc),
         call[s].pc \notin {"find", "blank", "update", "commit"}
  PROVE  /\ Types /\ Running(call[s], writes[s]) /\ call[s] \in Calls
         /\ call[s].op = op /\ call[s].todo # <<>>
         /\ call[s].src \in Tags /\ call[s].dst \in Tags
         /\ call[s].side \in {"src", "dst"}
         /\ P(s) \in Policy /\ Dest(s) \in DestinationRow /\ PolRow(s) \in PolicyRow
         /\ PolRow(s).destination = Dest(s)
         /\ writes[s].insD \subseteq DestinationRow /\ writes[s].delD \subseteq DestinationRow
         /\ writes[s].insP \subseteq PolicyRow /\ writes[s].delP \subseteq PolicyRow
         /\ op = "create" => writes[s].delD = {} /\ writes[s].delP = {}
         /\ op = "delete" => writes[s].insD = {} /\ writes[s].insP = {}
<1>1. call[s].op = op
  BY DEF At
<1>2. /\ Types /\ Running(call[s], writes[s]) /\ call[s] \in Calls /\ writes[s] \in Writes
  BY <1>1, BegunRuns
<1>3. /\ call[s].todo # <<>> /\ call[s].src \in Tags /\ call[s].dst \in Tags
      /\ op = "create" => writes[s].delD = {} /\ writes[s].delP = {}
      /\ op = "delete" => writes[s].insD = {} /\ writes[s].insP = {}
  BY <1>1, <1>2 DEF Running, RowsKnown, Creates, Deletes
<1>4. P(s) \in Policy /\ Dest(s) \in DestinationRow /\ PolRow(s) \in PolicyRow
  BY <1>2, <1>3, CurrentTypes
<1>5. /\ writes[s].insD \subseteq DestinationRow /\ writes[s].delD \subseteq DestinationRow
      /\ writes[s].insP \subseteq PolicyRow /\ writes[s].delP \subseteq PolicyRow
  BY <1>2 DEF Writes
<1>6. call[s].side \in {"src", "dst"}
  BY <1>2 DEF Calls
<1>7. PolRow(s).destination = Dest(s)
  BY DEF PolRow
<1> QED
  BY <1>1, <1>2, <1>3, <1>4, <1>5, <1>6, <1>7

\* A move to the next statement for the same policy.
LEMMA GotoKeeps ==
  ASSUME Types, NEW s \in Sessions, NEW pc \in Statements, Goto(s, pc)
  PROVE  /\ Dest(s)' = Dest(s) /\ PolRow(s)' = PolRow(s)
         /\ call' \in [Sessions -> Calls]
         /\ \A o \in Sessions \ {s} : call'[o] = call[o]
         /\ call'[s].op = call[s].op /\ call'[s].todo = call[s].todo /\ call'[s].pc = pc
         /\ call'[s].src = call[s].src /\ call'[s].dst = call[s].dst
<1>1. /\ call' \in [Sessions -> Calls]
      /\ \A o \in Sessions \ {s} : call'[o] = call[o]
      /\ call'[s].op = call[s].op /\ call'[s].todo = call[s].todo
      /\ call'[s].pc = pc /\ call'[s].side = call[s].side
      /\ call'[s].src = call[s].src /\ call'[s].dst = call[s].dst
  BY GotoMoves
<1>2. P(s)' = P(s)
  BY <1>1 DEF P
<1>3. Dest(s)' = Dest(s)
  BY <1>1, <1>2 DEF Dest
<1>4. PolRow(s)' = PolRow(s)
  BY <1>1, <1>3 DEF PolRow
<1> QED
  BY <1>1, <1>3, <1>4

LEMMA InsertDestStep ==
  ASSUME Shape, NEW s \in Sessions, InsertDest(s)
  PROVE  /\ Local(s) /\ GroupQuiet(s)
         /\ driver = "mysql" \/ locks'[s].dest = locks[s].dest
         /\ call[s].op = "create" /\ call[s].pc = "insertDest" /\ call'[s].pc = "getDest"
         /\ Dest(s)' = Dest(s)
         /\ writes'[s].insP = writes[s].insP /\ writes'[s].delP = writes[s].delP
         /\ writes[s].delD = {} /\ writes'[s].delD = {} /\ writes[s].delP = {}
         /\ \/ writes'[s].insD = writes[s].insD
            \/ /\ Dest(s) \notin View(s).destinations
               /\ writes'[s].insD = writes[s].insD \cup {Dest(s)}
               /\ \A o \in Sessions \ {s} : Dest(s) \notin writes[o].insD
<1>1. /\ At(s, "create", "insertDest") /\ Blockers(s) = {} /\ Goto(s, "getDest")
      /\ UNCHANGED <<committed, calls>>
  BY DEF InsertDest, Runs
<1>2. call[s].op = "create" /\ call[s].pc = "insertDest" /\ At(s, "create", call[s].pc)
  BY <1>1 DEF At
<1>3. /\ Types /\ Dest(s) \in DestinationRow /\ call[s].todo # <<>>
      /\ call[s].src \in Tags /\ call[s].dst \in Tags
      /\ writes[s].insD \subseteq DestinationRow
      /\ writes[s].delD = {} /\ writes[s].delP = {}
  BY <1>2, AtRows
<1>4. /\ Dest(s)' = Dest(s) /\ call' \in [Sessions -> Calls]
      /\ \A o \in Sessions \ {s} : call'[o] = call[o]
      /\ call'[s].op = call[s].op /\ call'[s].todo = call[s].todo /\ call'[s].pc = "getDest"
      /\ call'[s].src = call[s].src /\ call'[s].dst = call[s].dst
  <2>1. "getDest" \in Statements
    BY DEF Statements
  <2> QED
    BY <1>1, <1>3, <2>1, GotoKeeps
<1>5. /\ writes' \in [Sessions -> Writes] /\ locks' \in [Sessions -> Locks]
      /\ \A o \in Sessions \ {s} : writes'[o] = writes[o] /\ locks'[o] = locks[o]
      /\ writes'[s].groups = writes[s].groups /\ writes'[s].delD = {}
      /\ writes'[s].insP = writes[s].insP /\ writes'[s].delP = writes[s].delP
      /\ locks'[s].group = locks[s].group
      /\ driver = "mysql" \/ locks'[s].dest = locks[s].dest
      /\ \/ writes'[s].insD = writes[s].insD
         \/ /\ Dest(s) \notin View(s).destinations
            /\ writes'[s].insD = writes[s].insD \cup {Dest(s)}
            /\ \A o \in Sessions \ {s} : Dest(s) \notin writes[o].insD
  <2>1. CASE Dest(s) \in View(s).destinations
    <3>1. /\ writes' = writes
          /\ \/ driver # "mysql" /\ locks' = locks
             \/ /\ driver = "mysql"
                /\ locks' = [locks EXCEPT ![s].dest = @ \cup {Dest(s)}]
      BY <2>1 DEF InsertDest, MySQL
    <3>2. /\ locks' \in [Sessions -> Locks] /\ locks'[s].group = locks[s].group
          /\ \A o \in Sessions \ {s} : locks'[o] = locks[o]
      BY <1>3, <2>1, <3>1, LockDestLocks DEF Types
    <3> QED
      BY <1>3, <3>1, <3>2 DEF Types
  <2>2. CASE Dest(s) \notin View(s).destinations
    <3>1. /\ writes' = [writes EXCEPT ![s].insD = @ \cup {Dest(s)},
                                      ![s].delD = @ \ {Dest(s)}]
          /\ KeyShare(s, call[s].dst)
      BY <2>2 DEF InsertDest
    <3>2. PICK ins \in SUBSET DestinationRow : ins = writes[s].insD \cup {Dest(s)}
      BY <1>3
    <3>3. PICK del \in SUBSET DestinationRow : del = {}
      OBVIOUS
    <3>4. PICK j \in Tags : j = call[s].dst
      BY <1>3
    <3>5. writes[s].delD \ {Dest(s)} = del
      BY <1>3, <3>3
    <3>6. writes \in [Sessions -> Writes] /\ writes[s] \in Writes
      BY <1>3 DEF Types
    <3>7. writes' = [writes EXCEPT ![s].insD = ins, ![s].delD = del]
      BY <3>1, <3>2, <3>5, <3>6 DEF Writes
    <3>8. KeyShare(s, j)
      BY <3>1, <3>4
    <3>9. /\ writes' \in [Sessions -> Writes]
          /\ \A o \in Sessions \ {s} : writes'[o] = writes[o]
          /\ writes'[s].groups = writes[s].groups
          /\ writes'[s].insD = ins /\ writes'[s].delD = del
          /\ writes'[s].insP = writes[s].insP /\ writes'[s].delP = writes[s].delP
      BY <1>3, <3>7, DestWrites
    <3>10. /\ locks' \in [Sessions -> Locks]
           /\ \A o \in Sessions \ {s} : locks'[o] = locks[o]
           /\ locks'[s].group = locks[s].group /\ locks'[s].dest = locks[s].dest
      BY <1>3, <3>8, Share
    <3>11. \A o \in Sessions \ {s} : Dest(s) \notin writes[o].insD
      BY <1>1, <1>2, <2>2, NotBlocked
    <3> QED
      BY <2>2, <3>2, <3>3, <3>9, <3>10, <3>11
  <2> QED
    BY <2>1, <2>2
<1>6. Running(call'[s], writes'[s])
  BY <1>2, <1>3, <1>4, <1>5 DEF Running, RowsKnown, Creates, Deletes
<1>7. Local(s)
  BY <1>1, <1>3, <1>4, <1>5, <1>6, LocalStep DEF Types
<1>8. GroupQuiet(s)
  BY <1>1, <1>4, <1>5 DEF GroupQuiet
<1> QED
  BY <1>1, <1>2, <1>3, <1>4, <1>5, <1>7, <1>8

LEMMA CreateGetDestStep ==
  ASSUME Shape, NEW s \in Sessions, CreateGetDest(s)
  PROVE  /\ Local(s) /\ GroupQuiet(s) /\ writes' = writes
         /\ call[s].op = "create" /\ call[s].pc = "getDest" /\ call'[s].pc = "insertPol"
         /\ Dest(s)' = Dest(s) /\ Dest(s) \in View(s).destinations
         /\ locks'[s].dest = locks[s].dest \cup {Dest(s)}
         /\ writes[s].delD = {} /\ writes[s].delP = {}
         /\ driver = "mysql" \/ \A o \in Sessions \ {s} : Dest(s) \notin locks[o].dest
<1>1. /\ At(s, "create", "getDest") /\ Blockers(s) = {} /\ LockDest(s, "insertPol")
      /\ UNCHANGED <<committed, writes, calls>>
  BY DEF CreateGetDest, Runs
<1>2. call[s].op = "create" /\ call[s].pc = "getDest" /\ At(s, "create", call[s].pc)
  BY <1>1 DEF At
<1>3. /\ Types /\ call[s].todo # <<>> /\ call[s].src \in Tags /\ call[s].dst \in Tags
      /\ writes[s].delD = {} /\ writes[s].delP = {}
  BY <1>2, AtRows
<1>4. "insertPol" \in Statements
  BY DEF Statements
<1>5. /\ Dest(s)' = Dest(s) /\ call' \in [Sessions -> Calls]
      /\ \A o \in Sessions \ {s} : call'[o] = call[o]
      /\ call'[s].op = call[s].op /\ call'[s].todo = call[s].todo /\ call'[s].pc = "insertPol"
      /\ call'[s].src = call[s].src /\ call'[s].dst = call[s].dst
  <2>1. Goto(s, "insertPol")
    BY <1>1 DEF LockDest
  <2> QED
    BY <1>3, <1>4, <2>1, GotoKeeps
<1>6. /\ locks' \in [Sessions -> Locks]
      /\ \A o \in Sessions \ {s} : locks'[o] = locks[o]
      /\ locks'[s].group = locks[s].group
      /\ locks'[s].dest = locks[s].dest \cup {Dest(s)}
      /\ Dest(s) \in View(s).destinations
  BY <1>1, <1>3, LockDestLocks DEF LockDest
<1>7. Running(call'[s], writes'[s])
  BY <1>1, <1>2, <1>3, <1>5 DEF Running, RowsKnown, Creates, Deletes
<1>8. Local(s)
  BY <1>1, <1>3, <1>5, <1>6, <1>7, LocalStep DEF Types
<1>9. GroupQuiet(s)
  BY <1>1, <1>5, <1>6 DEF GroupQuiet
<1>10. driver = "mysql" \/ \A o \in Sessions \ {s} : Dest(s) \notin locks[o].dest
  BY <1>1, <1>2, NotBlocked
<1> QED
  BY <1>1, <1>2, <1>3, <1>5, <1>6, <1>8, <1>9, <1>10

LEMMA InsertPolStep ==
  ASSUME Shape, NEW s \in Sessions, InsertPol(s)
  PROVE  /\ Local(s) /\ GroupQuiet(s) /\ locks'[s].dest = locks[s].dest
         /\ call[s].op = "create" /\ call[s].pc = "insertPol"
         /\ call'[s].pc \in {"find", "commit"}
         /\ PolRow(s) \in PolicyRow /\ PolRow(s).destination = Dest(s)
         /\ writes'[s].insD = writes[s].insD
         /\ writes[s].delD = {} /\ writes'[s].delD = {}
         /\ writes[s].delP = {} /\ writes'[s].delP = {}
         /\ \/ PolRow(s) \in View(s).policies /\ writes'[s].insP = writes[s].insP
            \/ writes'[s].insP = writes[s].insP \cup {PolRow(s)}
<1>1. At(s, "create", "insertPol") /\ NextPolicy(s) /\ UNCHANGED <<committed, calls>>
  BY DEF InsertPol, Runs
<1>2. call[s].op = "create" /\ call[s].pc = "insertPol" /\ At(s, "create", call[s].pc)
  BY <1>1 DEF At
<1>3. /\ Types /\ call[s].todo # <<>> /\ call[s].src \in Tags
      /\ PolRow(s) \in PolicyRow /\ PolRow(s).destination = Dest(s)
      /\ writes[s].insP \subseteq PolicyRow
      /\ writes[s].delD = {} /\ writes[s].delP = {}
  BY <1>2, AtRows
<1>4. GoesOn(s) /\ call'[s].pc # "countPol"
  BY <1>1, <1>3, NextPolicyGoesOn
<1>5. /\ writes' \in [Sessions -> Writes] /\ locks' \in [Sessions -> Locks]
      /\ \A o \in Sessions \ {s} : writes'[o] = writes[o] /\ locks'[o] = locks[o]
      /\ writes'[s].groups = writes[s].groups /\ writes'[s].delP = {}
      /\ writes'[s].insD = writes[s].insD /\ writes'[s].delD = writes[s].delD
      /\ locks'[s].group = locks[s].group /\ locks'[s].dest = locks[s].dest
      /\ \/ PolRow(s) \in View(s).policies /\ writes'[s].insP = writes[s].insP
         \/ writes'[s].insP = writes[s].insP \cup {PolRow(s)}
  <2>1. CASE PolRow(s) \in View(s).policies
    <3>1. writes' = writes /\ locks' = locks
      BY <2>1 DEF InsertPol
    <3> QED
      BY <1>3, <2>1, <3>1 DEF Types
  <2>2. CASE PolRow(s) \notin View(s).policies
    <3>1. /\ writes' = [writes EXCEPT ![s].insP = @ \cup {PolRow(s)},
                                      ![s].delP = @ \ {PolRow(s)}]
          /\ KeyShare(s, call[s].src)
      BY <2>2 DEF InsertPol
    <3>2. PICK ins \in SUBSET PolicyRow : ins = writes[s].insP \cup {PolRow(s)}
      BY <1>3
    <3>3. PICK del \in SUBSET PolicyRow : del = {}
      OBVIOUS
    <3>4. PICK j \in Tags : j = call[s].src
      BY <1>3
    <3>5. writes[s].delP \ {PolRow(s)} = del
      BY <1>3, <3>3
    <3>6. writes \in [Sessions -> Writes] /\ writes[s] \in Writes
      BY <1>3 DEF Types
    <3>7. writes' = [writes EXCEPT ![s].insP = ins, ![s].delP = del]
      BY <3>1, <3>2, <3>5, <3>6 DEF Writes
    <3>8. KeyShare(s, j)
      BY <3>1, <3>4
    <3>9. /\ writes' \in [Sessions -> Writes]
          /\ \A o \in Sessions \ {s} : writes'[o] = writes[o]
          /\ writes'[s].groups = writes[s].groups
          /\ writes'[s].insD = writes[s].insD /\ writes'[s].delD = writes[s].delD
          /\ writes'[s].insP = ins /\ writes'[s].delP = del
      <4> DEFINE w == [writes[s] EXCEPT !.insP = ins, !.delP = del]
      <4>1. /\ w \in Writes /\ w.groups = writes[s].groups
            /\ w.insP = ins /\ w.delP = del
            /\ w.insD = writes[s].insD /\ w.delD = writes[s].delD
        BY <3>6 DEF Writes
      <4>2. writes' = [writes EXCEPT ![s] = w]
        BY <3>6, <3>7
      <4> HIDE DEF w
      <4> QED
        BY <3>6, <4>1, <4>2
    <3>10. /\ locks' \in [Sessions -> Locks]
           /\ \A o \in Sessions \ {s} : locks'[o] = locks[o]
           /\ locks'[s].group = locks[s].group /\ locks'[s].dest = locks[s].dest
      BY <1>3, <3>8, Share
    <3> QED
      BY <3>2, <3>3, <3>9, <3>10
  <2> QED
    BY <2>1, <2>2
<1>6. Running(call'[s], writes'[s])
  BY <1>2, <1>3, <1>4, <1>5 DEF Running, Creates, Deletes, GoesOn
<1>7. Local(s)
  BY <1>1, <1>3, <1>4, <1>5, <1>6, LocalStep DEF Types, GoesOn
<1>8. GroupQuiet(s)
  BY <1>1, <1>4, <1>5 DEF GroupQuiet, GoesOn
<1> QED
  BY <1>2, <1>3, <1>4, <1>5, <1>7, <1>8 DEF GoesOn

LEMMA DeleteFindStep ==
  ASSUME Shape, NEW s \in Sessions, DeleteFind(s)
  PROVE  Local(s) /\ GroupQuiet(s) /\ DestQuiet(s)
<1>1. At(s, "delete", "find") /\ UNCHANGED <<committed, writes, locks, calls>>
  BY DEF DeleteFind
<1>2. Types /\ Running(call[s], writes[s]) /\ call[s] \in Calls
  BY <1>1, BegunRuns DEF At
<1>3. /\ call[s].op = "delete" /\ call[s].pc = "find" /\ call[s].todo # <<>>
      /\ call[s].side \in {"src", "dst"} /\ (call[s].side = "dst" => call[s].src \in Tags)
      /\ writes[s].insD = {} /\ writes[s].insP = {}
  BY <1>1, <1>2 DEF At, Running, RowsKnown, Deletes, Calls
<1>4. /\ call' \in [Sessions -> Calls]
      /\ \A o \in Sessions \ {s} : call'[o] = call[o]
      /\ call'[s].op = "delete" /\ call'[s].pc \in {"find", "getDest", "commit"}
      /\ call'[s].pc # "commit" => call'[s].todo # <<>>
      /\ RowsKnown(call'[s])
  <2>1. CASE NextPolicy(s)
    BY <1>2, <1>3, <2>1, NextPolicyGoesOn DEF GoesOn
  <2>2. CASE \E i \in RowsOf(Reads(s), Guid(s)) : ThenDst(s, i, "find", "getDest")
    <3>1. PICK i \in Tags : ThenDst(s, i, "find", "getDest")
      BY <2>2 DEF RowsOf
    <3>2. "find" \in Statements /\ "getDest" \in Statements
      BY DEF Statements
    <3>3. /\ call' \in [Sessions -> Calls]
          /\ \A o \in Sessions \ {s} : call'[o] = call[o]
          /\ call'[s].op = "delete" /\ call'[s].todo = call[s].todo
          /\ \/ call'[s].pc = "find" /\ call'[s].side = "dst" /\ call'[s].src \in Tags
             \/ call'[s].pc = "getDest" /\ call'[s].src \in Tags /\ call'[s].dst \in Tags
      <4>1. CASE call[s].side = "src"
        BY <1>2, <1>3, <3>1, <3>2, <4>1, ThenDstMovesOn
      <4>2. CASE call[s].side = "dst"
        BY <1>2, <1>3, <3>1, <3>2, <4>2, ThenDstMovesLast
      <4> QED
        BY <1>3, <4>1, <4>2
    <3>4. RowsKnown(call'[s])
      BY <3>3 DEF RowsKnown
    <3> QED
      BY <1>3, <3>3, <3>4
  <2> QED
    BY <2>1, <2>2 DEF DeleteFind
<1>5. Running(call'[s], writes'[s])
  BY <1>1, <1>3, <1>4 DEF Running, Creates, Deletes
<1>6. Types' /\ Others(s)
  BY <1>1, <1>2, <1>4 DEF Types, Others
<1> QED
  BY <1>1, <1>3, <1>4, <1>5, <1>6 DEF Local, SessionOK, GroupQuiet, DestQuiet

LEMMA DeleteGetDestStep ==
  ASSUME Shape, NEW s \in Sessions, DeleteGetDest(s)
  PROVE  /\ Local(s) /\ GroupQuiet(s) /\ writes' = writes
         /\ call[s].op = "delete" /\ call[s].pc = "getDest"
         /\ writes[s].insD = {} /\ writes[s].insP = {}
         /\ \/ /\ locks'[s].dest = locks[s].dest \cup {Dest(s)}
               /\ call'[s].pc = "deletePol" /\ Dest(s)' = Dest(s)
               /\ Dest(s) \in View(s).destinations
               /\ driver = "mysql" \/ \A o \in Sessions \ {s} : Dest(s) \notin locks[o].dest
            \/ locks'[s].dest = locks[s].dest /\ call'[s].pc \in {"find", "commit"}
<1>1. /\ At(s, "delete", "getDest") /\ Blockers(s) = {}
      /\ UNCHANGED <<committed, writes, calls>>
  BY DEF DeleteGetDest, Runs
<1>2. call[s].op = "delete" /\ call[s].pc = "getDest" /\ At(s, "delete", call[s].pc)
  BY <1>1 DEF At
<1>3. /\ Types /\ call[s].todo # <<>> /\ call[s].src \in Tags /\ call[s].dst \in Tags
      /\ writes[s].insD = {} /\ writes[s].insP = {}
  BY <1>2, AtRows
<1>4. CASE LockDest(s, "deletePol")
  <2>1. "deletePol" \in Statements
    BY DEF Statements
  <2>2. /\ Dest(s)' = Dest(s) /\ call' \in [Sessions -> Calls]
        /\ \A o \in Sessions \ {s} : call'[o] = call[o]
        /\ call'[s].op = call[s].op /\ call'[s].todo = call[s].todo
        /\ call'[s].pc = "deletePol"
        /\ call'[s].src = call[s].src /\ call'[s].dst = call[s].dst
    <3>1. Goto(s, "deletePol")
      BY <1>4 DEF LockDest
    <3> QED
      BY <1>3, <2>1, <3>1, GotoKeeps
  <2>3. /\ locks' \in [Sessions -> Locks]
        /\ \A o \in Sessions \ {s} : locks'[o] = locks[o]
        /\ locks'[s].group = locks[s].group
        /\ locks'[s].dest = locks[s].dest \cup {Dest(s)}
        /\ Dest(s) \in View(s).destinations
    BY <1>3, <1>4, LockDestLocks DEF LockDest
  <2>4. Running(call'[s], writes'[s])
    BY <1>1, <1>2, <1>3, <2>2 DEF Running, RowsKnown, Creates, Deletes
  <2>5. Local(s)
    BY <1>1, <1>3, <2>2, <2>3, <2>4, LocalStep DEF Types
  <2>6. GroupQuiet(s)
    BY <1>1, <2>2, <2>3 DEF GroupQuiet
  <2>7. driver = "mysql" \/ \A o \in Sessions \ {s} : Dest(s) \notin locks[o].dest
    BY <1>1, <1>2, NotBlocked
  <2> QED
    BY <1>1, <1>2, <1>3, <2>2, <2>3, <2>5, <2>6, <2>7
<1>5. CASE NextPolicy(s) /\ UNCHANGED locks
  <2>1. GoesOn(s) /\ call'[s].pc # "countPol"
    BY <1>3, <1>5, NextPolicyGoesOn
  <2>2. Running(call'[s], writes'[s])
    BY <1>1, <1>2, <1>3, <2>1 DEF Running, Creates, Deletes, GoesOn
  <2>3. Local(s)
    BY <1>1, <1>3, <1>5, <2>1, <2>2, LocalStep DEF Types, GoesOn
  <2>4. GroupQuiet(s)
    BY <1>1, <1>5, <2>1 DEF GroupQuiet, GoesOn
  <2> QED
    BY <1>1, <1>2, <1>3, <1>5, <2>1, <2>3, <2>4 DEF GoesOn
<1> QED
  BY <1>4, <1>5 DEF DeleteGetDest

LEMMA DeletePolStep ==
  ASSUME Shape, NEW s \in Sessions, DeletePol(s)
  PROVE  /\ Local(s) /\ GroupQuiet(s) /\ locks' = locks
         /\ call[s].op = "delete" /\ call[s].pc = "deletePol" /\ call'[s].pc = "countDest"
         /\ Dest(s)' = Dest(s) /\ PolRow(s).destination = Dest(s)
         /\ writes'[s].insD = {} /\ writes'[s].insP = {}
         /\ writes'[s].delD = writes[s].delD
         /\ writes'[s].delP = writes[s].delP \cup {PolRow(s)}
<1>1. At(s, "delete", "deletePol") /\ Goto(s, "countDest") /\ UNCHANGED <<committed, locks, calls>>
  BY DEF DeletePol, Runs
<1>2. call[s].op = "delete" /\ call[s].pc = "deletePol" /\ At(s, "delete", call[s].pc)
  BY <1>1 DEF At
<1>3. /\ Types /\ call[s].todo # <<>> /\ call[s].src \in Tags /\ call[s].dst \in Tags
      /\ PolRow(s) \in PolicyRow /\ PolRow(s).destination = Dest(s)
      /\ writes[s].insP \subseteq PolicyRow /\ writes[s].delP \subseteq PolicyRow
      /\ writes[s].insD = {} /\ writes[s].insP = {}
  BY <1>2, AtRows
<1>4. /\ Dest(s)' = Dest(s) /\ call' \in [Sessions -> Calls]
      /\ \A o \in Sessions \ {s} : call'[o] = call[o]
      /\ call'[s].op = call[s].op /\ call'[s].todo = call[s].todo /\ call'[s].pc = "countDest"
      /\ call'[s].src = call[s].src /\ call'[s].dst = call[s].dst
  <2>1. "countDest" \in Statements
    BY DEF Statements
  <2> QED
    BY <1>1, <1>3, <2>1, GotoKeeps
<1>5. writes \in [Sessions -> Writes] /\ writes[s] \in Writes
  BY <1>3 DEF Types
<1>6. /\ writes' \in [Sessions -> Writes]
      /\ \A o \in Sessions \ {s} : writes'[o] = writes[o]
      /\ writes'[s].groups = writes[s].groups
      /\ writes'[s].insD = writes[s].insD /\ writes'[s].delD = writes[s].delD
      /\ writes'[s].insP = {} /\ writes'[s].delP = writes[s].delP \cup {PolRow(s)}
  <2> DEFINE w == [writes[s] EXCEPT !.delP = @ \cup {PolRow(s)}, !.insP = @ \ {PolRow(s)}]
  <2>1. /\ w \in Writes /\ w.groups = writes[s].groups
        /\ w.insP = {} /\ w.delP = writes[s].delP \cup {PolRow(s)}
        /\ w.insD = writes[s].insD /\ w.delD = writes[s].delD
    BY <1>3, <1>5 DEF Writes
  <2>2. writes' = [writes EXCEPT ![s] = w]
    BY <1>5 DEF DeletePol
  <2> HIDE DEF w
  <2> QED
    BY <1>5, <2>1, <2>2
<1>7. Running(call'[s], writes'[s])
  BY <1>2, <1>3, <1>4, <1>6 DEF Running, RowsKnown, Creates, Deletes
<1>8. Local(s)
  BY <1>1, <1>3, <1>4, <1>6, <1>7, LocalStep DEF Types
<1>9. GroupQuiet(s)
  BY <1>1, <1>4, <1>6 DEF GroupQuiet
<1> QED
  BY <1>1, <1>2, <1>3, <1>4, <1>6, <1>8, <1>9

LEMMA CountDestStep ==
  ASSUME Shape, NEW s \in Sessions, CountDest(s)
  PROVE  /\ Local(s) /\ GroupQuiet(s) /\ locks' = locks /\ writes' = writes
         /\ call[s].op = "delete" /\ call[s].pc = "countDest"
         /\ Dest(s)' = Dest(s) /\ writes[s].insD = {} /\ writes[s].insP = {}
         /\ \/ call'[s].pc = "countPol" /\ DestinationInUse(Reads(s), Dest(s))
            \/ call'[s].pc = "deleteDest" /\ ~DestinationInUse(Reads(s), Dest(s))
<1>1. /\ At(s, "delete", "countDest") /\ UNCHANGED <<committed, writes, locks, calls>>
      /\ \/ Goto(s, "countPol") /\ DestinationInUse(Reads(s), Dest(s))
         \/ Goto(s, "deleteDest") /\ ~DestinationInUse(Reads(s), Dest(s))
  BY DEF CountDest
<1>2. call[s].op = "delete" /\ call[s].pc = "countDest" /\ At(s, "delete", call[s].pc)
  BY <1>1 DEF At
<1>3. /\ Types /\ call[s].todo # <<>> /\ call[s].src \in Tags /\ call[s].dst \in Tags
      /\ writes[s].insD = {} /\ writes[s].insP = {}
  BY <1>2, AtRows
<1>4. PICK pc \in {"countPol", "deleteDest"} :
        Goto(s, pc) /\ (pc = "countPol" <=> DestinationInUse(Reads(s), Dest(s)))
  BY <1>1
<1>5. /\ Dest(s)' = Dest(s) /\ call' \in [Sessions -> Calls]
      /\ \A o \in Sessions \ {s} : call'[o] = call[o]
      /\ call'[s].op = call[s].op /\ call'[s].todo = call[s].todo /\ call'[s].pc = pc
      /\ call'[s].src = call[s].src /\ call'[s].dst = call[s].dst
  <2>1. pc \in Statements
    BY DEF Statements
  <2> QED
    BY <1>3, <1>4, <2>1, GotoKeeps
<1>6. Running(call'[s], writes'[s])
  BY <1>1, <1>2, <1>3, <1>5 DEF Running, RowsKnown, Creates, Deletes
<1>7. Local(s)
  BY <1>1, <1>3, <1>5, <1>6, LocalStep DEF Types
<1>8. GroupQuiet(s)
  BY <1>1, <1>5 DEF GroupQuiet
<1> QED
  BY <1>1, <1>2, <1>3, <1>4, <1>5, <1>7, <1>8

LEMMA DeleteDestStep ==
  ASSUME Shape, NEW s \in Sessions, DeleteDest(s)
  PROVE  /\ Local(s) /\ GroupQuiet(s) /\ locks' = locks
         /\ call[s].op = "delete" /\ call[s].pc = "deleteDest" /\ call'[s].pc = "countPol"
         /\ writes'[s].insD = {} /\ writes'[s].insP = {}
         /\ writes'[s].delD = writes[s].delD \cup {Dest(s)}
         /\ writes'[s].delP = writes[s].delP
<1>1. At(s, "delete", "deleteDest") /\ Goto(s, "countPol") /\ UNCHANGED <<committed, locks, calls>>
  BY DEF DeleteDest, Runs
<1>2. call[s].op = "delete" /\ call[s].pc = "deleteDest" /\ At(s, "delete", call[s].pc)
  BY <1>1 DEF At
<1>3. /\ Types /\ call[s].todo # <<>> /\ call[s].src \in Tags /\ call[s].dst \in Tags
      /\ Dest(s) \in DestinationRow /\ writes[s].delD \subseteq DestinationRow
      /\ writes[s].insD = {} /\ writes[s].insP = {}
  BY <1>2, AtRows
<1>4. /\ call' \in [Sessions -> Calls]
      /\ \A o \in Sessions \ {s} : call'[o] = call[o]
      /\ call'[s].op = call[s].op /\ call'[s].todo = call[s].todo /\ call'[s].pc = "countPol"
      /\ call'[s].src = call[s].src /\ call'[s].dst = call[s].dst
  <2>1. "countPol" \in Statements
    BY DEF Statements
  <2> QED
    BY <1>1, <1>3, <2>1, GotoKeeps
<1>5. writes \in [Sessions -> Writes] /\ writes[s] \in Writes
  BY <1>3 DEF Types
<1>6. /\ writes' \in [Sessions -> Writes]
      /\ \A o \in Sessions \ {s} : writes'[o] = writes[o]
      /\ writes'[s].groups = writes[s].groups
      /\ writes'[s].insD = {} /\ writes'[s].delD = writes[s].delD \cup {Dest(s)}
      /\ writes'[s].insP = writes[s].insP /\ writes'[s].delP = writes[s].delP
  <2> DEFINE w == [writes[s] EXCEPT !.delD = @ \cup {Dest(s)}, !.insD = @ \ {Dest(s)}]
  <2>1. /\ w \in Writes /\ w.groups = writes[s].groups
        /\ w.insD = {} /\ w.delD = writes[s].delD \cup {Dest(s)}
        /\ w.insP = writes[s].insP /\ w.delP = writes[s].delP
    BY <1>3, <1>5 DEF Writes
  <2>2. writes' = [writes EXCEPT ![s] = w]
    BY <1>5 DEF DeleteDest
  <2> HIDE DEF w
  <2> QED
    BY <1>5, <2>1, <2>2
<1>7. Running(call'[s], writes'[s])
  BY <1>2, <1>3, <1>4, <1>6 DEF Running, RowsKnown, Creates, Deletes
<1>8. Local(s)
  BY <1>1, <1>3, <1>4, <1>6, <1>7, LocalStep DEF Types
<1>9. GroupQuiet(s)
  BY <1>1, <1>4, <1>6 DEF GroupQuiet
<1> QED
  BY <1>1, <1>2, <1>3, <1>4, <1>6, <1>8, <1>9

LEMMA CountGroupPoliciesStep ==
  ASSUME Shape, NEW s \in Sessions, CountGroupPolicies(s)
  PROVE  Local(s) /\ GroupQuiet(s) /\ DestQuiet(s)
<1>1. /\ At(s, "delete", "countPol") /\ UNCHANGED <<committed, writes, locks, calls>>
      /\ AfterGroup(s) \/ Goto(s, "countDests")
  BY DEF CountGroupPolicies
<1>2. call[s].op = "delete" /\ call[s].pc = "countPol" /\ At(s, "delete", call[s].pc)
  BY <1>1 DEF At
<1>3. /\ Types /\ call[s].todo # <<>> /\ call[s].src \in Tags /\ call[s].dst \in Tags
      /\ writes[s].insD = {} /\ writes[s].insP = {}
  BY <1>2, AtRows
<1>4. /\ call' \in [Sessions -> Calls]
      /\ \A o \in Sessions \ {s} : call'[o] = call[o]
      /\ call'[s].op = "delete" /\ call'[s].pc \in {"countPol", "countDests", "find", "commit"}
      /\ call'[s].pc # "commit" => call'[s].todo # <<>>
      /\ RowsKnown(call'[s])
  <2>1. CASE AfterGroup(s)
    BY <1>2, <1>3, <2>1, AfterGroupGoesOn DEF GoesOn
  <2>2. CASE Goto(s, "countDests")
    <3>1. "countDests" \in Statements
      BY DEF Statements
    <3>2. /\ call' \in [Sessions -> Calls]
          /\ \A o \in Sessions \ {s} : call'[o] = call[o]
          /\ call'[s].op = call[s].op /\ call'[s].todo = call[s].todo
          /\ call'[s].pc = "countDests"
          /\ call'[s].src = call[s].src /\ call'[s].dst = call[s].dst
      BY <1>3, <2>2, <3>1, GotoKeeps
    <3>3. RowsKnown(call'[s])
      BY <1>3, <3>2 DEF RowsKnown
    <3> QED
      BY <1>2, <1>3, <3>2, <3>3
  <2> QED
    BY <1>1, <2>1, <2>2
<1>5. Running(call'[s], writes'[s])
  BY <1>1, <1>3, <1>4 DEF Running, Creates, Deletes
<1>6. Local(s)
  BY <1>1, <1>3, <1>4, <1>5, LocalStep DEF Types
<1> QED
  BY <1>1, <1>2, <1>4, <1>6 DEF GroupQuiet, DestQuiet

LEMMA CountGroupDestinationsStep ==
  ASSUME Shape, NEW s \in Sessions, CountGroupDestinations(s)
  PROVE  Local(s) /\ GroupQuiet(s) /\ DestQuiet(s)
<1>1. /\ At(s, "delete", "countDests") /\ UNCHANGED <<committed, writes, locks, calls>>
      /\ AfterGroup(s) \/ Goto(s, "free")
  BY DEF CountGroupDestinations
<1>2. call[s].op = "delete" /\ call[s].pc = "countDests" /\ At(s, "delete", call[s].pc)
  BY <1>1 DEF At
<1>3. /\ Types /\ call[s].todo # <<>> /\ call[s].src \in Tags /\ call[s].dst \in Tags
      /\ writes[s].insD = {} /\ writes[s].insP = {}
  BY <1>2, AtRows
<1>4. /\ call' \in [Sessions -> Calls]
      /\ \A o \in Sessions \ {s} : call'[o] = call[o]
      /\ call'[s].op = "delete" /\ call'[s].pc \in {"countPol", "free", "find", "commit"}
      /\ call'[s].pc # "commit" => call'[s].todo # <<>>
      /\ RowsKnown(call'[s])
  <2>1. CASE AfterGroup(s)
    BY <1>2, <1>3, <2>1, AfterGroupGoesOn DEF GoesOn
  <2>2. CASE Goto(s, "free")
    <3>1. "free" \in Statements
      BY DEF Statements
    <3>2. /\ call' \in [Sessions -> Calls]
          /\ \A o \in Sessions \ {s} : call'[o] = call[o]
          /\ call'[s].op = call[s].op /\ call'[s].todo = call[s].todo
          /\ call'[s].pc = "free"
          /\ call'[s].src = call[s].src /\ call'[s].dst = call[s].dst
      BY <1>3, <2>2, <3>1, GotoKeeps
    <3>3. RowsKnown(call'[s])
      BY <1>3, <3>2 DEF RowsKnown
    <3> QED
      BY <1>2, <1>3, <3>2, <3>3
  <2> QED
    BY <1>1, <2>1, <2>2
<1>5. Running(call'[s], writes'[s])
  BY <1>1, <1>3, <1>4 DEF Running, Creates, Deletes
<1>6. Local(s)
  BY <1>1, <1>3, <1>4, <1>5, LocalStep DEF Types
<1> QED
  BY <1>1, <1>2, <1>4, <1>6 DEF GroupQuiet, DestQuiet


LEMMA FreeGroupStep ==
  ASSUME Shape, NEW s \in Sessions, FreeGroup(s)
  PROVE  /\ Local(s) /\ DestQuiet(s)
         /\ call'[s].pc # "update" /\ Row(s) \in Tags
         /\ WriteGroup(s, Row(s), NULL)
         /\ locks'[s].group = locks[s].group \cup {Row(s)}
         /\ \A o \in Sessions \ {s} : Row(s) \notin locks[o].group
<1>1. /\ At(s, "delete", "free") /\ Blockers(s) = {} /\ AfterGroup(s)
      /\ WriteGroup(s, Row(s), NULL) /\ LockGroup(s, Row(s))
      /\ UNCHANGED <<committed, calls>>
  BY DEF FreeGroup, Runs
<1>2. call[s].op = "delete" /\ call[s].pc = "free" /\ At(s, "delete", call[s].pc)
  BY <1>1 DEF At
<1>3. /\ Types /\ call[s].todo # <<>> /\ call[s].src \in Tags /\ call[s].dst \in Tags
      /\ writes[s].insD = {} /\ writes[s].insP = {}
  BY <1>2, AtRows
<1>4. GoesOn(s)
  BY <1>1, <1>2, <1>3, AfterGroupGoesOn
<1>5. PICK i \in Tags : i = Row(s)
  BY <1>3 DEF Row
<1>6. PICK g \in Guids \cup {NULL} : g = NULL
  OBVIOUS
<1>7. WriteGroup(s, i, g) /\ LockGroup(s, i)
  BY <1>1, <1>5, <1>6
<1>8. /\ writes' \in [Sessions -> Writes]
      /\ \A o \in Sessions \ {s} : writes'[o] = writes[o]
      /\ writes'[s].insD = writes[s].insD /\ writes'[s].delD = writes[s].delD
      /\ writes'[s].insP = writes[s].insP /\ writes'[s].delP = writes[s].delP
  BY <1>3, <1>7, WriteGroupWrites
<1>9. /\ locks' \in [Sessions -> Locks]
      /\ \A o \in Sessions \ {s} : locks'[o] = locks[o]
      /\ locks'[s].group = locks[s].group \cup {i} /\ locks'[s].dest = locks[s].dest
  BY <1>3, <1>7, LockGroupLocks
<1>10. Running(call'[s], writes'[s])
  BY <1>2, <1>3, <1>4, <1>8 DEF Running, Creates, Deletes, GoesOn
<1>11. Local(s)
  BY <1>1, <1>3, <1>4, <1>8, <1>9, <1>10, LocalStep DEF Types, GoesOn
<1>12. DestQuiet(s)
  BY <1>1, <1>2, <1>4, <1>8, <1>9 DEF DestQuiet, GoesOn
<1>13. \A o \in Sessions \ {s} : Row(s) \notin locks[o].group
  BY <1>1, <1>2, NotBlocked DEF Wanted
<1> QED
  BY <1>1, <1>4, <1>5, <1>9, <1>11, <1>12, <1>13 DEF GoesOn

LEMMA BeginStep ==
  ASSUME Shape, NEW s \in Sessions, NEW op \in {"create", "delete"}, NEW list \in Lists,
         Begin(s, op, list)
  PROVE  Local(s) /\ GroupQuiet(s) /\ DestQuiet(s)
<1>1. /\ call[s].op = "idle" /\ calls < MaxCalls /\ calls' = calls + 1
      /\ UNCHANGED <<committed, writes, locks>>
  BY DEF Begin
<1>2. Types /\ SessionOK(call[s], writes[s], locks[s]) /\ call \in [Sessions -> Calls]
  BY DEF Shape, Types
<1>3. call[s] = Idle /\ writes[s] = NoWrites
  BY <1>1, <1>2 DEF SessionOK, Running, Creates, Deletes
<1>4. list \in Seq(Policy)
  OBVIOUS
<1> DEFINE c == [Idle EXCEPT !.op = op, !.todo = list,
                             !.snapshot = IF MySQL THEN committed ELSE Idle.snapshot,
                             !.pc = IF list = <<>> THEN "commit" ELSE "find"]
<1>5. /\ c \in Calls /\ c.op = op /\ c.pc \in {"find", "commit"} /\ c.side = "src"
      /\ c.pc # "commit" => c.todo # <<>>
  BY <1>2, <1>4, NothingWritten DEF Idle, Calls, Statements, Types
<1>6. call' = [call EXCEPT ![s] = c]
  BY DEF Begin
<1> HIDE DEF c
<1>7. /\ call' \in [Sessions -> Calls] /\ call'[s] = c
      /\ \A o \in Sessions \ {s} : call'[o] = call[o]
  BY <1>2, <1>5, <1>6
<1>8. Running(call'[s], writes'[s])
  BY <1>1, <1>3, <1>5, <1>7 DEF Running, RowsKnown, Creates, Deletes, NoWrites
<1>9. calls' \in 0..MaxCalls
  BY <1>1, <1>2 DEF Types
<1>10. Local(s)
  BY <1>1, <1>2, <1>7, <1>8, <1>9, LocalStep DEF Types
<1> QED
  BY <1>1, <1>3, <1>5, <1>7, <1>10 DEF GroupQuiet, DestQuiet, Idle

LEMMA EndTxStep ==
  ASSUME Shape, NEW s \in Sessions, EndTx(s), committed' \in Tables
  PROVE  /\ Local(s) /\ call'[s] = Idle /\ writes'[s] = NoWrites /\ locks'[s] = NoLocks
<1>1. /\ call' = [call EXCEPT ![s] = Idle] /\ writes' = [writes EXCEPT ![s] = NoWrites]
      /\ locks' = [locks EXCEPT ![s] = NoLocks] /\ calls' = calls
  BY DEF EndTx
<1>2. Types
  BY DEF Shape
<1>3. /\ call' \in [Sessions -> Calls] /\ call'[s] = Idle
      /\ \A o \in Sessions \ {s} : call'[o] = call[o]
  BY <1>1, <1>2, NothingWritten DEF Types
<1>4. /\ writes' \in [Sessions -> Writes] /\ writes'[s] = NoWrites
      /\ \A o \in Sessions \ {s} : writes'[o] = writes[o]
  BY <1>1, <1>2, NothingWritten DEF Types
<1>5. /\ locks' \in [Sessions -> Locks] /\ locks'[s] = NoLocks
      /\ \A o \in Sessions \ {s} : locks'[o] = locks[o]
  BY <1>1, <1>2, NothingWritten DEF Types
<1>6. Types'
  BY <1>1, <1>2, <1>3, <1>4, <1>5 DEF Types
<1> QED
  BY <1>3, <1>4, <1>5, <1>6 DEF Local, Others, SessionOK

LEMMA CommitStep ==
  ASSUME Shape, NEW s \in Sessions, Commit(s)
  PROVE  /\ Local(s) /\ call'[s] = Idle /\ writes'[s] = NoWrites /\ locks'[s] = NoLocks
         /\ committed' = View(s) /\ call[s].pc = "commit"
<1>1. View(s) \in Tables
  BY ViewTables DEF Shape
<1>2. committed' = View(s) /\ EndTx(s) /\ call[s].pc = "commit"
  BY DEF Commit
<1> QED
  BY <1>1, <1>2, EndTxStep

LEMMA RollbackStep ==
  ASSUME Shape, NEW s \in Sessions, Rollback(s)
  PROVE  /\ Local(s) /\ call'[s] = Idle /\ writes'[s] = NoWrites /\ locks'[s] = NoLocks
         /\ committed' = committed
<1>1. committed' = committed /\ EndTx(s)
  BY DEF Rollback
<1>2. committed \in Tables
  BY DEF Shape, Types
<1> QED
  BY <1>1, <1>2, EndTxStep

---------------------------------------------------------------------------
(* The groups: one guid, one tag *)

\* A session's rows and its guids, in the state and in the next one.
LEMMA GroupsSeen ==
  ASSUME NEW s \in Sessions
  PROVE  /\ \A k \in Tags : View(s).groups[k] =
              IF k \in DOMAIN writes[s].groups THEN writes[s].groups[k]
              ELSE committed.groups[k]
         /\ \A k \in Tags : View(s)'.groups[k] =
              IF k \in DOMAIN writes'[s].groups THEN writes'[s].groups[k]
              ELSE committed'.groups[k]
BY DEF View, Overlay

LEMMA DomainTags ==
  ASSUME Types, NEW s \in Sessions
  PROVE  DOMAIN writes[s].groups \subseteq Tags
BY ViewTables

LEMMA OwnFrame ==
  ASSUME Own, GuidHasOneTag, committed' = committed,
         \A s \in Sessions : writes'[s].groups = writes[s].groups
  PROVE  Own' /\ GuidHasOneTag'
<1>1. GuidHasOneTag'
  BY DEF GuidHasOneTag
<1>2. ASSUME NEW s \in Sessions, NEW i \in DOMAIN writes'[s].groups PROVE OwnGuid(s, i)'
  <2>1. i \in DOMAIN writes[s].groups /\ OwnGuid(s, i)
    BY <1>2 DEF Own
  <2>2. \A o \in Sessions : \A g : TouchesGuid(o, g)' <=> TouchesGuid(o, g)
    BY DEF TouchesGuid
  <2>3. \A k \in Tags : View(s)'.groups[k] = View(s).groups[k]
    BY GroupsSeen
  <2>4. writes'[s].groups[i] = writes[s].groups[i]
    OBVIOUS
  <2> QED
    BY <2>1, <2>2, <2>3, <2>4 DEF OwnGuid
<1> QED
  BY <1>1, <1>2 DEF Own

LEMMA GroupsQuiet ==
  ASSUME Groups, NEW s \in Sessions, Local(s), GroupQuiet(s)
  PROVE  Groups'
<1>1. \A x \in Sessions : /\ writes'[x].groups = writes[x].groups
                          /\ locks'[x].group = locks[x].group
  BY DEF Local, Others, GroupQuiet
<1>2. Own' /\ GuidHasOneTag'
  BY <1>1, OwnFrame DEF Groups, GroupQuiet
<1>3. \A x \in Sessions : call'[x].pc = "update" => call[x].pc = "update" /\ Row(x)' = Row(x)
  BY DEF Local, Others, GroupQuiet, Row
<1>4. GroupLocks'
  BY <1>1, <1>3 DEF Groups, GroupLocks
<1> QED
  BY <1>2, <1>4 DEF Groups

LEMMA FirstBlankGroups ==
  ASSUME Shape, Groups, NEW s \in Sessions, FirstBlank(s)
  PROVE  Groups'
<1>1. Local(s) /\ committed' = committed /\ writes' = writes /\ call'[s].pc = "update"
  BY FirstBlankStep DEF DestQuiet
<1>2. PICK i \in Tags : /\ locks'[s].group = locks[s].group \cup {i}
                        /\ (IF call'[s].side = "src" THEN call'[s].src
                            ELSE call'[s].dst) = i
                        /\ \A o \in Sessions \ {s} : i \notin locks[o].group
  BY FirstBlankStep
<1>3. Own' /\ GuidHasOneTag'
  BY <1>1, OwnFrame DEF Groups
<1>4. \A o \in Sessions \ {s} : call'[o] = call[o] /\ locks'[o].group = locks[o].group
  BY <1>1 DEF Local, Others
<1>5. ASSUME NEW x \in Sessions
      PROVE  /\ DOMAIN writes'[x].groups \subseteq locks'[x].group
             /\ call'[x].pc = "update" => Row(x)' \in locks'[x].group
  <2>1. CASE x = s
    BY <1>1, <1>2, <2>1 DEF Groups, GroupLocks, Row
  <2>2. CASE x # s
    BY <1>1, <1>4, <2>2 DEF Groups, GroupLocks, Row
  <2> QED
    BY <2>1, <2>2
<1>6. ASSUME NEW x \in Sessions, NEW o \in Sessions, x # o
      PROVE  locks'[x].group \cap locks'[o].group = {}
  <2>1. locks[x].group \cap locks[o].group = {}
    BY <1>6 DEF Groups, GroupLocks
  <2> QED
    BY <1>2, <1>4, <1>6, <2>1
<1> QED
  BY <1>3, <1>5, <1>6 DEF Groups, GroupLocks

\* A row that no one else has locked is given a guid that no one else sees or
\* touches, or none.
LEMMA GroupWritten ==
  ASSUME Types, Groups, NEW s \in Sessions, NEW r \in Tags, NEW g \in Guids \cup {NULL},
         WriteGroup(s, r, g), committed' = committed,
         \A o \in Sessions \ {s} : r \notin locks[o].group,
         g # NULL => /\ RowsOf(View(s), g) = {}
                     /\ \A o \in Sessions \ {s} : ~TouchesGuid(o, g)
  PROVE  Own'
<1>1. /\ \A o \in Sessions \ {s} : writes'[o] = writes[o]
      /\ DOMAIN writes'[s].groups = DOMAIN writes[s].groups \cup {r}
      /\ \A k \in DOMAIN writes[s].groups \cup {r} :
           writes'[s].groups[k] = IF k = r THEN g ELSE writes[s].groups[k]
  BY WriteGroupWrites
<1>2. \A x \in Sessions : DOMAIN writes[x].groups \subseteq Tags
  BY DomainTags
<1>3. \A o \in Sessions \ {s} : r \notin DOMAIN writes[o].groups
  BY DEF Groups, GroupLocks
<1>4. \A x \in Sessions : \A i \in DOMAIN writes[x].groups : OwnGuid(x, i)
  BY DEF Groups, Own
<1>5. \A o \in Sessions \ {s} : \A v :
        ~TouchesGuid(o, v) => \A j \in DOMAIN writes'[o].groups :
                                v \notin {writes'[o].groups[j], committed'.groups[j]}
  BY <1>1 DEF TouchesGuid
<1>6. \A k \in Tags : View(s)'.groups[k] = IF k = r THEN g ELSE View(s).groups[k]
  BY <1>1, GroupsSeen
<1>7. ASSUME NEW i \in DOMAIN writes'[s].groups, writes'[s].groups[i] # NULL
      PROVE  /\ \A k \in Tags \ {i} : View(s)'.groups[k] # writes'[s].groups[i]
             /\ \A o \in Sessions \ {s} : \A j \in DOMAIN writes'[o].groups :
                  writes'[s].groups[i] \notin {writes'[o].groups[j], committed'.groups[j]}
  <2>1. CASE i = r
    <3>1. writes'[s].groups[i] = g /\ g # NULL
      BY <1>1, <1>7, <2>1
    <3>2. \A k \in Tags : View(s).groups[k] # g
      BY <3>1 DEF RowsOf
    <3>3. \A o \in Sessions \ {s} : ~TouchesGuid(o, g)
      BY <3>1
    <3> QED
      BY <1>5, <1>6, <2>1, <3>1, <3>2, <3>3
  <2>2. CASE i # r
    <3>1. /\ i \in DOMAIN writes[s].groups /\ writes'[s].groups[i] = writes[s].groups[i]
          /\ i \in Tags
      BY <1>1, <1>2, <1>7, <2>2
    <3>2. /\ \A k \in Tags \ {i} : View(s).groups[k] # writes[s].groups[i]
          /\ \A o \in Sessions \ {s} : ~TouchesGuid(o, writes[s].groups[i])
      BY <1>4, <1>7, <3>1 DEF OwnGuid
    <3>3. View(s).groups[i] = writes[s].groups[i]
      BY <3>1, GroupsSeen
    <3>4. g # writes[s].groups[i]
      BY <1>7, <3>1, <3>3 DEF RowsOf
    <3> QED
      BY <1>5, <1>6, <3>1, <3>2, <3>4
  <2> QED
    BY <2>1, <2>2
<1>8. ASSUME NEW x \in Sessions \ {s}, NEW i \in DOMAIN writes'[x].groups,
             writes'[x].groups[i] # NULL
      PROVE  /\ \A k \in Tags \ {i} : View(x)'.groups[k] # writes'[x].groups[i]
             /\ \A o \in Sessions \ {x} : \A j \in DOMAIN writes'[o].groups :
                  writes'[x].groups[i] \notin {writes'[o].groups[j], committed'.groups[j]}
  <2>1. /\ i \in DOMAIN writes[x].groups /\ writes'[x].groups[i] = writes[x].groups[i]
        /\ i \in Tags
    BY <1>1, <1>2, <1>8
  <2>2. /\ \A k \in Tags \ {i} : View(x).groups[k] # writes[x].groups[i]
        /\ \A o \in Sessions \ {x} : ~TouchesGuid(o, writes[x].groups[i])
    BY <1>4, <1>8, <2>1 DEF OwnGuid
  <2>3. \A k \in Tags : View(x)'.groups[k] = View(x).groups[k]
    BY <1>1, GroupsSeen
  <2>4. g # writes[x].groups[i]
    <3>1. TouchesGuid(x, writes[x].groups[i])
      BY <2>1 DEF TouchesGuid
    <3> QED
      BY <1>8, <2>1, <3>1
  <2>5. committed.groups[r] # writes[x].groups[i]
    <3>1. r # i /\ r \notin DOMAIN writes[x].groups
      BY <1>3, <2>1
    <3>2. View(x).groups[r] = committed.groups[r]
      BY <3>1, GroupsSeen
    <3> QED
      BY <2>2, <3>1, <3>2
  <2>6. \A j \in DOMAIN writes'[s].groups :
          writes[x].groups[i] \notin {writes'[s].groups[j], committed'.groups[j]}
    <3>1. ~TouchesGuid(s, writes[x].groups[i])
      BY <2>2
    <3> DEFINE v == writes[x].groups[i]
    <3>2. \A j \in DOMAIN writes[s].groups : v # writes[s].groups[j] /\ v # committed.groups[j]
      BY <3>1 DEF TouchesGuid
    <3>3. v # g /\ v # committed.groups[r]
      BY <2>4, <2>5
    <3> HIDE DEF v
    <3>4. \A j \in DOMAIN writes'[s].groups : v # writes'[s].groups[j] /\ v # committed'.groups[j]
      BY <1>1, <3>2, <3>3
    <3> QED
      BY <3>4 DEF v
  <2> QED
    BY <1>5, <2>1, <2>2, <2>3, <2>6
<1> QED
  BY <1>7, <1>8 DEF Own, OwnGuid, TouchesGuid

LEMMA UpdateGroups ==
  ASSUME Shape, Groups, NEW s \in Sessions, Update(s)
  PROVE  Groups'
<1>1. /\ Local(s) /\ committed' = committed /\ locks' = locks
      /\ call[s].pc = "update" /\ call'[s].pc # "update"
      /\ Row(s) \in Tags /\ Guid(s) \in Guids /\ WriteGroup(s, Row(s), Guid(s))
      /\ RowsOf(View(s), Guid(s)) = {}
      /\ \A o \in Sessions \ {s} : ~TouchesGuid(o, Guid(s))
  BY UpdateStep DEF DestQuiet
<1>2. PICK r \in Tags : r = Row(s)
  BY <1>1
<1>3. PICK g \in Guids : g = Guid(s)
  BY <1>1
<1>4. Types /\ WriteGroup(s, r, g)
  BY <1>1, <1>2, <1>3 DEF Shape
<1>5. r \in locks[s].group /\ \A o \in Sessions \ {s} : r \notin locks[o].group
  BY <1>1, <1>2 DEF Groups, GroupLocks
<1>6. Own'
  <2>1. RowsOf(View(s), g) = {} /\ \A o \in Sessions \ {s} : ~TouchesGuid(o, g)
    BY <1>1, <1>3
  <2> QED
    BY <1>1, <1>4, <1>5, <2>1, GroupWritten
<1>7. GuidHasOneTag'
  BY <1>1 DEF Groups, GuidHasOneTag
<1>8. /\ DOMAIN writes'[s].groups = DOMAIN writes[s].groups \cup {r}
      /\ \A o \in Sessions \ {s} : writes'[o] = writes[o] /\ call'[o] = call[o]
  BY <1>1, <1>4, WriteGroupWrites DEF Local, Others
<1>9. ASSUME NEW x \in Sessions
      PROVE  /\ DOMAIN writes'[x].groups \subseteq locks'[x].group
             /\ call'[x].pc = "update" => Row(x)' \in locks'[x].group
  <2>1. CASE x = s
    BY <1>1, <1>5, <1>8, <2>1 DEF Groups, GroupLocks
  <2>2. CASE x # s
    BY <1>1, <1>8, <2>2 DEF Groups, GroupLocks, Row
  <2> QED
    BY <2>1, <2>2
<1>10. \A x, o \in Sessions : x # o => locks'[x].group \cap locks'[o].group = {}
  BY <1>1 DEF Groups, GroupLocks
<1> QED
  BY <1>6, <1>7, <1>9, <1>10 DEF Groups, GroupLocks

LEMMA FreeGroupGroups ==
  ASSUME Shape, Groups, NEW s \in Sessions, FreeGroup(s)
  PROVE  Groups'
<1>1. /\ Local(s) /\ committed' = committed /\ call'[s].pc # "update"
      /\ Row(s) \in Tags /\ WriteGroup(s, Row(s), NULL)
      /\ locks'[s].group = locks[s].group \cup {Row(s)}
      /\ \A o \in Sessions \ {s} : Row(s) \notin locks[o].group
  BY FreeGroupStep DEF DestQuiet
<1>2. PICK r \in Tags : r = Row(s)
  BY <1>1
<1>3. PICK g \in Guids \cup {NULL} : g = NULL
  OBVIOUS
<1>4. Types /\ WriteGroup(s, r, g)
  BY <1>1, <1>2, <1>3 DEF Shape
<1>5. \A o \in Sessions \ {s} : r \notin locks[o].group
  BY <1>1, <1>2
<1>6. Own'
  BY <1>1, <1>3, <1>4, <1>5, GroupWritten
<1>7. GuidHasOneTag'
  BY <1>1 DEF Groups, GuidHasOneTag
<1>8. /\ DOMAIN writes'[s].groups = DOMAIN writes[s].groups \cup {r}
      /\ \A o \in Sessions \ {s} : /\ writes'[o] = writes[o] /\ call'[o] = call[o]
                                    /\ locks'[o] = locks[o]
  BY <1>1, <1>4, WriteGroupWrites DEF Local, Others
<1>9. ASSUME NEW x \in Sessions
      PROVE  /\ DOMAIN writes'[x].groups \subseteq locks'[x].group
             /\ call'[x].pc = "update" => Row(x)' \in locks'[x].group
  <2>1. CASE x = s
    BY <1>1, <1>2, <1>8, <2>1 DEF Groups, GroupLocks
  <2>2. CASE x # s
    BY <1>1, <1>8, <2>2 DEF Groups, GroupLocks, Row
  <2> QED
    BY <2>1, <2>2
<1>10. ASSUME NEW x \in Sessions, NEW o \in Sessions, x # o
       PROVE  locks'[x].group \cap locks'[o].group = {}
  <2>1. locks[x].group \cap locks[o].group = {}
    BY <1>10 DEF Groups, GroupLocks
  <2> QED
    BY <1>1, <1>2, <1>5, <1>8, <1>10, <2>1
<1> QED
  BY <1>6, <1>7, <1>9, <1>10 DEF Groups, GroupLocks

\* The end of a transaction leaves its locks to the others.
LEMMA EndGroupLocks ==
  ASSUME Groups, NEW s \in Sessions, Local(s),
         call'[s] = Idle, writes'[s] = NoWrites, locks'[s] = NoLocks
  PROVE  GroupLocks'
<1>1. \A o \in Sessions \ {s} : /\ call'[o] = call[o] /\ writes'[o] = writes[o]
                                 /\ locks'[o] = locks[o]
  BY DEF Local, Others
<1>2. DOMAIN writes'[s].groups = {} /\ locks'[s].group = {} /\ call'[s].pc = "begin"
  BY NothingWritten DEF NoWrites, NoLocks, Idle
<1>3. ASSUME NEW x \in Sessions
      PROVE  /\ DOMAIN writes'[x].groups \subseteq locks'[x].group
             /\ call'[x].pc = "update" => Row(x)' \in locks'[x].group
  BY <1>1, <1>2 DEF Groups, GroupLocks, Row
<1>4. ASSUME NEW x \in Sessions, NEW o \in Sessions, x # o
      PROVE  locks'[x].group \cap locks'[o].group = {}
  BY <1>1, <1>2, <1>4 DEF Groups, GroupLocks
<1> QED
  BY <1>3, <1>4 DEF GroupLocks

\* A commit shows the others nothing they have touched, and no guid that they
\* own; a rollback shows them nothing.
LEMMA EndGroups ==
  ASSUME Shape, Groups, NEW s \in Sessions, Local(s),
         call'[s] = Idle, writes'[s] = NoWrites, locks'[s] = NoLocks,
         committed' = View(s) \/ committed' = committed
  PROVE  Groups'
<1>1. GroupLocks'
  BY EndGroupLocks
<1>2. \A x \in Sessions : DOMAIN writes[x].groups \subseteq Tags
  BY DomainTags DEF Shape
<1>3. \A x \in Sessions : \A i \in DOMAIN writes[x].groups : OwnGuid(x, i)
  BY DEF Groups, Own
<1>4. \A i, j \in Tags : committed.groups[i] = committed.groups[j] /\ committed.groups[i] # NULL
                         => i = j
  BY DEF Groups, GuidHasOneTag
<1>5. GuidHasOneTag'
  <2>1. ASSUME NEW i \in Tags, NEW j \in Tags, i # j, View(s).groups[i] # NULL
        PROVE  View(s).groups[i] # View(s).groups[j]
    <3>1. CASE i \in DOMAIN writes[s].groups
      <4>1. View(s).groups[i] = writes[s].groups[i] /\ OwnGuid(s, i)
        BY <1>3, <3>1, GroupsSeen
      <4> QED
        BY <2>1, <4>1 DEF OwnGuid
    <3>2. CASE j \in DOMAIN writes[s].groups
      <4>1. View(s).groups[j] = writes[s].groups[j] /\ OwnGuid(s, j)
        BY <1>3, <3>2, GroupsSeen
      <4> QED
        BY <2>1, <4>1 DEF OwnGuid
    <3>3. CASE i \notin DOMAIN writes[s].groups /\ j \notin DOMAIN writes[s].groups
      <4>1. /\ View(s).groups[i] = committed.groups[i]
            /\ View(s).groups[j] = committed.groups[j]
        BY <3>3, GroupsSeen
      <4> QED
        BY <1>4, <2>1, <4>1
    <3> QED
      BY <3>1, <3>2, <3>3
  <2>2. CASE committed' = View(s)
    BY <2>1, <2>2 DEF GuidHasOneTag
  <2>3. CASE committed' = committed
    BY <1>4, <2>3 DEF GuidHasOneTag
  <2> QED
    BY <2>2, <2>3
<1>6. DOMAIN writes'[s].groups = {}
  BY NothingWritten DEF NoWrites
<1>7. \A o \in Sessions \ {s} : writes'[o] = writes[o]
  BY DEF Local, Others
<1>8. ASSUME NEW x \in Sessions, NEW o \in Sessions, x # o,
             NEW k \in DOMAIN writes[x].groups
      PROVE  k \notin DOMAIN writes[o].groups
  BY <1>8 DEF Groups, GroupLocks
<1>9. ASSUME NEW x \in Sessions \ {s}, NEW i \in DOMAIN writes'[x].groups,
             writes'[x].groups[i] # NULL
      PROVE  /\ \A k \in Tags \ {i} : View(x)'.groups[k] # writes'[x].groups[i]
             /\ \A o \in Sessions \ {x} : \A j \in DOMAIN writes'[o].groups :
                  writes'[x].groups[i] \notin {writes'[o].groups[j], committed'.groups[j]}
  <2> DEFINE v == writes[x].groups[i]
  <2>1. /\ i \in DOMAIN writes[x].groups /\ writes'[x].groups[i] = v
        /\ v # NULL /\ i \in Tags
    BY <1>2, <1>7, <1>9
  <2>2. /\ \A k \in Tags \ {i} : View(x).groups[k] # v
        /\ \A o \in Sessions \ {x} : \A j \in DOMAIN writes[o].groups :
             v # writes[o].groups[j] /\ v # committed.groups[j]
    BY <1>3, <2>1 DEF OwnGuid, TouchesGuid
  <2> HIDE DEF v
  <2>3. ASSUME NEW k \in Tags \ {i} PROVE View(x)'.groups[k] # v
    <3>1. CASE k \in DOMAIN writes[x].groups
      <4>1. View(x)'.groups[k] = View(x).groups[k]
        BY <1>7, <3>1, GroupsSeen
      <4> QED
        BY <2>2, <4>1
    <3>2. CASE k \notin DOMAIN writes[x].groups
      <4>1. View(x)'.groups[k] = committed'.groups[k] /\ View(x).groups[k] = committed.groups[k]
        BY <1>7, <3>2, GroupsSeen
      <4>2. committed.groups[k] # v
        BY <2>2, <4>1
      <4>3. View(s).groups[k] # v
        BY <2>2, <4>2, GroupsSeen
      <4> QED
        BY <4>1, <4>2, <4>3
    <3> QED
      BY <3>1, <3>2
  <2>4. ASSUME NEW o \in Sessions \ {x}, NEW j \in DOMAIN writes'[o].groups
        PROVE  v # writes'[o].groups[j] /\ v # committed'.groups[j]
    <3>1. o # s /\ j \in DOMAIN writes[o].groups /\ writes'[o].groups[j] = writes[o].groups[j]
      BY <1>6, <1>7, <2>4
    <3>2. j \in Tags /\ j \notin DOMAIN writes[s].groups
      BY <1>2, <1>8, <3>1
    <3>3. View(s).groups[j] = committed.groups[j]
      BY <3>2, GroupsSeen
    <3> QED
      BY <2>2, <3>1, <3>3
  <2> QED
    BY <2>1, <2>3, <2>4
<1>10. Own'
  BY <1>6, <1>9 DEF Own, OwnGuid, TouchesGuid
<1> QED
  BY <1>1, <1>5, <1>10 DEF Groups

---------------------------------------------------------------------------
(* The destinations: with every policy, and never without one *)

\* What another session's step leaves alone.
LEMMA RowsUnmoved ==
  ASSUME NEW s \in Sessions, Local(s), committed' = committed,
         NEW x \in Sessions \ {s}, Rows(x)
  PROVE  Rows(x)'
<1>1. call'[x] = call[x] /\ writes'[x] = writes[x] /\ locks'[x] = locks[x]
  BY DEF Local, Others
<1>2. Dest(x)' = Dest(x)
  BY <1>1 DEF Dest, P
<1>3. DestLocked(x)'
  BY <1>1, <1>2 DEF Rows, DestLocked
<1>4. Inserted(x)'
  BY <1>1, <1>2 DEF Rows, Inserted
<1>5. Deleted(x)'
  BY <1>1, <1>2 DEF Rows, Deleted
<1> QED
  BY <1>3, <1>4, <1>5 DEF Rows

\* A step of s that commits nothing: what it has to show.
LEMMA OwnRows ==
  ASSUME Destinations, NEW s \in Sessions, Local(s), committed' = committed,
         \A o \in Sessions \ {s} : /\ locks'[s].dest \cap locks[o].dest = {}
                                   /\ writes'[s].insD \cap writes[o].insD = {},
         DestLocked(s)', Inserted(s)', Deleted(s)'
  PROVE  Destinations'
<1>1. Consistent'
  BY DEF Destinations, Consistent, DestinationInUse
<1>2. \A o \in Sessions \ {s} : writes'[o] = writes[o] /\ locks'[o] = locks[o]
  BY DEF Local, Others
<1>3. Apart'
  <2> SUFFICES ASSUME NEW x \in Sessions, NEW o \in Sessions, x # o
               PROVE  /\ locks'[x].dest \cap locks'[o].dest = {}
                      /\ writes'[x].insD \cap writes'[o].insD = {}
    BY DEF Apart
  <2>1. CASE x # s /\ o # s
    BY <1>2, <2>1 DEF Destinations, Apart
  <2>2. CASE x = s
    BY <1>2, <2>2
  <2>3. CASE o = s
    BY <1>2, <2>3
  <2> QED
    BY <2>1, <2>2, <2>3
<1>4. \A x \in Sessions : Rows(x)'
  BY RowsUnmoved DEF Destinations, Rows
<1> QED
  BY <1>1, <1>3, <1>4 DEF Destinations

LEMMA DestinationsQuiet ==
  ASSUME Destinations, NEW s \in Sessions, Local(s), DestQuiet(s)
  PROVE  Destinations'
<1>1. /\ committed' = committed /\ locks'[s].dest = locks[s].dest
      /\ writes'[s].insD = writes[s].insD /\ writes'[s].delD = writes[s].delD
      /\ writes'[s].insP = writes[s].insP /\ writes'[s].delP = writes[s].delP
      /\ call[s].pc \notin {"getDest", "insertPol", "countDest", "deleteDest"}
      /\ call'[s].pc \notin {"insertPol", "deletePol", "countDest", "deleteDest"}
  BY DEF DestQuiet
<1>2. DestLocked(s) /\ Inserted(s) /\ Deleted(s) /\ Apart
  BY DEF Destinations, Rows
<1>3. DestLocked(s)'
  BY <1>1, <1>2 DEF DestLocked
<1>4. Inserted(s)'
  BY <1>1, <1>2 DEF Inserted
<1>5. Deleted(s)'
  BY <1>1, <1>2 DEF Deleted
<1>6. \A o \in Sessions \ {s} : /\ locks'[s].dest \cap locks[o].dest = {}
                                 /\ writes'[s].insD \cap writes[o].insD = {}
  BY <1>1, <1>2 DEF Apart
<1> QED
  BY <1>1, <1>3, <1>4, <1>5, <1>6, OwnRows

LEMMA InsertDestRows ==
  ASSUME driver # "mysql", Shape, Destinations, NEW s \in Sessions, InsertDest(s)
  PROVE  Destinations'
<1>1. /\ Local(s) /\ committed' = committed /\ locks'[s].dest = locks[s].dest
      /\ call[s].pc = "insertDest" /\ call'[s].pc = "getDest" /\ Dest(s)' = Dest(s)
      /\ writes'[s].insP = writes[s].insP /\ writes'[s].delP = writes[s].delP
      /\ writes[s].delD = {} /\ writes'[s].delD = {} /\ writes[s].delP = {}
      /\ \/ writes'[s].insD = writes[s].insD
         \/ /\ Dest(s) \notin View(s).destinations
            /\ writes'[s].insD = writes[s].insD \cup {Dest(s)}
            /\ \A o \in Sessions \ {s} : Dest(s) \notin writes[o].insD
  BY InsertDestStep DEF GroupQuiet
<1>2. DestLocked(s) /\ Inserted(s) /\ Deleted(s) /\ Apart
  BY DEF Destinations, Rows
<1>3. Dest(s) \notin View(s).destinations => Dest(s) \notin committed.destinations
  BY <1>1, ViewTables DEF Shape
<1>4. DestLocked(s)'
  BY <1>1, <1>2 DEF DestLocked
<1>5. Inserted(s)'
  BY <1>1, <1>2, <1>3 DEF Inserted
<1>6. Deleted(s)'
  BY <1>1, <1>2 DEF Deleted
<1>7. \A o \in Sessions \ {s} : /\ locks'[s].dest \cap locks[o].dest = {}
                                 /\ writes'[s].insD \cap writes[o].insD = {}
  BY <1>1, <1>2 DEF Apart
<1> QED
  BY <1>1, <1>4, <1>5, <1>6, <1>7, OwnRows

LEMMA CreateGetDestRows ==
  ASSUME driver # "mysql", Shape, Destinations, NEW s \in Sessions, CreateGetDest(s)
  PROVE  Destinations'
<1>1. /\ Local(s) /\ committed' = committed /\ writes' = writes
      /\ call[s].pc = "getDest" /\ call'[s].pc = "insertPol"
      /\ Dest(s)' = Dest(s) /\ Dest(s) \in View(s).destinations
      /\ locks'[s].dest = locks[s].dest \cup {Dest(s)}
      /\ writes[s].delD = {} /\ writes[s].delP = {}
      /\ \A o \in Sessions \ {s} : Dest(s) \notin locks[o].dest
  BY CreateGetDestStep DEF GroupQuiet
<1>2. DestLocked(s) /\ Inserted(s) /\ Deleted(s) /\ Apart
  BY DEF Destinations, Rows
<1>3. Dest(s) \in committed.destinations \cup writes[s].insD
  BY <1>1, ViewTables DEF Shape
<1>4. \A d \in committed.destinations : \E r \in committed.policies : r.destination = d
  BY DEF Destinations, Consistent, DestinationInUse
<1>5. DestLocked(s)'
  BY <1>1, <1>2 DEF DestLocked
<1>6. Inserted(s)'
  BY <1>1, <1>2, <1>3 DEF Inserted
<1>7. Deleted(s)'
  BY <1>1, <1>2, <1>4 DEF Deleted
<1>8. \A o \in Sessions \ {s} : /\ locks'[s].dest \cap locks[o].dest = {}
                                 /\ writes'[s].insD \cap writes[o].insD = {}
  BY <1>1, <1>2 DEF Apart
<1> QED
  BY <1>1, <1>5, <1>6, <1>7, <1>8, OwnRows

LEMMA InsertPolRows ==
  ASSUME Shape, Destinations, NEW s \in Sessions, InsertPol(s)
  PROVE  Destinations'
<1>1. /\ Local(s) /\ committed' = committed /\ locks'[s].dest = locks[s].dest
      /\ call[s].pc = "insertPol" /\ call'[s].pc \in {"find", "commit"}
      /\ PolRow(s).destination = Dest(s)
      /\ writes'[s].insD = writes[s].insD
      /\ writes[s].delD = {} /\ writes'[s].delD = {}
      /\ writes[s].delP = {} /\ writes'[s].delP = {}
      /\ \/ PolRow(s) \in View(s).policies /\ writes'[s].insP = writes[s].insP
         \/ writes'[s].insP = writes[s].insP \cup {PolRow(s)}
  BY InsertPolStep DEF GroupQuiet
<1>2. DestLocked(s) /\ Inserted(s) /\ Deleted(s) /\ Apart
  BY DEF Destinations, Rows
<1>3. View(s).policies \subseteq committed.policies \cup writes[s].insP
  BY ViewTables DEF Shape
<1>4. \A r \in committed.policies : r.destination \in committed.destinations
  BY DEF Destinations, Consistent
<1>5. PolRow(s) \in writes'[s].insP \/ Dest(s) \in committed.destinations
  BY <1>1, <1>3, <1>4
<1>6. DestLocked(s)'
  BY <1>1, <1>2 DEF DestLocked
<1>7. Inserted(s)'
  <2>1. \A d \in writes'[s].insD : \E r \in writes'[s].insP : r.destination = d
    BY <1>1, <1>2, <1>5 DEF Inserted
  <2> QED
    BY <1>1, <1>2, <2>1 DEF Inserted
<1>8. Deleted(s)'
  BY <1>1, <1>2 DEF Deleted
<1>9. \A o \in Sessions \ {s} : /\ locks'[s].dest \cap locks[o].dest = {}
                                 /\ writes'[s].insD \cap writes[o].insD = {}
  BY <1>1, <1>2 DEF Apart
<1> QED
  BY <1>1, <1>6, <1>7, <1>8, <1>9, OwnRows

LEMMA DeleteGetDestRows ==
  ASSUME driver # "mysql", Shape, Destinations, NEW s \in Sessions, DeleteGetDest(s)
  PROVE  Destinations'
<1>1. /\ Local(s) /\ committed' = committed /\ writes' = writes
      /\ call[s].pc = "getDest" /\ writes[s].insD = {} /\ writes[s].insP = {}
      /\ \/ /\ locks'[s].dest = locks[s].dest \cup {Dest(s)}
            /\ call'[s].pc = "deletePol" /\ Dest(s)' = Dest(s)
            /\ Dest(s) \in View(s).destinations
            /\ \A o \in Sessions \ {s} : Dest(s) \notin locks[o].dest
         \/ locks'[s].dest = locks[s].dest /\ call'[s].pc \in {"find", "commit"}
  BY DeleteGetDestStep DEF GroupQuiet
<1>2. DestLocked(s) /\ Inserted(s) /\ Deleted(s) /\ Apart
  BY DEF Destinations, Rows
<1>3. \A d \in committed.destinations : \E r \in committed.policies : r.destination = d
  BY DEF Destinations, Consistent, DestinationInUse
<1>4. DestLocked(s)'
  BY <1>1, <1>2 DEF DestLocked
<1>5. Inserted(s)'
  BY <1>1, <1>2 DEF Inserted
<1>6. Deleted(s)'
  <2>1. \A d \in locks[s].dest \cap committed.destinations :
          \/ d \in writes[s].delD
          \/ \E r \in committed.policies : r \notin writes[s].delP /\ r.destination = d
    BY <1>1, <1>2 DEF Deleted
  <2>2. Dest(s) \in committed.destinations /\ Dest(s) \notin locks[s].dest =>
          \E r \in committed.policies : r \notin writes[s].delP /\ r.destination = Dest(s)
    BY <1>2, <1>3 DEF DestLocked
  <2>3. \A d \in locks'[s].dest \cap committed.destinations :
          \/ d \in writes[s].delD
          \/ \E r \in committed.policies : r \notin writes[s].delP /\ r.destination = d
    BY <1>1, <2>1, <2>2
  <2> QED
    BY <1>1, <1>2, <2>3 DEF Deleted
<1>7. \A o \in Sessions \ {s} : /\ locks'[s].dest \cap locks[o].dest = {}
                                 /\ writes'[s].insD \cap writes[o].insD = {}
  BY <1>1, <1>2 DEF Apart
<1> QED
  BY <1>1, <1>4, <1>5, <1>6, <1>7, OwnRows

LEMMA DeletePolRows ==
  ASSUME Shape, Destinations, NEW s \in Sessions, DeletePol(s)
  PROVE  Destinations'
<1>1. /\ Local(s) /\ committed' = committed /\ locks' = locks
      /\ call[s].pc = "deletePol" /\ call'[s].pc = "countDest"
      /\ Dest(s)' = Dest(s) /\ PolRow(s).destination = Dest(s)
      /\ writes'[s].insD = {} /\ writes'[s].insP = {}
      /\ writes'[s].delD = writes[s].delD
      /\ writes'[s].delP = writes[s].delP \cup {PolRow(s)}
  BY DeletePolStep DEF GroupQuiet
<1>2. DestLocked(s) /\ Inserted(s) /\ Deleted(s) /\ Apart
  BY DEF Destinations, Rows
<1>3. DestLocked(s)'
  BY <1>1, <1>2 DEF DestLocked
<1>4. Inserted(s)'
  BY <1>1 DEF Inserted
<1>5. Deleted(s)'
  <2>1. \A d \in locks[s].dest \cap committed.destinations :
          \/ d \in writes[s].delD
          \/ \E r \in committed.policies : r \notin writes[s].delP /\ r.destination = d
    BY <1>1, <1>2 DEF Deleted
  <2>2. \A d \in locks[s].dest \cap committed.destinations :
          \/ d \in writes[s].delD \/ d = Dest(s)
          \/ \E r \in committed.policies : r \notin writes'[s].delP /\ r.destination = d
    BY <1>1, <2>1
  <2> QED
    BY <1>1, <1>2, <2>2 DEF Deleted
<1>6. \A o \in Sessions \ {s} : /\ locks'[s].dest \cap locks[o].dest = {}
                                 /\ writes'[s].insD \cap writes[o].insD = {}
  BY <1>1, <1>2 DEF Apart
<1> QED
  BY <1>1, <1>3, <1>4, <1>5, <1>6, OwnRows

LEMMA CountDestRows ==
  ASSUME driver # "mysql", Shape, Destinations, NEW s \in Sessions, CountDest(s)
  PROVE  Destinations'
<1>1. /\ Local(s) /\ committed' = committed /\ locks' = locks /\ writes' = writes
      /\ call[s].pc = "countDest"
      /\ Dest(s)' = Dest(s) /\ writes[s].insD = {} /\ writes[s].insP = {}
      /\ \/ call'[s].pc = "countPol" /\ DestinationInUse(View(s), Dest(s))
         \/ call'[s].pc = "deleteDest" /\ ~DestinationInUse(View(s), Dest(s))
  BY CountDestStep DEF GroupQuiet, Reads, MySQL
<1>2. DestLocked(s) /\ Inserted(s) /\ Deleted(s) /\ Apart
  BY DEF Destinations, Rows
<1>3. View(s).policies = committed.policies \ writes[s].delP
  BY <1>1, ViewTables DEF Shape
<1>4. DestinationInUse(View(s), Dest(s)) <=>
        \E r \in committed.policies : r \notin writes[s].delP /\ r.destination = Dest(s)
  BY <1>3 DEF DestinationInUse
<1>5. DestLocked(s)'
  BY <1>1, <1>2 DEF DestLocked
<1>6. Inserted(s)'
  BY <1>1 DEF Inserted
<1>7. Deleted(s)'
  BY <1>1, <1>2, <1>4 DEF Deleted
<1>8. \A o \in Sessions \ {s} : /\ locks'[s].dest \cap locks[o].dest = {}
                                 /\ writes'[s].insD \cap writes[o].insD = {}
  BY <1>1, <1>2 DEF Apart
<1> QED
  BY <1>1, <1>5, <1>6, <1>7, <1>8, OwnRows

LEMMA DeleteDestRows ==
  ASSUME Shape, Destinations, NEW s \in Sessions, DeleteDest(s)
  PROVE  Destinations'
<1>1. /\ Local(s) /\ committed' = committed /\ locks' = locks
      /\ call[s].pc = "deleteDest" /\ call'[s].pc = "countPol"
      /\ writes'[s].insD = {} /\ writes'[s].insP = {}
      /\ writes'[s].delD = writes[s].delD \cup {Dest(s)}
      /\ writes'[s].delP = writes[s].delP
  BY DeleteDestStep DEF GroupQuiet
<1>2. DestLocked(s) /\ Inserted(s) /\ Deleted(s) /\ Apart
  BY DEF Destinations, Rows
<1>3. DestLocked(s)'
  BY <1>1, <1>2 DEF DestLocked
<1>4. Inserted(s)'
  BY <1>1 DEF Inserted
<1>5. Deleted(s)'
  BY <1>1, <1>2 DEF Deleted
<1>6. \A o \in Sessions \ {s} : /\ locks'[s].dest \cap locks[o].dest = {}
                                 /\ writes'[s].insD \cap writes[o].insD = {}
  BY <1>1, <1>2 DEF Apart
<1> QED
  BY <1>1, <1>3, <1>4, <1>5, <1>6, OwnRows

\* A session that has ended has nothing left to show.
LEMMA EndedRows ==
  ASSUME NEW s \in Sessions, call'[s] = Idle, writes'[s] = NoWrites, locks'[s] = NoLocks
  PROVE  Rows(s)'
<1>1. /\ writes'[s].insD = {} /\ writes'[s].delD = {} /\ writes'[s].insP = {}
      /\ writes'[s].delP = {} /\ locks'[s].dest = {} /\ call'[s].pc = "begin"
  BY DEF NoWrites, NoLocks, Idle
<1> QED
  BY <1>1 DEF Rows, DestLocked, Inserted, Deleted

LEMMA EndedApart ==
  ASSUME Destinations, NEW s \in Sessions, Local(s),
         writes'[s] = NoWrites, locks'[s] = NoLocks
  PROVE  Apart'
<1>1. writes'[s].insD = {} /\ locks'[s].dest = {}
  BY DEF NoWrites, NoLocks
<1>2. \A o \in Sessions \ {s} : writes'[o] = writes[o] /\ locks'[o] = locks[o]
  BY DEF Local, Others
<1> QED
  BY <1>1, <1>2 DEF Destinations, Apart

LEMMA RollbackRows ==
  ASSUME Shape, Destinations, NEW s \in Sessions, Rollback(s)
  PROVE  Destinations'
<1>1. /\ Local(s) /\ call'[s] = Idle /\ writes'[s] = NoWrites /\ locks'[s] = NoLocks
      /\ committed' = committed
  BY RollbackStep
<1>2. Rows(s)' /\ Apart'
  BY <1>1, EndedRows, EndedApart
<1>3. \A x \in Sessions : Rows(x)'
  BY <1>1, <1>2, RowsUnmoved DEF Destinations
<1>4. Consistent'
  BY <1>1 DEF Destinations, Consistent, DestinationInUse
<1> QED
  BY <1>2, <1>3, <1>4 DEF Destinations

LEMMA CommitRows ==
  ASSUME Shape, Destinations, NEW s \in Sessions, Commit(s)
  PROVE  Destinations'
<1>1. /\ Local(s) /\ call'[s] = Idle /\ writes'[s] = NoWrites /\ locks'[s] = NoLocks
      /\ committed' = View(s) /\ call[s].pc = "commit"
  BY CommitStep
<1>2. DestLocked(s) /\ Inserted(s) /\ Deleted(s) /\ Apart /\ Consistent
  BY DEF Destinations, Rows
<1>3. /\ committed'.destinations =
           (committed.destinations \cup writes[s].insD) \ writes[s].delD
      /\ committed'.policies = (committed.policies \cup writes[s].insP) \ writes[s].delP
  BY <1>1, ViewTables DEF Shape
<1>4. \/ writes[s].delD = {} /\ writes[s].delP = {}
      \/ writes[s].insD = {} /\ writes[s].insP = {}
  BY <1>1 DEF Shape, SessionOK, Running, NoWrites
<1>5. \A d \in writes[s].insD : \E r \in writes[s].insP : r.destination = d
  BY <1>1, <1>2 DEF Inserted
<1>6. \A r \in committed'.policies : r.destination \in committed'.destinations
  <2> SUFFICES ASSUME NEW r \in committed'.policies
               PROVE  r.destination \in committed'.destinations
    OBVIOUS
  <2>1. CASE r \in committed.policies
    BY <1>2, <1>3, <2>1 DEF Consistent, Deleted
  <2>2. CASE r \in writes[s].insP
    BY <1>2, <1>3, <1>4, <2>2 DEF Inserted
  <2> QED
    BY <1>3, <2>1, <2>2
<1>7. \A d \in committed'.destinations : \E r \in committed'.policies : r.destination = d
  <2> SUFFICES ASSUME NEW d \in committed'.destinations
               PROVE  \E r \in committed'.policies : r.destination = d
    OBVIOUS
  <2>1. CASE d \in writes[s].insD
    <3>1. PICK r \in writes[s].insP : r.destination = d
      BY <1>5, <2>1
    <3>2. r \in committed'.policies
      BY <1>3, <1>4, <3>1
    <3> QED
      BY <3>1, <3>2
  <2>2. CASE d \in committed.destinations
    <3>1. \E r \in committed.policies : r \notin writes[s].delP /\ r.destination = d
      <4>1. CASE d \in locks[s].dest
        BY <1>1, <1>2, <1>3, <2>2, <4>1 DEF Deleted
      <4>2. CASE d \notin locks[s].dest
        BY <1>2, <2>2, <4>2 DEF Consistent, DestinationInUse, DestLocked
      <4> QED
        BY <4>1, <4>2
    <3> QED
      BY <1>3, <3>1
  <2> QED
    BY <1>3, <2>1, <2>2
<1>8. Consistent'
  BY <1>6, <1>7 DEF Consistent, DestinationInUse
<1>9. ASSUME NEW x \in Sessions \ {s} PROVE Rows(x)'
  <2>1. call'[x] = call[x] /\ writes'[x] = writes[x] /\ locks'[x] = locks[x]
    BY <1>1 DEF Local, Others
  <2>2. Dest(x)' = Dest(x)
    BY <2>1 DEF Dest, P
  <2>3. DestLocked(x) /\ Inserted(x) /\ Deleted(x)
    BY DEF Destinations, Rows
  <2>4. locks[x].dest \cap locks[s].dest = {} /\ writes[x].insD \cap writes[s].insD = {}
    BY <1>2 DEF Apart
  <2>5. \A d \in locks[x].dest :
          /\ d \notin writes[s].delD /\ d \notin writes[s].insD
          /\ \A r \in writes[s].insP \cup writes[s].delP : r.destination # d
    BY <1>2, <1>5, <2>4 DEF DestLocked
  <2>6. DestLocked(x)'
    BY <2>1, <2>2, <2>3 DEF DestLocked
  <2>7. Inserted(x)'
    <3>1. writes[x].insD \cap committed'.destinations = {}
      BY <1>3, <2>3, <2>4 DEF Inserted
    <3>2. \A r \in writes[x].insP :
            r.destination \in committed'.destinations \cup writes[x].insD
      BY <1>3, <2>3, <2>5 DEF Inserted, DestLocked
    <3>3. call[x].pc = "insertPol" => Dest(x) \in committed'.destinations \cup writes[x].insD
      BY <1>3, <2>3, <2>5 DEF Inserted, DestLocked
    <3> QED
      BY <2>1, <2>2, <2>3, <3>1, <3>2, <3>3 DEF Inserted
  <2>8. Deleted(x)'
    <3>1. \A r \in committed'.policies :
            /\ r.destination \in writes[x].delD => r \in writes[x].delP
            /\ call[x].pc = "deleteDest" /\ r.destination = Dest(x) => r \in writes[x].delP
      <4> SUFFICES ASSUME NEW r \in committed'.policies
                   PROVE  /\ r.destination \in writes[x].delD => r \in writes[x].delP
                          /\ call[x].pc = "deleteDest" /\ r.destination = Dest(x) =>
                               r \in writes[x].delP
        OBVIOUS
      <4>1. CASE r \in committed.policies
        BY <2>3, <4>1 DEF Deleted
      <4>2. CASE r \in writes[s].insP
        BY <2>3, <2>5, <4>2 DEF DestLocked
      <4> QED
        BY <1>3, <4>1, <4>2
    <3>2. \A d \in locks[x].dest \cap committed'.destinations :
            \/ d \in writes[x].delD
            \/ \E r \in committed'.policies : r \notin writes[x].delP /\ r.destination = d
            \/ call[x].pc \in {"countDest", "deleteDest"} /\ d = Dest(x)
      <4> SUFFICES ASSUME NEW d \in locks[x].dest, d \in committed'.destinations,
                          d \notin writes[x].delD,
                          ~(call[x].pc \in {"countDest", "deleteDest"} /\ d = Dest(x))
                   PROVE  \E r \in committed'.policies :
                            r \notin writes[x].delP /\ r.destination = d
        OBVIOUS
      <4>1. d \in committed.destinations
        BY <1>3, <2>5
      <4>2. PICK r \in committed.policies : r \notin writes[x].delP /\ r.destination = d
        BY <2>3, <4>1 DEF Deleted
      <4>3. r \in committed'.policies
        BY <1>3, <2>5, <4>2
      <4> QED
        BY <4>2, <4>3
    <3> QED
      BY <2>1, <2>2, <3>1, <3>2 DEF Deleted
  <2> QED
    BY <2>6, <2>7, <2>8 DEF Rows
<1>10. Rows(s)' /\ Apart'
  BY <1>1, EndedRows, EndedApart
<1>11. \A x \in Sessions : Rows(x)'
  BY <1>9, <1>10
<1> QED
  BY <1>8, <1>10, <1>11 DEF Destinations

---------------------------------------------------------------------------
(* The whole next-state relation *)

\* The destinations only on Postgres: MySQL's locks do not keep them.
Inv == driver \in Drivers /\ Shape /\ Groups /\ (driver # "mysql" => Destinations)

LEMMA InitInv ==
  ASSUME Init
  PROVE  Inv
<1>1. /\ committed = EmptyTables /\ call = [s \in Sessions |-> Idle]
      /\ writes = [s \in Sessions |-> NoWrites] /\ locks = [s \in Sessions |-> NoLocks]
      /\ calls = 0 /\ driver \in Drivers
  BY DEF Init
<1>2. EmptyTables \in Tables
  BY DEF EmptyTables, Tables
<1>3. Types
  BY <1>1, <1>2, NothingWritten DEF Types
<1>4. \A s \in Sessions : /\ call[s] = Idle /\ writes[s] = NoWrites /\ locks[s] = NoLocks
  BY <1>1
<1>5. Shape
  BY <1>3, <1>4 DEF Shape, SessionOK
<1>6. /\ \A s \in Sessions : /\ DOMAIN writes[s].groups = {} /\ locks[s].group = {}
                             /\ call[s].pc = "begin"
      /\ \A s \in Sessions : /\ writes[s].insD = {} /\ writes[s].delD = {}
                             /\ writes[s].insP = {} /\ writes[s].delP = {}
                             /\ locks[s].dest = {}
  BY <1>4, NothingWritten DEF NoWrites, NoLocks, Idle
<1>7. /\ \A i \in Tags : committed.groups[i] = NULL
      /\ committed.destinations = {} /\ committed.policies = {}
  BY <1>1 DEF EmptyTables
<1>8. Groups
  BY <1>6, <1>7 DEF Groups, GroupLocks, GuidHasOneTag, Own
<1>9. Destinations
  BY <1>6, <1>7 DEF Destinations, Consistent, Apart, Rows, DestLocked, Inserted, Deleted
<1> QED
  BY <1>1, <1>5, <1>8, <1>9 DEF Inv

LEMMA LocalShape ==
  ASSUME Shape, NEW s \in Sessions, Local(s)
  PROVE  Shape'
<1>1. \A x \in Sessions : SessionOK(call'[x], writes'[x], locks'[x])
  BY DEF Shape, Local, Others
<1>2. Types'
  BY DEF Local
<1> QED
  BY <1>1, <1>2 DEF Shape

LEMMA StepInv ==
  ASSUME Inv, NEW s \in Sessions, Step(s), driver' = driver
  PROVE  Inv'
<1>0. driver \in Drivers /\ Shape /\ Groups /\ (driver # "mysql" => Destinations)
  BY DEF Inv
<1>1. CASE FindRowByGUID(s)
  BY <1>0, <1>1, FindRowByGUIDStep, LocalShape, GroupsQuiet, DestinationsQuiet DEF Inv
<1>2. CASE FirstBlank(s)
  BY <1>0, <1>2, FirstBlankStep, LocalShape, FirstBlankGroups, DestinationsQuiet DEF Inv
<1>3. CASE Update(s)
  BY <1>0, <1>3, UpdateStep, LocalShape, UpdateGroups, DestinationsQuiet DEF Inv
<1>4. CASE InsertDest(s)
  BY <1>0, <1>4, InsertDestStep, LocalShape, GroupsQuiet, InsertDestRows DEF Inv
<1>5. CASE CreateGetDest(s)
  BY <1>0, <1>5, CreateGetDestStep, LocalShape, GroupsQuiet, CreateGetDestRows DEF Inv
<1>6. CASE InsertPol(s)
  BY <1>0, <1>6, InsertPolStep, LocalShape, GroupsQuiet, InsertPolRows DEF Inv
<1>7. CASE DeleteFind(s)
  BY <1>0, <1>7, DeleteFindStep, LocalShape, GroupsQuiet, DestinationsQuiet DEF Inv
<1>8. CASE DeleteGetDest(s)
  BY <1>0, <1>8, DeleteGetDestStep, LocalShape, GroupsQuiet, DeleteGetDestRows DEF Inv
<1>9. CASE DeletePol(s)
  BY <1>0, <1>9, DeletePolStep, LocalShape, GroupsQuiet, DeletePolRows DEF Inv
<1>10. CASE CountDest(s)
  BY <1>0, <1>10, CountDestStep, LocalShape, GroupsQuiet, CountDestRows DEF Inv
<1>11. CASE DeleteDest(s)
  BY <1>0, <1>11, DeleteDestStep, LocalShape, GroupsQuiet, DeleteDestRows DEF Inv
<1>12. CASE CountGroupPolicies(s)
  BY <1>0, <1>12, CountGroupPoliciesStep, LocalShape, GroupsQuiet, DestinationsQuiet DEF Inv
<1>13. CASE CountGroupDestinations(s)
  BY <1>0, <1>13, CountGroupDestinationsStep, LocalShape, GroupsQuiet, DestinationsQuiet
  DEF Inv
<1>14. CASE FreeGroup(s)
  BY <1>0, <1>14, FreeGroupStep, LocalShape, FreeGroupGroups, DestinationsQuiet DEF Inv
<1>15. CASE Commit(s)
  BY <1>0, <1>15, CommitStep, LocalShape, EndGroups, CommitRows DEF Inv
<1>16. CASE Rollback(s)
  BY <1>0, <1>16, RollbackStep, LocalShape, EndGroups, RollbackRows DEF Inv
<1> QED
  BY <1>1, <1>2, <1>3, <1>4, <1>5, <1>6, <1>7, <1>8, <1>9, <1>10, <1>11, <1>12, <1>13,
     <1>14, <1>15, <1>16 DEF Step, RollbackFailed

LEMMA NextInv ==
  ASSUME Inv, [Next]_txvars
  PROVE  Inv'
<1>0. driver \in Drivers /\ Shape /\ Groups /\ (driver # "mysql" => Destinations)
  BY DEF Inv
<1>1. ASSUME NEW s \in Sessions, BeginCreate(s) \/ BeginDelete(s), driver' = driver PROVE Inv'
  <2>1. PICK op \in {"create", "delete"}, list \in Lists : Begin(s, op, list)
    BY <1>1 DEF BeginCreate, BeginDelete
  <2>2. Local(s) /\ GroupQuiet(s) /\ DestQuiet(s)
    BY <1>0, <2>1, BeginStep
  <2> QED
    BY <1>0, <1>1, <2>2, LocalShape, GroupsQuiet, DestinationsQuiet DEF Inv
<1>2. ASSUME NEW s \in Sessions, Step(s), driver' = driver PROVE Inv'
  BY <1>2, StepInv
<1>3. ASSUME NEW s \in Sessions, RollbackDbError(s), driver' = driver PROVE Inv'
  <2>1. Rollback(s)
    BY <1>3 DEF RollbackDbError
  <2> QED
    BY <1>0, <1>3, <2>1, RollbackStep, LocalShape, EndGroups, RollbackRows DEF Inv
<1>4. CASE UNCHANGED txvars
  <2>1. /\ committed' = committed /\ call' = call /\ writes' = writes /\ locks' = locks
        /\ calls' = calls /\ driver' = driver
    BY <1>4 DEF txvars
  <2>2. Shape'
    BY <1>0, <2>1 DEF Shape, Types
  <2>3. Groups'
    <3>1. Own' /\ GuidHasOneTag'
      BY <1>0, <2>1, OwnFrame DEF Groups
    <3>2. GroupLocks'
      BY <1>0, <2>1 DEF Groups, GroupLocks, Row
    <3> QED
      BY <3>1, <3>2 DEF Groups
  <2>4. ASSUME driver # "mysql" PROVE Destinations'
    <3>0. Destinations
      BY <1>0, <2>4
    <3>1. \A x \in Sessions : Dest(x)' = Dest(x)
      BY <2>1 DEF Dest, P
    <3>2. Consistent' /\ Apart'
      BY <3>0, <2>1 DEF Destinations, Consistent, Apart, DestinationInUse
    <3>3. ASSUME NEW x \in Sessions PROVE Rows(x)'
      <4>1. DestLocked(x)'
        BY <3>0, <2>1, <3>1 DEF Destinations, Rows, DestLocked
      <4>2. Inserted(x)'
        BY <3>0, <2>1, <3>1 DEF Destinations, Rows, Inserted
      <4>3. Deleted(x)'
        BY <3>0, <2>1, <3>1 DEF Destinations, Rows, Deleted
      <4> QED
        BY <4>1, <4>2, <4>3 DEF Rows
    <3> QED
      BY <3>2, <3>3 DEF Destinations
  <2> QED
    BY <1>0, <2>1, <2>2, <2>3, <2>4 DEF Inv
<1> QED
  BY <1>1, <1>2, <1>3, <1>4 DEF Next, Done

\* However transactions overlap, wait, fail and are rolled back, no two tags
\* have the same guid: the lookup of GroupTable.Create may be stale, but the
\* row lock of firstBlankRow and the unique key of groups.guid catch it, on
\* either database.
THEOREM OneTagPerGuid == Spec => []GuidHasOneTag
<1>1. Init => Inv
  BY InitInv
<1>2. Inv /\ [Next]_txvars => Inv'
  BY NextInv
<1>3. Inv => GuidHasOneTag
  BY DEF Inv, Groups
<1> QED
  BY <1>1, <1>2, <1>3, PTL DEF Spec

LEMMA InvTypes ==
  ASSUME Inv
  PROVE  TypeOK
<1>1. Types
  BY DEF Inv, Shape
<1>2. ASSUME NEW s \in Sessions
      PROVE  /\ View(s) \in Tables /\ Reads(s) \in Tables
             /\ call[s].src \in Tags \cup {0} /\ call[s].dst \in Tags \cup {0}
             /\ locks[s].group \cup locks[s].share \subseteq Tags
             /\ locks[s].dest \subseteq DestinationRow
  <2>1. call[s] \in Calls /\ locks[s] \in Locks
    BY <1>1 DEF Types
  <2>2. View(s) \in Tables /\ Reads(s) \in Tables
    BY <1>1, ViewTables
  <2> QED
    BY <2>1, <2>2 DEF Calls, Locks
<1> QED
  BY <1>1, <1>2 DEF TypeOK, Types, Inv

\* However transactions overlap on Postgres, every committed policy has its
\* destinations row and every destinations row a policy: DestinationTable.GetID
\* locks the row FOR UPDATE before policies under it are added, deleted or
\* counted.  (With the types of the database and of what every session sees.)
\* On MySQL the theorem is about the types only: there the property fails.
THEOREM DestinationsStayConsistent == Spec => []DestinationsConsistent
<1>1. Init => Inv
  BY InitInv
<1>2. Inv /\ [Next]_txvars => Inv'
  BY NextInv
<1>3. Inv => DestinationsConsistent
  BY InvTypes DEF Inv, Destinations, Consistent, DestinationsConsistent, MySQL
<1> QED
  BY <1>1, <1>2, <1>3, PTL DEF Spec
=============================================================================
