--------------------------- MODULE LockedIPTables ---------------------------
(***************************************************************************)
(* rules.LockedIPTables: callers in several processes change the rules of  *)
(* the network namespaces of a cell.  An iptables command reads the table  *)
(* of a namespace and then replaces it, and iptables-restore does so once  *)
(* for all the rules it is given, so every call takes a lock that is kept  *)
(* in a file, and gives it back whatever happens in between.               *)
(*                                                                         *)
(* iptables, the file lock and the kernel are external.  One chain stands  *)
(* for the table of its namespace.  A command is a process of its own: it  *)
(* may outlive its caller, whose lock is free by then.                     *)
(***************************************************************************)
EXTENDS Naturals, Sequences, SequencesExt

CONSTANTS
  Callers,
  Spaces,       \* network namespaces
  Absent,       \* the chain does not exist
  NoCaller,
  MaxFaults     \* bound: commands and calls that fail by themselves

ASSUME LockedIPTablesAssumption ==
  NoCaller \notin Callers /\ Absent # <<>> /\ MaxFaults \in Nat

VARIABLES
  chain,    \* per namespace: the rules of the chain, or Absent
  holder,   \* who has the lock
  call,     \* per caller: the call it is in
  failed,   \* per caller: its last call has an error
  orphans,  \* the calls whose command still runs although the caller has ended
  overtaken,\* history: callers whose table an orphan has written since they read it
  faults

orphanvars == <<orphans, overtaken>>
ipvars == <<chain, holder, call, failed, orphanvars, faults>>

NoCall == [op |-> "none", space |-> "none", rules |-> <<>>, pos |-> 0,
           pc |-> "idle", seen |-> <<>>]

\* A call of the interface, before it asks for the lock.
Request(op, space, rules, pos) ==
  [NoCall EXCEPT !.op = op, !.space = space, !.rules = rules, !.pos = pos,
                 !.pc = "lock"]

---------------------------------------------------------------------------
(* What the commands make of a chain: the possible outcome, none if they fail *)

\* iptables-restore runs one "-I chain pos rule" per rule, so the last rule of
\* the list ends up first.
InsertAll(rules, pos, ch) ==
  SubSeq(ch, 1, pos - 1) \o Reverse(rules) \o SubSeq(ch, pos, Len(ch))

Outcome(c, ch) ==
  IF ch = Absent THEN IF c.op \in {"NewChain", "ClearChain"} THEN {<<>>} ELSE {} ELSE
  CASE c.op \in {"Exists", "List"} -> {ch}
    [] c.op = "NewChain" -> {}
    [] c.op = "ClearChain" -> {<<>>}
    [] c.op = "DeleteChain" -> IF ch = <<>> THEN {Absent} ELSE {}
    [] c.op = "Delete" ->
         IF \E i \in DOMAIN ch : ch[i] = c.rules[1]
         THEN {RemoveFirst(ch, c.rules[1])} ELSE {}
    [] c.op = "BulkAppend" -> {ch \o c.rules}
    [] c.op = "BulkInsert" ->
         IF c.pos <= Len(ch) + 1 THEN {InsertAll(c.rules, c.pos, ch)} ELSE {}

---------------------------------------------------------------------------
(* A call: Exists, Delete, List, chainExec or bulkAction *)

TableInit ==
  /\ chain = [s \in Spaces |-> <<>>]
  /\ holder = NoCaller
  /\ call = [c \in Callers |-> NoCall]
  /\ failed = [c \in Callers |-> FALSE]
  /\ orphans = {} /\ overtaken = {}
  /\ faults = 0

Fault == faults < MaxFaults /\ faults' = faults + 1
Goto(c, pc) == call' = [call EXCEPT ![c].pc = pc]
Error(c, e) == failed' = [failed EXCEPT ![c] = e]

Begin(c, request) ==
  /\ call[c] = NoCall
  /\ call' = [call EXCEPT ![c] = request]
  /\ Error(c, FALSE)
  /\ UNCHANGED <<chain, holder, orphanvars, faults>>

\* Mutant: the lock is not waited for.
Lock_Free(c) ==
  /\ call[c].pc = "lock"
  /\ holder' = c
  /\ Goto(c, "read")
  /\ UNCHANGED <<chain, failed, orphanvars, faults>>

\* Locker.Lock: the mutex of the process and the lock of the file.
Lock(c) ==
  /\ call[c].pc = "lock" /\ holder = NoCaller
  /\ holder' = c
  /\ Goto(c, "read")
  /\ UNCHANGED <<chain, failed, orphanvars, faults>>

\* The lock file cannot be opened: "lock: ...", and nothing is to be undone.
LockFails(c) ==
  /\ call[c].pc = "lock" /\ Fault
  /\ call' = [call EXCEPT ![c] = NoCall]
  /\ Error(c, TRUE)
  /\ UNCHANGED <<chain, holder, orphanvars>>

\* The command reads the table ...
ReadTable(c) ==
  /\ call[c].pc = "read"
  /\ call' = [call EXCEPT ![c].pc = "write", ![c].seen = chain[call[c].space]]
  /\ overtaken' = overtaken \ {c}
  /\ UNCHANGED <<chain, holder, failed, orphans, faults>>

\* ... and replaces it by what it makes of it, or fails and leaves it alone.
WriteTable(c) ==
  /\ call[c].pc = "write"
  /\ IF Outcome(call[c], call[c].seen) = {}
     THEN Error(c, TRUE) /\ UNCHANGED chain
     ELSE /\ \E ch \in Outcome(call[c], call[c].seen) :
               chain' = [chain EXCEPT ![call[c].space] = ch]
          /\ UNCHANGED failed
  /\ Goto(c, "unlock")
  /\ UNCHANGED <<holder, orphanvars, faults>>

\* The command cannot be run or fails by itself.
CommandFails(c) ==
  /\ call[c].pc \in {"read", "write"} /\ Fault
  /\ Error(c, TRUE)
  /\ Goto(c, "unlock")
  /\ UNCHANGED <<chain, holder, orphanvars>>

\* The call unlocks on its way out, after an error too (handleIPTablesError).
Unlock(c) ==
  /\ call[c].pc = "unlock"
  /\ holder' = NoCaller
  /\ call' = [call EXCEPT ![c] = NoCall]
  /\ UNCHANGED <<chain, failed, orphanvars, faults>>

\* Closing the lock file fails: the call is an error although it has been done.
UnlockFails(c) ==
  /\ call[c].pc = "unlock" /\ Fault
  /\ holder' = NoCaller
  /\ call' = [call EXCEPT ![c] = NoCall]
  /\ Error(c, TRUE)
  /\ UNCHANGED <<chain, orphanvars>>

\* The process of the caller ends: the kernel drops its file lock.  Nobody ends
\* the command that it was running, which goes on, unless it had not started or
\* had not been given all of its input.
Dies(c) ==
  /\ holder' = IF holder = c THEN NoCaller ELSE holder
  /\ call' = [call EXCEPT ![c] = NoCall]
  /\ Error(c, FALSE)
  /\ \/ UNCHANGED orphans
     \/ call[c].pc \in {"read", "write"} /\ orphans' = orphans \cup {call[c]}
  /\ UNCHANGED <<chain, overtaken>>

\* The command of a caller that has ended reads the table ...
OrphanReads(o) ==
  /\ o.pc = "read"
  /\ orphans' = (orphans \ {o}) \cup {[o EXCEPT !.pc = "write", !.seen = chain[o.space]]}
  /\ UNCHANGED <<chain, holder, call, failed, overtaken, faults>>

\* ... and replaces it, whoever has the lock now, or fails.
OrphanWrites(o) ==
  /\ o.pc = "write"
  /\ \/ UNCHANGED chain
     \/ \E ch \in Outcome(o, o.seen) : chain' = [chain EXCEPT ![o.space] = ch]
  /\ orphans' = orphans \ {o}
  /\ overtaken' = overtaken \cup {c \in Callers : call[c].pc = "write"
                                                /\ call[c].space = o.space}
  /\ UNCHANGED <<holder, call, failed, faults>>

OrphanStep == \E o \in orphans : OrphanReads(o) \/ OrphanWrites(o)

CallStep(c) == Lock(c) \/ ReadTable(c) \/ WriteTable(c) \/ Unlock(c)
CallFault(c) == LockFails(c) \/ CommandFails(c) \/ UnlockFails(c)

---------------------------------------------------------------------------
(* Properties *)

\* Each change of a table is one whole call applied to the table as it is then:
\* no call overwrites what another did since it read the table, whoever fails
\* or is killed.  The lock cannot promise it of a command that outlived its
\* caller, nor, in the same table, of the call that such a command overtook.
CallsAreAtomic ==
  [][\A s \in Spaces :
       chain'[s] # chain[s] =>
         \/ \E o \in orphans \ orphans' : o.space = s
         \/ \E c \in Callers :
              /\ call[c].space = s
              /\ chain'[s] \in Outcome(call[c], IF c \in overtaken THEN call[c].seen
                                               ELSE chain[s])]_ipvars
=============================================================================
