------------------------ MODULE NetworkerDaemonProofs ------------------------
(***************************************************************************)
(* Proofs about NetworkerDaemon and LockedIPTables, for any callers,       *)
(* namespaces, containers, clients and faults.                             *)
(***************************************************************************)
EXTENDS NetworkerDaemon, FiniteSetTheorems, TLAPS

USE LockedIPTablesAssumption, NetworkerDaemonAssumption

---------------------------------------------------------------------------
(* The iptables lock *)

\* A call record, whatever its fields hold.
IsCall(r) == r = [op |-> r.op, space |-> r.space, rules |-> r.rules, pos |-> r.pos,
                  pc |-> r.pc, seen |-> r.seen]

TableTypes ==
  /\ chain = [s \in Spaces |-> chain[s]]
  /\ call = [c \in Callers |-> call[c]] /\ \A c \in Callers : IsCall(call[c])
  /\ failed \in [Callers -> BOOLEAN] /\ holder \in Callers \cup {NoCaller}

\* A caller that runs its command has the lock, and what it has read is what
\* the table holds, unless a command without a caller has overtaken it.
Locked(c) ==
  /\ call[c].pc \in {"idle", "lock", "read", "write", "unlock"}
  /\ call[c].pc = "idle" <=> call[c] = NoCall
  /\ call[c].pc \in {"read", "write", "unlock"} => holder = c
  /\ call[c].pc = "write" /\ call[c].space \in Spaces /\ c \notin overtaken =>
       call[c].seen = chain[call[c].space]

TableInv == TableTypes /\ \A c \in Callers : Locked(c)

SameRequest(r, q) == q.op = r.op /\ q.space = r.space /\ q.rules = r.rules

LEMMA NoCallFields ==
  /\ IsCall(NoCall) /\ NoCall.pc = "idle"
BY DEF IsCall, NoCall

\* What a step of one caller has to show.
LEMMA TableStep ==
  ASSUME TableInv, NEW c \in Callers, NEW r, IsCall(r), call' = [call EXCEPT ![c] = r],
         chain' = [s \in Spaces |-> chain'[s]],
         failed' \in [Callers -> BOOLEAN], holder' \in Callers \cup {NoCaller},
         r.pc \in {"idle", "lock", "read", "write", "unlock"},
         r.pc = "idle" <=> r = NoCall,
         r.pc \in {"read", "write", "unlock"} => holder' = c,
         r.pc = "write" => r.seen = chain'[r.space], overtaken \ {c} \subseteq overtaken',
         \A o \in Callers \ {c} :
           call[o].pc \in {"read", "write", "unlock"} => holder' = o /\ chain' = chain
  PROVE  /\ TableInv' /\ call'[c] = r
         /\ \A o \in Callers \ {c} : call'[o] = call[o]
<1>1. call = [x \in Callers |-> call[x]] /\ \A x \in Callers : IsCall(call[x]) /\ Locked(x)
  BY DEF TableInv, TableTypes
<1>2. /\ call' = [x \in Callers |-> call'[x]] /\ call'[c] = r
      /\ \A o \in Callers \ {c} : call'[o] = call[o]
  BY <1>1
<1>3. \A x \in Callers : IsCall(call'[x])
  BY <1>1, <1>2
<1>4. TableTypes'
  BY <1>2, <1>3 DEF TableTypes
<1>5. Locked(c)'
  BY <1>2 DEF Locked
<1>6. ASSUME NEW o \in Callers \ {c} PROVE Locked(o)'
  <2>1. Locked(o) /\ call'[o] = call[o]
    BY <1>1, <1>2
  <2>2. call[o].pc \in {"read", "write", "unlock"} => holder' = o /\ chain' = chain
    OBVIOUS
  <2> QED
    BY <2>1, <2>2 DEF Locked
<1> QED
  BY <1>2, <1>4, <1>5, <1>6 DEF TableInv

\* Nobody but the holder of the lock runs a command.
LEMMA OnlyHolder ==
  ASSUME TableInv, NEW c \in Callers,
         holder = NoCaller \/ call[c].pc \in {"read", "write", "unlock"}
  PROVE  /\ \A o \in Callers \ {c} : call[o].pc \notin {"read", "write", "unlock"}
         /\ call[c].pc \in {"read", "write", "unlock"} => holder = c
<1>1. \A x \in Callers : call[x].pc \in {"read", "write", "unlock"} => holder = x
  BY DEF TableInv, Locked
<1> QED
  BY <1>1

LEMMA TableFacts ==
  ASSUME TableInv, NEW c \in Callers
  PROVE  /\ chain = [s \in Spaces |-> chain[s]] /\ failed \in [Callers -> BOOLEAN]
         /\ holder \in Callers \cup {NoCaller} /\ IsCall(call[c]) /\ Locked(c)
         /\ call = [x \in Callers |-> call[x]]
         /\ \A o \in Callers : call[o].pc \in {"read", "write", "unlock"} => holder = o
BY DEF TableInv, TableTypes, Locked

LEMMA BeginInv ==
  ASSUME TableInv, NEW c \in Callers, NEW r, IsCall(r), r.pc = "lock", Begin(c, r)
  PROVE  /\ TableInv' /\ call'[c] = r
         /\ \A o \in Callers \ {c} : call'[o] = call[o]
<1>1. /\ call' = [call EXCEPT ![c] = r] /\ failed' = [failed EXCEPT ![c] = FALSE]
      /\ UNCHANGED <<chain, holder, overtaken, faults>>
  BY DEF Begin, Error, orphanvars
<1>2. failed' \in [Callers -> BOOLEAN]
  BY <1>1, TableFacts
<1>3. /\ chain' = [s \in Spaces |-> chain'[s]] /\ holder' \in Callers \cup {NoCaller}
      /\ \A o \in Callers : call[o].pc \in {"read", "write", "unlock"} => holder' = o
  BY <1>1, TableFacts
<1>4. r # NoCall
  BY NoCallFields
<1> QED
  BY <1>1, <1>2, <1>3, <1>4, TableStep

LEMMA LockInv ==
  ASSUME TableInv, NEW c \in Callers, Lock(c)
  PROVE  /\ TableInv' /\ SameRequest(call[c], call'[c]) /\ call'[c].pc = "read"
         /\ \A o \in Callers \ {c} : call'[o] = call[o]
<1>1. /\ call[c].pc = "lock" /\ holder = NoCaller /\ holder' = c
      /\ call' = [call EXCEPT ![c].pc = "read"] /\ UNCHANGED <<chain, failed>>
  BY DEF Lock, Goto
<1>2. /\ IsCall(call[c]) /\ chain = [s \in Spaces |-> chain[s]]
      /\ failed \in [Callers -> BOOLEAN] /\ call = [x \in Callers |-> call[x]]
  BY TableFacts
<1>3. PICK r : r = [call[c] EXCEPT !.pc = "read"]
  OBVIOUS
<1>4. IsCall(r) /\ r.pc = "read" /\ SameRequest(call[c], r)
  <2>1. PICK op, space, rules, pos, pc0, seen :
          call[c] = [op |-> op, space |-> space, rules |-> rules, pos |-> pos, pc |-> pc0,
                     seen |-> seen]
    BY <1>2 DEF IsCall
  <2>2. r = [op |-> op, space |-> space, rules |-> rules, pos |-> pos, pc |-> "read",
             seen |-> seen]
    BY <1>3, <2>1
  <2> QED
    BY <2>1, <2>2 DEF IsCall, SameRequest
<1>5. r # NoCall
  BY <1>4, NoCallFields
<1>6. call' = [call EXCEPT ![c] = r]
  BY <1>1, <1>2, <1>3
<1>7. /\ failed' \in [Callers -> BOOLEAN] /\ chain' = [s \in Spaces |-> chain'[s]]
      /\ holder' \in Callers \cup {NoCaller} /\ holder' = c
  BY <1>1, <1>2
<1>8. \A o \in Callers \ {c} : call[o].pc \notin {"read", "write", "unlock"}
  BY <1>1, OnlyHolder
<1>9. overtaken \ {c} \subseteq overtaken'
  BY DEF Lock, orphanvars
<1>10. /\ TableInv' /\ call'[c] = r
      /\ \A o \in Callers \ {c} : call'[o] = call[o]
  BY <1>4, <1>5, <1>6, <1>7, <1>8, <1>9, TableStep
<1> QED
  BY <1>4, <1>10

LEMMA ReadTableInv ==
  ASSUME TableInv, NEW c \in Callers, ReadTable(c)
  PROVE  /\ TableInv'
         /\ SameRequest(call[c], call'[c]) /\ call'[c].pc = "write"
         /\ call'[c].seen = chain[call[c].space]
         /\ \A o \in Callers \ {c} : call'[o] = call[o]
<1>1. /\ call[c].pc = "read"
      /\ call' = [call EXCEPT ![c].pc = "write", ![c].seen = chain[call[c].space]]
      /\ UNCHANGED <<chain, holder, failed>>
  BY DEF ReadTable
<1>2. /\ IsCall(call[c]) /\ chain = [s \in Spaces |-> chain[s]]
      /\ failed \in [Callers -> BOOLEAN] /\ call = [x \in Callers |-> call[x]]
      /\ holder \in Callers \cup {NoCaller}
  BY TableFacts
<1>3. PICK r : r = [call[c] EXCEPT !.pc = "write", !.seen = chain[call[c].space]]
  OBVIOUS
<1>4. /\ IsCall(r) /\ r.pc = "write" /\ r.space = call[c].space
      /\ r.seen = chain[call[c].space] /\ SameRequest(call[c], r)
  <2>1. PICK op, space, rules, pos, pc0, seen :
          call[c] = [op |-> op, space |-> space, rules |-> rules, pos |-> pos, pc |-> pc0,
                     seen |-> seen]
    BY <1>2 DEF IsCall
  <2>2. PICK seen1 : seen1 = chain[call[c].space]
    OBVIOUS
  <2>3. r = [call[c] EXCEPT !.pc = "write", !.seen = seen1]
    BY <1>3, <2>2
  <2>4. PICK q : q = [call[c] EXCEPT !.pc = "write"]
    OBVIOUS
  <2>5. q = [op |-> op, space |-> space, rules |-> rules, pos |-> pos, pc |-> "write",
             seen |-> seen]
    BY <2>1, <2>4
  <2>6. r = [q EXCEPT !.seen = seen1]
    BY <2>3, <2>4
  <2>7. r = [op |-> op, space |-> space, rules |-> rules, pos |-> pos, pc |-> "write",
             seen |-> seen1]
    BY <2>5, <2>6
  <2> QED
    BY <2>1, <2>2, <2>7 DEF IsCall, SameRequest
<1>5. r # NoCall
  BY <1>4, NoCallFields
<1>6. call' = [call EXCEPT ![c] = r]
  BY <1>1, <1>2, <1>3
<1>7. /\ failed' \in [Callers -> BOOLEAN] /\ chain' = [s \in Spaces |-> chain'[s]]
      /\ holder' \in Callers \cup {NoCaller} /\ r.seen = chain'[r.space]
  BY <1>1, <1>2, <1>4
<1>8. /\ \A o \in Callers \ {c} : call[o].pc \notin {"read", "write", "unlock"}
      /\ holder' = c
  BY <1>1, OnlyHolder
<1>9. overtaken \ {c} \subseteq overtaken'
  BY DEF ReadTable
<1>10. /\ TableInv' /\ call'[c] = r
      /\ \A o \in Callers \ {c} : call'[o] = call[o]
  BY <1>4, <1>5, <1>6, <1>7, <1>8, <1>9, TableStep
<1> QED
  BY <1>4, <1>10

LEMMA WriteTableInv ==
  ASSUME TableInv, NEW c \in Callers, WriteTable(c)
  PROVE  /\ TableInv' /\ SameRequest(call[c], call'[c]) /\ call'[c].pc = "unlock"
         /\ \A o \in Callers \ {c} : call'[o] = call[o]
         /\ \/ chain' = chain /\ failed' = [failed EXCEPT ![c] = TRUE]
            \/ /\ failed' = failed
               /\ \E ch \in Outcome(call[c], call[c].seen) :
                     chain' = [chain EXCEPT ![call[c].space] = ch]
<1>1. /\ call[c].pc = "write" /\ call' = [call EXCEPT ![c].pc = "unlock"]
      /\ UNCHANGED holder
  BY DEF WriteTable, Goto
<1>2. /\ IsCall(call[c]) /\ chain = [s \in Spaces |-> chain[s]]
      /\ failed \in [Callers -> BOOLEAN] /\ call = [x \in Callers |-> call[x]]
      /\ holder \in Callers \cup {NoCaller}
  BY TableFacts
<1>3. \/ chain' = chain /\ failed' = [failed EXCEPT ![c] = TRUE]
      \/ /\ failed' = failed
         /\ \E ch \in Outcome(call[c], call[c].seen) :
               chain' = [chain EXCEPT ![call[c].space] = ch]
  BY DEF WriteTable, Error
<1>4. PICK r : r = [call[c] EXCEPT !.pc = "unlock"]
  OBVIOUS
<1>5. IsCall(r) /\ r.pc = "unlock" /\ SameRequest(call[c], r)
  <2>1. PICK op, space, rules, pos, pc0, seen :
          call[c] = [op |-> op, space |-> space, rules |-> rules, pos |-> pos, pc |-> pc0,
                     seen |-> seen]
    BY <1>2 DEF IsCall
  <2>2. r = [op |-> op, space |-> space, rules |-> rules, pos |-> pos, pc |-> "unlock",
             seen |-> seen]
    BY <1>4, <2>1
  <2> QED
    BY <2>1, <2>2 DEF IsCall, SameRequest
<1>6. r # NoCall
  BY <1>5, NoCallFields
<1>7. call' = [call EXCEPT ![c] = r]
  BY <1>1, <1>2, <1>4
<1>8. /\ failed' \in [Callers -> BOOLEAN] /\ chain' = [s \in Spaces |-> chain'[s]]
      /\ holder' \in Callers \cup {NoCaller}
  BY <1>1, <1>2, <1>3
<1>9. /\ \A o \in Callers \ {c} : call[o].pc \notin {"read", "write", "unlock"}
      /\ holder' = c
  BY <1>1, OnlyHolder
<1>10. overtaken \ {c} \subseteq overtaken'
  BY DEF WriteTable, orphanvars
<1>11. /\ TableInv' /\ call'[c] = r
       /\ \A o \in Callers \ {c} : call'[o] = call[o]
  BY <1>5, <1>6, <1>7, <1>8, <1>9, <1>10, TableStep
<1> QED
  BY <1>3, <1>5, <1>11

LEMMA CommandFailsInv ==
  ASSUME TableInv, NEW c \in Callers, CommandFails(c)
  PROVE  /\ TableInv' /\ SameRequest(call[c], call'[c]) /\ call'[c].pc = "unlock"
         /\ \A o \in Callers \ {c} : call'[o] = call[o]
         /\ chain' = chain /\ failed' = [failed EXCEPT ![c] = TRUE]
<1>1. /\ call[c].pc \in {"read", "write"} /\ call' = [call EXCEPT ![c].pc = "unlock"]
      /\ UNCHANGED <<chain, holder>> /\ failed' = [failed EXCEPT ![c] = TRUE]
  BY DEF CommandFails, Goto, Error
<1>2. /\ IsCall(call[c]) /\ chain = [s \in Spaces |-> chain[s]]
      /\ failed \in [Callers -> BOOLEAN] /\ call = [x \in Callers |-> call[x]]
      /\ holder \in Callers \cup {NoCaller}
  BY TableFacts
<1>3. PICK r : r = [call[c] EXCEPT !.pc = "unlock"]
  OBVIOUS
<1>4. IsCall(r) /\ r.pc = "unlock" /\ SameRequest(call[c], r)
  <2>1. PICK op, space, rules, pos, pc0, seen :
          call[c] = [op |-> op, space |-> space, rules |-> rules, pos |-> pos, pc |-> pc0,
                     seen |-> seen]
    BY <1>2 DEF IsCall
  <2>2. r = [op |-> op, space |-> space, rules |-> rules, pos |-> pos, pc |-> "unlock",
             seen |-> seen]
    BY <1>3, <2>1
  <2> QED
    BY <2>1, <2>2 DEF IsCall, SameRequest
<1>5. r # NoCall
  BY <1>4, NoCallFields
<1>6. call' = [call EXCEPT ![c] = r]
  BY <1>1, <1>2, <1>3
<1>7. /\ failed' \in [Callers -> BOOLEAN] /\ chain' = [s \in Spaces |-> chain'[s]]
      /\ holder' \in Callers \cup {NoCaller}
  BY <1>1, <1>2
<1>8. /\ \A o \in Callers \ {c} : call[o].pc \notin {"read", "write", "unlock"}
      /\ holder' = c
  BY <1>1, OnlyHolder
<1>9. overtaken \ {c} \subseteq overtaken'
  BY DEF CommandFails, orphanvars
<1>10. /\ TableInv' /\ call'[c] = r
      /\ \A o \in Callers \ {c} : call'[o] = call[o]
  BY <1>4, <1>5, <1>6, <1>7, <1>8, <1>9, TableStep
<1> QED
  BY <1>1, <1>4, <1>10

\* The ends of a call: it leaves the lock, if it has it.
LEMMA EndInv ==
  ASSUME TableInv, NEW c \in Callers, chain' = chain, failed' \in [Callers -> BOOLEAN],
         call' = [call EXCEPT ![c] = NoCall], overtaken' = overtaken,
         holder' = holder \/ holder' = NoCaller,
         holder' # holder => holder = c
  PROVE  /\ TableInv' /\ call'[c] = NoCall
         /\ \A o \in Callers \ {c} : call'[o] = call[o]
<1>1. PICK r : r = NoCall
  OBVIOUS
<1>2. IsCall(r) /\ r.pc = "idle" /\ call' = [call EXCEPT ![c] = r]
  BY <1>1, NoCallFields
<1>3. /\ chain' = [s \in Spaces |-> chain'[s]] /\ holder' \in Callers \cup {NoCaller}
      /\ \A o \in Callers \ {c} : call[o].pc \in {"read", "write", "unlock"} => holder' = o
  BY TableFacts
<1>4. /\ TableInv' /\ call'[c] = r
      /\ \A o \in Callers \ {c} : call'[o] = call[o]
  BY <1>1, <1>2, <1>3, TableStep
<1> QED
  BY <1>1, <1>4

LEMMA CallEndsInv ==
  ASSUME TableInv, NEW c \in Callers,
         LockFails(c) \/ Unlock(c) \/ UnlockFails(c) \/ Dies(c)
  PROVE  /\ TableInv' /\ call'[c] = NoCall /\ chain' = chain
         /\ \A o \in Callers \ {c} : call'[o] = call[o]
<1>1. /\ chain' = chain /\ call' = [call EXCEPT ![c] = NoCall] /\ overtaken' = overtaken
      /\ holder' = holder \/ holder' = NoCaller
  BY DEF LockFails, Unlock, UnlockFails, Dies, orphanvars
<1>2. failed' \in [Callers -> BOOLEAN]
  BY TableFacts DEF LockFails, Unlock, UnlockFails, Dies, Error
<1>3. holder' # holder => holder = c
  BY OnlyHolder DEF LockFails, Unlock, UnlockFails, Dies
<1> QED
  BY <1>1, <1>2, <1>3, EndInv

LEMMA RequestFields ==
  ASSUME NEW op, NEW space, NEW rules, NEW pos
  PROVE  /\ IsCall(Request(op, space, rules, pos))
         /\ Request(op, space, rules, pos).pc = "lock"
         /\ Request(op, space, rules, pos).op = op
         /\ Request(op, space, rules, pos).space = space
         /\ Request(op, space, rules, pos).rules = rules
<1>1. Request(op, space, rules, pos)
      = [op |-> op, space |-> space, rules |-> rules, pos |-> pos, pc |-> "lock", seen |-> <<>>]
  <2>1. PICK a : a = [NoCall EXCEPT !.op = op]
    OBVIOUS
  <2>2. PICK b : b = [a EXCEPT !.space = space]
    OBVIOUS
  <2>3. PICK d : d = [b EXCEPT !.rules = rules]
    OBVIOUS
  <2>4. PICK e : e = [d EXCEPT !.pos = pos]
    OBVIOUS
  <2>5. PICK f : f = [e EXCEPT !.pc = "lock"]
    OBVIOUS
  <2>6. a = [op |-> op, space |-> "none", rules |-> <<>>, pos |-> 0, pc |-> "idle",
             seen |-> <<>>]
    BY <2>1 DEF NoCall
  <2>7. b = [op |-> op, space |-> space, rules |-> <<>>, pos |-> 0, pc |-> "idle",
             seen |-> <<>>]
    BY <2>2, <2>6
  <2>8. d = [op |-> op, space |-> space, rules |-> rules, pos |-> 0, pc |-> "idle",
             seen |-> <<>>]
    BY <2>3, <2>7
  <2>9. e = [op |-> op, space |-> space, rules |-> rules, pos |-> pos, pc |-> "idle",
             seen |-> <<>>]
    BY <2>4, <2>8
  <2>10. f = [op |-> op, space |-> space, rules |-> rules, pos |-> pos, pc |-> "lock",
              seen |-> <<>>]
    BY <2>5, <2>9
  <2>11. f = Request(op, space, rules, pos)
    BY <2>1, <2>2, <2>3, <2>4, <2>5 DEF Request
  <2> QED
    BY <2>10, <2>11
<1> QED
  BY <1>1 DEF IsCall

\* A step of an agent or of a call in progress.
CallerStep(c) ==
  \/ \E r : IsCall(r) /\ r.pc = "lock" /\ Begin(c, r)
  \/ CallStep(c) \/ CallFault(c) \/ Dies(c)

\* The same of another process of the cell, with the calls that it makes.
AgentStep(c) ==
  (\E r \in AgentCalls[c] : Begin(c, r)) \/ CallStep(c) \/ CallFault(c) \/ Dies(c)

LEMMA CallerStepInv ==
  ASSUME TableInv, NEW c \in Callers, CallerStep(c)
  PROVE  /\ TableInv'
         /\ \A o \in Callers \ {c} : call'[o] = call[o]
         /\ chain' # chain => WriteTable(c)
<1>1. CASE \E r : IsCall(r) /\ r.pc = "lock" /\ Begin(c, r)
  <2>1. PICK r : IsCall(r) /\ r.pc = "lock" /\ Begin(c, r)
    BY <1>1
  <2>2. chain' = chain
    BY <2>1 DEF Begin
  <2> QED
    BY <2>1, <2>2, BeginInv
<1>2. CASE Lock(c)
  <2>1. chain' = chain
    BY <1>2 DEF Lock
  <2> QED
    BY <1>2, <2>1, LockInv
<1>3. CASE ReadTable(c)
  <2>1. chain' = chain
    BY <1>3 DEF ReadTable
  <2> QED
    BY <1>3, <2>1, ReadTableInv
<1>4. CASE WriteTable(c)
  BY <1>4, WriteTableInv
<1>5. CASE CommandFails(c)
  BY <1>5, CommandFailsInv
<1>6. CASE LockFails(c) \/ Unlock(c) \/ UnlockFails(c) \/ Dies(c)
  BY <1>6, CallEndsInv
<1> QED
  BY <1>1, <1>2, <1>3, <1>4, <1>5, <1>6 DEF CallerStep, CallStep, CallFault

\* Every step is one of at most one caller, as far as the lock and the tables go.
LEMMA OneCaller ==
  ASSUME TableInv, [Next]_vars
  PROVE  \/ UNCHANGED <<chain, holder, call, failed, orphanvars>>
         \/ CallerStep(Daemon) /\ (Apply \/ Ends)
         \/ CallerStep(Daemon) /\ CallStep(Daemon) /\ UNCHANGED ndvars
         \/ CallerStep(Daemon) /\ CallFault(Daemon) /\ UNCHANGED ndvars
         \/ \E c \in Agents : CallerStep(c) /\ AgentStep(c) /\ UNCHANGED ndvars
         \/ OrphanStep /\ UNCHANGED ndvars
<1>1. CASE Listen \/ ManagerFails \/ (\E k \in Clients : Dial(k)) \/ UNCHANGED vars
  BY <1>1 DEF Listen, ManagerFails, Dial, vars, ipvars
<1>2. CASE DaemonStep
  <2>1. CASE Apply
    <3>1. CASE Redirects
      <4>1. Begin(Daemon, Request("BulkAppend", request.handle, <<RedirectRule>>, 0))
        BY <2>1, <3>1 DEF Apply
      <4>2. CallerStep(Daemon)
        BY <4>1, RequestFields DEF CallerStep
      <4> QED
        BY <2>1, <4>2
    <3>2. CASE ~Redirects
      BY <2>1, <3>2 DEF Apply, ipvars
    <3> QED
      BY <3>1, <3>2
  <2>2. CASE (\E k \in Clients : Accept(k)) \/ ReceiveFD \/ Decode \/ ManagerUp \/ ManagerDown
    BY <2>2 DEF Accept, ReceiveFD, Decode, ManagerUp, ManagerDown, ipvars
  <2>3. CASE Applied
    BY <2>3 DEF Applied, ipvars
  <2> QED
    BY <1>2, <2>1, <2>2, <2>3 DEF DaemonStep
<1>3. CASE CloseOnKill \/ GetNSPanics
  BY <1>3 DEF CloseOnKill, GetNSPanics, Ends, CallerStep
<1>4. CASE \E c \in Agents : AgentBegin(c) \/ AgentDies(c)
  <2>1. PICK c \in Agents : AgentBegin(c) \/ AgentDies(c)
    BY <1>4
  <2>2. CASE AgentBegin(c)
    <3>1. PICK r \in AgentCalls[c] : Begin(c, r) /\ UNCHANGED ndvars
      BY <2>2 DEF AgentBegin
    <3>2. r = Request(r.op, r.space, r.rules, r.pos)
      BY <3>1
    <3>3. PICK op, space, rules, pos : r = Request(op, space, rules, pos)
      BY <3>2
    <3>4. IsCall(r) /\ r.pc = "lock"
      BY <3>3, RequestFields
    <3> QED
      BY <3>1, <3>4 DEF CallerStep, AgentStep
  <2>3. CASE AgentDies(c)
    BY <2>3 DEF AgentDies, CallerStep, AgentStep
  <2> QED
    BY <2>1, <2>2, <2>3
<1>5. CASE \E c \in Callers : Calls(c) \/ (CallFault(c) /\ UNCHANGED ndvars)
  <2>1. PICK c \in Callers : Calls(c) \/ (CallFault(c) /\ UNCHANGED ndvars)
    BY <1>5
  <2>2. (CallStep(c) \/ CallFault(c)) /\ UNCHANGED ndvars
    BY <2>1 DEF Calls
  <2>3. CallerStep(c)
    BY <2>2 DEF CallerStep
  <2> QED
    BY <2>2, <2>3 DEF Agents, AgentStep
<1> QED
  BY <1>1, <1>2, <1>3, <1>4, <1>5 DEF Next

\* A command without a caller changes one table, and overtakes who has read it.
LEMMA OrphanInv ==
  ASSUME TableInv, OrphanStep
  PROVE  /\ TableInv' /\ UNCHANGED <<holder, call, failed>>
         /\ \A s \in Spaces :
              chain'[s] # chain[s] => \E o \in orphans \ orphans' : o.space = s
<1>1. UNCHANGED <<holder, call, failed>>
  BY DEF OrphanStep, OrphanReads, OrphanWrites
<1>2. PICK o \in orphans : OrphanReads(o) \/ OrphanWrites(o)
  BY DEF OrphanStep
<1>3. TableTypes /\ \A c \in Callers : Locked(c)
  BY DEF TableInv
<1>4. CASE UNCHANGED <<chain, overtaken>>
  <2>1. \A c \in Callers : Locked(c)'
    BY <1>1, <1>3, <1>4 DEF Locked
  <2> QED
    BY <1>1, <1>3, <1>4, <2>1 DEF TableInv, TableTypes, IsCall
<1>5. CASE OrphanWrites(o)
  <2>1. chain' = chain \/ \E ch : chain' = [chain EXCEPT ![o.space] = ch]
    BY <1>5 DEF OrphanWrites
  <2>2. chain = [s \in Spaces |-> chain[s]]
    BY <1>3 DEF TableTypes
  <2>3. /\ chain' = [s \in Spaces |-> chain'[s]]
        /\ \A s \in Spaces : chain'[s] # chain[s] => o.space = s
    BY <2>1, <2>2
  <2>4. ASSUME NEW c \in Callers PROVE Locked(c)'
    <3>1. Locked(c) /\ call'[c] = call[c] /\ holder' = holder
      BY <1>1, <1>3
    <3>2. /\ overtaken \subseteq overtaken'
          /\ call[c].pc = "write" /\ call[c].space = o.space => c \in overtaken'
      BY <1>5 DEF OrphanWrites
    <3>3. PICK r : r = call[c]
      OBVIOUS
    <3>4. r.space \in Spaces \ {o.space} => chain'[r.space] = chain[r.space]
      BY <2>1, <2>2
    <3>5. r.pc = "write" /\ r.space \in Spaces /\ c \notin overtaken' =>
            r.seen = chain'[r.space]
      BY <3>1, <3>2, <3>3, <3>4 DEF Locked
    <3> QED
      BY <3>1, <3>3, <3>5 DEF Locked
  <2>5. TableTypes'
    BY <1>1, <1>3, <2>3 DEF TableTypes, IsCall
  <2>6. o \in orphans \ orphans'
    BY <1>2, <1>5 DEF OrphanWrites
  <2> QED
    BY <1>1, <2>3, <2>4, <2>5, <2>6 DEF TableInv
<1> QED
  BY <1>1, <1>2, <1>4, <1>5 DEF OrphanReads

LEMMA TableNext ==
  ASSUME TableInv, [Next]_vars
  PROVE  /\ TableInv'
         /\ \/ chain' = chain
            \/ \E c \in Callers : WriteTable(c)
            \/ OrphanStep
<1>1. CASE UNCHANGED <<chain, holder, call, failed, orphanvars>>
  BY <1>1 DEF TableInv, TableTypes, Locked, IsCall, orphanvars
<1>2. CASE \E c \in Callers : CallerStep(c)
  BY <1>2, CallerStepInv
<1>3. CASE OrphanStep
  BY <1>3, OrphanInv
<1> QED
  BY <1>1, <1>2, <1>3, OneCaller DEF Agents

LEMMA TableInitInv == Init => TableInv
<1> SUFFICES ASSUME Init PROVE TableInv
  OBVIOUS
<1>1. /\ chain = [s \in Spaces |-> <<>>] /\ holder = NoCaller
      /\ call = [c \in Callers |-> NoCall] /\ failed = [c \in Callers |-> FALSE]
  BY DEF Init, TableInit
<1>2. TableTypes
  BY <1>1, NoCallFields DEF TableTypes
<1>3. ASSUME NEW c \in Callers PROVE Locked(c)
  BY <1>1, NoCallFields DEF Locked
<1> QED
  BY <1>2, <1>3 DEF TableInv

\* Whatever callers and calls there are, each change of a table is one whole
\* call applied to the table as it is at that step: no call overwrites what
\* another has done since it read the table, although the read and the write
\* are two steps and commands, locks and processes fail in between.  Only the
\* command of a process that has ended does, and who runs beside it.
THEOREM IPTablesCallsAtomic == Spec => CallsAreAtomic
<1> DEFINE Atomic == \A s \in Spaces :
       chain'[s] # chain[s] =>
         \/ \E o \in orphans \ orphans' : o.space = s
         \/ \E c \in Callers :
              /\ call[c].space = s
              /\ chain'[s] \in Outcome(call[c], IF c \in overtaken THEN call[c].seen
                                               ELSE chain[s])
<1>1. TableInv /\ [Next]_vars => [Atomic]_ipvars
  <2> SUFFICES ASSUME TableInv, [Next]_vars, NEW s \in Spaces, chain'[s] # chain[s]
               PROVE  \/ \E o \in orphans \ orphans' : o.space = s
                      \/ \E c \in Callers :
                           /\ call[c].space = s
                           /\ chain'[s] \in Outcome(call[c], IF c \in overtaken
                                                  THEN call[c].seen ELSE chain[s])
    OBVIOUS
  <2>1. CASE OrphanStep
    BY <2>1, OrphanInv
  <2>2. CASE \E c \in Callers : WriteTable(c)
    <3>1. PICK c \in Callers : WriteTable(c)
      BY <2>2
    <3>2. PICK ch \in Outcome(call[c], call[c].seen) :
            chain' = [chain EXCEPT ![call[c].space] = ch]
      BY <3>1, WriteTableInv
    <3>3. chain = [x \in Spaces |-> chain[x]] /\ Locked(c)
      BY TableFacts
    <3>4. call[c].space = s
      BY <3>2, <3>3
    <3>5. chain'[s] = ch
      BY <3>2, <3>3, <3>4
    <3>6. c \in overtaken \/ call[c].seen = chain[s]
      BY <3>1, <3>3, <3>4 DEF WriteTable, Locked
    <3> QED
      BY <3>2, <3>4, <3>5, <3>6
  <2> QED
    BY <2>1, <2>2, TableNext
<1>2. TableInv /\ [Next]_vars => TableInv'
  BY TableNext
<1> QED
  BY <1>1, <1>2, TableInitInv, PTL DEF Spec, CallsAreAtomic

---------------------------------------------------------------------------
(* The daemon *)

DaemonTypes ==
  /\ pc \in {"stopped", "accept", "fd", "message", "up", "down", "redirect", "applying"}
  /\ serving \in Clients \cup {NONE} /\ conn = [k \in Clients |-> conn[k]]
  /\ fds \in 0..MaxFDs /\ (pc = "fd" => fds < MaxFDs)
  /\ pc \in {"stopped", "accept"} <=> serving = NONE
  /\ pc \in {"up", "down", "redirect", "applying"} => request \in Messages

\* The plugins' config holds nothing that no request has given, and a network
\* was added with the config of its container.
OwnConfig ==
  /\ plugins \in Configs /\ network \in [Handles -> Configs \cup {NONE}]
  /\ \A h \in Handles :
       network[h] # NONE =>
         /\ network[h].runtimeConfig = h
         /\ Properties[h] # NONE => network[h].metadata = Properties[h]

DaemonCalls == call[Daemon] # NoCall => pc = "applying"

DaemonInv == TableInv /\ DaemonTypes /\ OwnConfig /\ DaemonCalls

\* The other processes of the cell work in the namespace of the host.
AgentsStayOutside == \A c \in Agents : \A r \in AgentCalls[c] : r.space \notin Handles

\* No table of a container is changed before the container is asked for.
Untouched ==
  /\ \A h \in Handles \ asked : chain[h] = <<>>
  /\ \A c \in Agents : call[c] # NoCall => call[c].space \notin Handles

\* What an up has done, by where it is.
UpDone ==
  /\ pc \in {"up", "redirect", "applying"} => request.handle \in asked
  /\ pc \in {"up", "redirect"} => chain[request.handle] = <<>>
  /\ pc \in {"redirect", "applying"} => network[request.handle] # NONE
  /\ pc = "down" => request.action = "down"

\* What the call of Apply has done.
Applying ==
  /\ call[Daemon] # NoCall =>
       /\ call[Daemon].op = "BulkAppend" /\ call[Daemon].space = request.handle
       /\ call[Daemon].rules = <<RedirectRule>>
  /\ call[Daemon].pc \in {"lock", "read", "write"} => chain[request.handle] = <<>>
  /\ call[Daemon].pc = "write" => call[Daemon].seen = <<>>
  /\ call[Daemon].pc \in {"unlock", "idle"} =>
       failed[Daemon] = TRUE \/ chain[request.handle] = <<RedirectRule>>

\* A command that the daemon left behind is about a container that it was asked
\* for before, and so not about the one that it is connecting now.
OrphansApart ==
  \A o \in orphans :
    /\ IsCall(o)
    /\ o.space \in Handles => o.space \in asked
    /\ pc \in {"up", "redirect", "applying"} => o.space # request.handle

RedirectInv == Untouched /\ UpDone /\ OrphansApart /\ (pc = "applying" => Applying)

LEMMA DaemonCases ==
  ASSUME [Next]_vars
  PROVE  \/ UNCHANGED ndvars \/ Listen \/ (\E k \in Clients : Dial(k))
         \/ (\E k \in Clients : Accept(k))
         \/ ReceiveFD \/ Decode \/ ManagerUp \/ ManagerDown \/ ManagerFails
         \/ Apply \/ Applied \/ Ends
<1>1. CASE UNCHANGED vars
  BY <1>1 DEF vars
<1>2. CASE \E c \in Agents : AgentBegin(c) \/ AgentDies(c)
  BY <1>2 DEF AgentBegin, AgentDies
<1>3. CASE \E c \in Callers : Calls(c) \/ (CallFault(c) /\ UNCHANGED ndvars)
  BY <1>3 DEF Calls
<1>4. CASE CloseOnKill \/ GetNSPanics
  BY <1>4 DEF CloseOnKill, GetNSPanics
<1> QED
  BY <1>1, <1>2, <1>3, <1>4 DEF Next, DaemonStep

LEMMA HandledOneTypes ==
  ASSUME DaemonTypes, NEW ok, HandledOne(ok), UNCHANGED fds
  PROVE  DaemonTypes'
<1>1. /\ pc' = "accept" /\ serving' = NONE
      /\ conn' = [conn EXCEPT ![serving] = IF ok THEN "answered" ELSE "closed"]
  BY DEF HandledOne
<1>2. conn' = [k \in Clients |-> conn'[k]]
  BY <1>1 DEF DaemonTypes
<1> QED
  BY <1>1, <1>2 DEF DaemonTypes

LEMMA DaemonTypesNext ==
  ASSUME DaemonTypes, [Next]_vars
  PROVE  DaemonTypes'
<1>1. CASE UNCHANGED ndvars
  BY <1>1 DEF ndvars, DaemonTypes
<1>2. CASE Listen
  BY <1>2 DEF Listen, DaemonTypes
<1>3. CASE \E k \in Clients : Dial(k)
  <2>1. PICK k \in Clients : Dial(k)
    BY <1>3
  <2>2. conn' = [j \in Clients |-> conn'[j]]
    BY <2>1 DEF Dial, DaemonTypes
  <2> QED
    BY <2>1, <2>2 DEF Dial, DaemonTypes
<1>4. CASE \E k \in Clients : Accept(k)
  BY <1>4 DEF Accept, DaemonTypes
<1>5. CASE ReceiveFD
  <2>1. CASE HandledOne(FALSE) /\ UNCHANGED fds
    BY <2>1, HandledOneTypes
  <2>2. CASE fds' = fds + 1 /\ pc' = "message" /\ UNCHANGED <<serving, conn, request>>
    BY <1>5, <2>2 DEF ReceiveFD, DaemonTypes
  <2> QED
    BY <1>5, <2>1, <2>2 DEF ReceiveFD
<1>6. CASE Decode
  <2>1. CASE HandledOne(FALSE)
    BY <1>6, <2>1, HandledOneTypes DEF Decode
  <2>2. CASE (\E m \in Messages : Send(m) /\ pc' = m.action) /\ UNCHANGED <<serving, conn>>
    <3>1. PICK m \in Messages : Send(m) /\ pc' = m.action
      BY <2>2
    <3>2. request' = m /\ pc' \in {"up", "down"}
      BY <3>1 DEF Send, Messages
    <3>3. pc = "message" /\ UNCHANGED fds
      BY <1>6 DEF Decode
    <3> QED
      BY <2>2, <3>1, <3>2, <3>3 DEF DaemonTypes, Messages
  <2> QED
    BY <1>6, <2>1, <2>2 DEF Decode
<1>7. CASE ManagerUp
  BY <1>7 DEF ManagerUp, DaemonTypes
<1>8. CASE ManagerDown \/ ManagerFails \/ Applied
  <2>1. PICK ok : HandledOne(ok)
    BY <1>8 DEF ManagerDown, ManagerFails, Applied
  <2> QED
    BY <1>8, <2>1, HandledOneTypes DEF ManagerDown, ManagerFails, Applied
<1>9. CASE Apply
  <2>1. CASE Redirects
    BY <1>9, <2>1 DEF Apply, DaemonTypes
  <2>2. CASE ~Redirects
    BY <1>9, <2>2, HandledOneTypes DEF Apply
  <2> QED
    BY <2>1, <2>2
<1>10. CASE Ends
  <2>1. conn' = [k \in Clients |-> conn'[k]]
    BY <1>10 DEF Ends
  <2> QED
    BY <1>10, <2>1 DEF Ends, DaemonTypes
<1> QED
  BY <1>1, <1>2, <1>3, <1>4, <1>5, <1>6, <1>7, <1>8, <1>9, <1>10, DaemonCases

LEMMA InjectConfType ==
  ASSUME NEW config \in Configs, NEW h \in Handles
  PROVE  /\ InjectConf(config, Properties[h], h) \in Configs
         /\ InjectConf(config, Properties[h], h).runtimeConfig = h
         /\ Properties[h] # NONE => InjectConf(config, Properties[h], h).metadata = Properties[h]
BY DEF InjectConf, Configs

LEMMA OwnConfigNext ==
  ASSUME DaemonTypes, OwnConfig, [Next]_vars
  PROVE  OwnConfig'
<1>1. CASE UNCHANGED <<plugins, network>>
  BY <1>1 DEF OwnConfig
<1>2. CASE Listen
  <2>1. Fresh \in Configs
    BY DEF Fresh, Configs
  <2> QED
    BY <1>2, <2>1 DEF Listen, OwnConfig
<1>3. CASE ManagerUp
  <2>1. PICK h : h = request.handle
    OBVIOUS
  <2>2. h \in Handles
    BY <1>3, <2>1 DEF ManagerUp, DaemonTypes, Messages
  <2>3. /\ plugins' = InjectConf(plugins, Properties[h], h)
        /\ network' = [network EXCEPT ![h] = plugins']
    BY <1>3, <2>1 DEF ManagerUp
  <2>4. /\ plugins' \in Configs /\ plugins'.runtimeConfig = h
        /\ Properties[h] # NONE => plugins'.metadata = Properties[h]
    BY <2>2, <2>3, InjectConfType DEF OwnConfig
  <2> QED
    BY <2>2, <2>3, <2>4 DEF OwnConfig
<1>4. CASE ManagerDown
  <2>1. UNCHANGED plugins /\ network' = [network EXCEPT ![request.handle] = NONE]
    BY <1>4 DEF ManagerDown
  <2> QED
    BY <2>1 DEF OwnConfig
<1>5. CASE ManagerFails
  <2>1. UNCHANGED network
    BY <1>5 DEF ManagerFails
  <2>2. plugins' \in Configs
    <3>1. CASE pc = "up"
      <4>1. plugins' \in {plugins, InjectConf(plugins, Properties[request.handle], request.handle)}
        BY <1>5, <3>1 DEF ManagerFails
      <4>2. request.handle \in Handles
        BY <3>1 DEF DaemonTypes, Messages
      <4>3. plugins \in Configs
        BY DEF OwnConfig
      <4>4. InjectConf(plugins, Properties[request.handle], request.handle) \in Configs
        BY <4>2, <4>3, InjectConfType
      <4> QED
        BY <4>1, <4>3, <4>4
    <3>2. CASE pc # "up"
      BY <1>5, <3>2 DEF ManagerFails, OwnConfig
    <3> QED
      BY <3>1, <3>2
  <2> QED
    BY <2>1, <2>2 DEF OwnConfig
<1>6. CASE UNCHANGED ndvars \/ (\E k \in Clients : Dial(k)) \/ (\E k \in Clients : Accept(k))
  BY <1>1, <1>6 DEF ndvars, Dial, Accept
<1>7. CASE ReceiveFD \/ Decode \/ Apply \/ Applied \/ Ends
  BY <1>1, <1>7 DEF ReceiveFD, Decode, Apply, Applied, Ends
<1> QED
  BY <1>2, <1>3, <1>4, <1>5, <1>6, <1>7, DaemonCases

\* While the daemon is in a call it stays where it is, or ends.
LEMMA StaysInCall ==
  ASSUME DaemonCalls, call[Daemon] # NoCall, [Next]_vars
  PROVE  pc' = "applying" \/ Ends
<1>1. pc = "applying"
  BY DEF DaemonCalls
<1>2. ~(Listen \/ (\E k \in Clients : Accept(k)) \/ ReceiveFD \/ Decode \/ ManagerUp)
  BY <1>1 DEF Listen, Accept, ReceiveFD, Decode, ManagerUp
<1>3. ~(ManagerDown \/ ManagerFails \/ Apply \/ Applied)
  BY <1>1 DEF ManagerDown, ManagerFails, Apply, Applied
<1>4. CASE UNCHANGED ndvars
  BY <1>1, <1>4 DEF ndvars
<1>5. CASE \E k \in Clients : Dial(k)
  BY <1>1, <1>5 DEF Dial
<1> QED
  BY <1>2, <1>3, <1>4, <1>5, DaemonCases

LEMMA DaemonCallsNext ==
  ASSUME TableInv, DaemonCalls, [Next]_vars
  PROVE  DaemonCalls'
<1>1. CASE call[Daemon] = NoCall /\ call'[Daemon] # NoCall
  <2>1. ~UNCHANGED <<chain, holder, call, failed, orphanvars>>
    BY <1>1
  <2>2. ~(CallStep(Daemon) \/ CallFault(Daemon))
    BY <1>1, NoCallFields DEF CallStep, CallFault, Lock, ReadTable, WriteTable, Unlock,
                              LockFails, CommandFails, UnlockFails
  <2>3. ~(\E c \in Agents : CallerStep(c))
    BY <1>1, CallerStepInv DEF Agents
  <2>4. ~Ends
    BY <1>1, CallEndsInv DEF Ends
  <2>5. Apply
    <3>1. ~OrphanStep
      BY <1>1, OrphanInv
    <3> QED
      BY <2>1, <2>2, <2>3, <2>4, <3>1, OneCaller
  <2>6. Redirects
    BY <1>1, <2>5 DEF Apply, ipvars
  <2> QED
    BY <2>5, <2>6 DEF Apply, DaemonCalls
<1>2. CASE call[Daemon] # NoCall
  <2>1. CASE Ends
    BY <2>1, CallEndsInv DEF Ends, DaemonCalls
  <2>2. CASE pc' = "applying"
    BY <2>2 DEF DaemonCalls
  <2> QED
    BY <1>2, <2>1, <2>2, StaysInCall
<1>3. CASE call'[Daemon] = NoCall
  BY <1>3 DEF DaemonCalls
<1> QED
  BY <1>1, <1>2, <1>3

LEMMA DaemonNext == DaemonInv /\ [Next]_vars => DaemonInv'
BY TableNext, DaemonTypesNext, OwnConfigNext, DaemonCallsNext DEF DaemonInv

LEMMA DaemonInitInv == Init => DaemonInv
<1> SUFFICES ASSUME Init PROVE DaemonInv
  OBVIOUS
<1>1. DaemonTypes
  BY DEF Init, DaemonTypes
<1>2. Fresh \in Configs
  BY DEF Fresh, Configs
<1>3. OwnConfig
  BY <1>2 DEF Init, OwnConfig
<1>4. DaemonCalls
  BY DEF Init, TableInit, DaemonCalls
<1> QED
  BY <1>1, <1>3, <1>4, TableInitInv DEF DaemonInv

\* Although the plugins' config is kept from one request to the next, and is
\* changed by requests that fail as well, a container is added with its own
\* ports and rules and with its own metadata if it has any.  (With the types:
\* the daemon has a connection exactly while it serves one, receives no more
\* descriptors than it may, and calls iptables only at the end of an up.)
THEOREM DaemonAddsOwnConfig == Spec => []AddGetsOwnConfig
<1>1. DaemonInv => AddGetsOwnConfig
  <2> SUFFICES ASSUME DaemonInv PROVE AddGetsOwnConfig
    OBVIOUS
  <2>1. holder \in Callers \cup {NoCaller}
    BY TableFacts DEF DaemonInv
  <2>2. TypeOK
    BY <2>1 DEF DaemonInv, DaemonTypes, DaemonCalls, TypeOK
  <2> QED
    BY <2>2 DEF DaemonInv, OwnConfig, AddGetsOwnConfig
<1> QED
  BY <1>1, DaemonInitInv, DaemonNext, PTL DEF Spec

---------------------------------------------------------------------------
(* What an answer means *)

\* A step of another process, as the daemon and its containers see it.
LEMMA AgentFrame ==
  ASSUME AgentsStayOutside, TableInv, Untouched,
         NEW c \in Agents, CallerStep(c), AgentStep(c)
  PROVE  /\ \A h \in Handles : chain'[h] = chain[h]
         /\ call'[Daemon] = call[Daemon] /\ failed'[Daemon] = failed[Daemon]
         /\ \A a \in Agents : call'[a] # NoCall => call'[a].space \notin Handles
<1>1. c \in Callers /\ c # Daemon /\ Daemon \in Callers \ {c}
  BY DEF Agents
<1>2. /\ \A o \in Callers \ {c} : call'[o] = call[o]
      /\ chain' # chain => WriteTable(c)
  BY <1>1, CallerStepInv
<1>3. failed'[Daemon] = failed[Daemon]
  <2>1. UNCHANGED failed \/ \E b : failed' = [failed EXCEPT ![c] = b]
    BY DEF AgentStep, Begin, CallStep, CallFault, Dies, Lock, ReadTable, WriteTable, Unlock,
           LockFails, CommandFails, UnlockFails, Error
  <2>2. failed \in [Callers -> BOOLEAN]
    BY <1>1, TableFacts
  <2> QED
    BY <1>1, <2>1, <2>2
<1>4. call[c] # NoCall => call[c].space \notin Handles
  BY DEF Untouched
<1>5. ASSUME NEW h \in Handles, chain' # chain PROVE chain'[h] = chain[h]
  <2>1. WriteTable(c)
    BY <1>2, <1>5
  <2>2. PICK ch : chain' = [chain EXCEPT ![call[c].space] = ch]
    BY <1>1, <1>5, <2>1, WriteTableInv
  <2>3. call[c] # NoCall
    BY <2>1, NoCallFields DEF WriteTable
  <2>4. chain = [x \in Spaces |-> chain[x]] /\ h \in Spaces
    BY <1>1, TableFacts
  <2> QED
    BY <1>4, <2>2, <2>3, <2>4
<1>6. call'[c] # NoCall => call'[c].space \notin Handles
  <2>1. CASE \E r \in AgentCalls[c] : Begin(c, r)
    <3>1. PICK r \in AgentCalls[c] : Begin(c, r)
      BY <2>1
    <3>2. call = [x \in Callers |-> call[x]]
      BY <1>1, TableFacts
    <3>3. call'[c] = r
      BY <1>1, <3>1, <3>2 DEF Begin
    <3> QED
      BY <3>1, <3>3 DEF AgentsStayOutside
  <2>2. CASE Lock(c) \/ ReadTable(c) \/ WriteTable(c) \/ CommandFails(c)
    <3>1. call[c] # NoCall
      BY <2>2, NoCallFields DEF Lock, ReadTable, WriteTable, CommandFails
    <3>2. SameRequest(call[c], call'[c])
      BY <1>1, <2>2, LockInv, ReadTableInv, WriteTableInv, CommandFailsInv
    <3> QED
      BY <1>4, <3>1, <3>2 DEF SameRequest
  <2>3. CASE LockFails(c) \/ Unlock(c) \/ UnlockFails(c) \/ Dies(c)
    BY <1>1, <2>3, CallEndsInv
  <2> QED
    BY <2>1, <2>2, <2>3 DEF AgentStep, CallStep, CallFault
<1> QED
  BY <1>1, <1>2, <1>3, <1>5, <1>6 DEF Agents, Untouched

LEMMA AskedGrows ==
  ASSUME [Next]_vars
  PROVE  asked \subseteq asked'
<1>1. CASE Decode
  BY <1>1 DEF Decode, Send
<1>2. CASE UNCHANGED ndvars \/ Listen \/ (\E k \in Clients : Dial(k)) \/ (\E k \in Clients : Accept(k))
  BY <1>2 DEF ndvars, Listen, Dial, Accept
<1>3. CASE ReceiveFD \/ ManagerUp \/ ManagerDown \/ ManagerFails
  BY <1>3 DEF ReceiveFD, ManagerUp, ManagerDown, ManagerFails
<1>4. CASE Apply \/ Applied \/ Ends
  BY <1>4 DEF Apply, Applied, Ends
<1> QED
  BY <1>1, <1>2, <1>3, <1>4, DaemonCases

\* The table of a container that nobody has left a command for changes in one
\* step only: the write of Apply's call.
LEMMA ContainerTable ==
  ASSUME AgentsStayOutside, DaemonInv, RedirectInv, [Next]_vars, NEW h \in Handles,
         \A o \in orphans : o.space # h, chain'[h] # chain[h]
  PROVE  WriteTable(Daemon) /\ UNCHANGED ndvars /\ pc = "applying" /\ request.handle = h
<1>1. /\ TableInv /\ Untouched /\ DaemonCalls /\ (pc = "applying" => Applying)
      /\ chain = [x \in Spaces |-> chain[x]] /\ h \in Spaces
  BY TableFacts DEF DaemonInv, RedirectInv
<1>2. CallStep(Daemon) /\ CallerStep(Daemon) /\ UNCHANGED ndvars
  <2>1. ~UNCHANGED <<chain, holder, call, failed, orphanvars>>
    OBVIOUS
  <2>2. ~(Apply \/ Ends \/ CallFault(Daemon))
    BY DEF Apply, Begin, ipvars, Ends, Dies, CallFault, LockFails, CommandFails, UnlockFails
  <2>3. ~(\E c \in Agents : CallerStep(c) /\ AgentStep(c))
    BY <1>1, AgentFrame
  <2>4. ~OrphanStep
    BY <1>1, OrphanInv
  <2> QED
    BY <1>1, <2>1, <2>2, <2>3, <2>4, OneCaller
<1>3. WriteTable(Daemon)
  BY <1>1, <1>2, CallerStepInv
<1>4. call[Daemon] # NoCall
  BY <1>3, NoCallFields DEF WriteTable
<1>5. pc = "applying" /\ call[Daemon].space = request.handle
  BY <1>1, <1>4 DEF DaemonCalls, Applying
<1>6. PICK ch : chain' = [chain EXCEPT ![call[Daemon].space] = ch]
  BY <1>1, <1>3, WriteTableInv
<1>7. call[Daemon].space = h
  BY <1>1, <1>6
<1> QED
  BY <1>2, <1>3, <1>5, <1>7

\* What commands without a caller there are after a step.
LEMMA OrphansNext ==
  ASSUME DaemonInv, RedirectInv, [Next]_vars, NEW p \in orphans'
  PROVE  /\ IsCall(p)
         /\ \/ \E o \in orphans : o.space = p.space
            \/ Ends /\ p.space = request.handle /\ pc = "applying"
            \/ \E c \in Agents : call[c] # NoCall /\ p.space = call[c].space
<1>1. /\ TableInv /\ DaemonCalls /\ (pc = "applying" => Applying)
      /\ \A o \in orphans : IsCall(o)
  BY DEF DaemonInv, RedirectInv, OrphansApart
<1>2. CASE p \in orphans
  BY <1>1, <1>2
<1>3. CASE OrphanStep
  <2>1. PICK o \in orphans : OrphanReads(o) \/ OrphanWrites(o)
    BY <1>3 DEF OrphanStep
  <2>2. CASE p \notin orphans
    <3>1. PICK seen1 : p = [o EXCEPT !.pc = "write", !.seen = seen1]
      BY <2>1, <2>2 DEF OrphanReads, OrphanWrites
    <3>2. PICK op, space, rules, pos, pc0, seen :
            o = [op |-> op, space |-> space, rules |-> rules, pos |-> pos, pc |-> pc0,
                 seen |-> seen]
      BY <1>1 DEF IsCall
    <3>3. PICK q : q = [o EXCEPT !.pc = "write"]
      OBVIOUS
    <3>4. q = [op |-> op, space |-> space, rules |-> rules, pos |-> pos, pc |-> "write",
               seen |-> seen]
      BY <3>2, <3>3
    <3>5. p = [q EXCEPT !.seen = seen1]
      BY <3>1, <3>3
    <3>6. p = [op |-> op, space |-> space, rules |-> rules, pos |-> pos, pc |-> "write",
               seen |-> seen1]
      BY <3>4, <3>5
    <3>7. IsCall(p) /\ o.space = p.space
      BY <3>2, <3>6 DEF IsCall
    <3> QED
      BY <3>7
  <2> QED
    BY <1>2, <2>2
<1>4. ASSUME NEW c \in Callers, CallerStep(c), p \notin orphans
      PROVE  Dies(c) /\ p = call[c] /\ call[c] # NoCall /\ IsCall(p)
  <2>1. ~(\E r : Begin(c, r)) /\ ~CallStep(c) /\ ~CallFault(c)
    BY <1>4 DEF Begin, CallStep, CallFault, Lock, ReadTable, WriteTable, Unlock, LockFails,
                CommandFails, UnlockFails, orphanvars
  <2>2. Dies(c)
    BY <1>4, <2>1 DEF CallerStep
  <2>3. p = call[c] /\ call[c].pc \in {"read", "write"}
    BY <1>4, <2>2 DEF Dies
  <2> QED
    BY <1>1, <2>2, <2>3, NoCallFields, TableFacts
<1>5. CASE UNCHANGED <<chain, holder, call, failed, orphanvars>>
  BY <1>2, <1>5 DEF orphanvars
<1>6. CASE CallerStep(Daemon) /\ p \notin orphans
  <2>1. Dies(Daemon) /\ p = call[Daemon] /\ call[Daemon] # NoCall /\ IsCall(p)
    BY <1>4, <1>6
  <2>2. pc = "applying" /\ p.space = request.handle
    BY <1>1, <2>1 DEF DaemonCalls, Applying
  <2>3. call'[Daemon] = NoCall
    BY <1>1, <2>1, CallEndsInv
  <2>4. orphans' # orphans
    BY <1>6
  <2>5. ~(CallStep(Daemon) \/ CallFault(Daemon))
    BY <2>4 DEF CallStep, CallFault, Lock, ReadTable, WriteTable, Unlock, LockFails,
                CommandFails, UnlockFails, orphanvars
  <2>6. ~Apply
    BY <2>2 DEF Apply
  <2>7. ~(\E c \in Agents : CallerStep(c))
    BY <1>1, <2>1, <2>3, CallerStepInv DEF Agents
  <2>8. CASE Ends
    BY <2>1, <2>2, <2>8
  <2> QED
    BY <1>1, <1>3, <1>5, <2>5, <2>6, <2>7, <2>8, OneCaller
<1>7. CASE \E c \in Agents : CallerStep(c)
  BY <1>2, <1>4, <1>7 DEF Agents
<1> QED
  BY <1>1, <1>2, <1>3, <1>5, <1>6, <1>7, OneCaller

LEMMA OrphansApartNext ==
  ASSUME DaemonInv, RedirectInv, [Next]_vars
  PROVE  OrphansApart'
<1>1. DaemonTypes /\ UpDone /\ Untouched /\ OrphansApart
  BY DEF DaemonInv, RedirectInv
<1>2. asked \subseteq asked'
  BY AskedGrows
<1>3. SUFFICES ASSUME NEW p \in orphans'
               PROVE  /\ IsCall(p)
                      /\ p.space \in Handles => p.space \in asked'
                      /\ pc' \in {"up", "redirect", "applying"} => p.space # request'.handle
  BY DEF OrphansApart
<1>4. IsCall(p)
  BY OrphansNext
<1>5. /\ p.space \in Handles => p.space \in asked
      /\ pc \in {"up", "redirect", "applying"} => p.space # request.handle \/ Ends
  <2>1. CASE \E o \in orphans : o.space = p.space
    BY <1>1, <2>1 DEF OrphansApart
  <2>2. CASE Ends /\ p.space = request.handle /\ pc = "applying"
    BY <1>1, <2>2 DEF UpDone
  <2>3. CASE \E c \in Agents : call[c] # NoCall /\ p.space = call[c].space
    <3>1. p.space \notin Handles
      BY <1>1, <2>3 DEF Untouched
    <3>2. pc \in {"up", "redirect", "applying"} => request.handle \in Handles
      BY <1>1 DEF DaemonTypes, Messages
    <3> QED
      BY <3>1, <3>2
  <2> QED
    BY <2>1, <2>2, <2>3, OrphansNext
<1>6. ASSUME pc' \in {"up", "redirect", "applying"} PROVE p.space # request'.handle
  <2>1. ~Ends
    BY <1>6 DEF Ends
  <2>2. CASE pc \in {"up", "redirect", "applying"} /\ request' = request
    BY <1>5, <2>1, <2>2
  <2>3. CASE Decode
    <3>1. PICK m \in Messages : Send(m) /\ pc' = m.action
      BY <1>6, <2>3 DEF Decode, HandledOne
    <3>2. m.action = "up" /\ m.handle \in Handles
      BY <1>6, <3>1 DEF Messages
    <3> QED
      BY <1>5, <3>1, <3>2 DEF Send
  <2>4. CASE ManagerUp \/ Apply
    BY <1>6, <2>2, <2>4 DEF ManagerUp, Apply, HandledOne
  <2>5. CASE UNCHANGED ndvars \/ (\E k \in Clients : Dial(k))
    BY <1>6, <2>2, <2>5 DEF ndvars, Dial
  <2>6. ~(Listen \/ (\E k \in Clients : Accept(k)) \/ ReceiveFD)
    BY <1>6 DEF Listen, Accept, ReceiveFD, HandledOne
  <2>7. ~(ManagerDown \/ ManagerFails \/ Applied)
    BY <1>6 DEF ManagerDown, ManagerFails, Applied, HandledOne
  <2> QED
    BY <2>1, <2>3, <2>4, <2>5, <2>6, <2>7, DaemonCases
<1> QED
  BY <1>2, <1>4, <1>5, <1>6

LEMMA UntouchedNext ==
  ASSUME AgentsStayOutside, DaemonInv, RedirectInv, [Next]_vars
  PROVE  Untouched'
<1>1. TableInv /\ Untouched /\ UpDone /\ OrphansApart
  BY DEF DaemonInv, RedirectInv
<1>2. asked \subseteq asked'
  BY AskedGrows
<1>3. ASSUME NEW h \in Handles \ asked' PROVE chain'[h] = <<>>
  <2>1. h \in Handles \ asked
    BY <1>2
  <2>2. chain[h] = <<>>
    BY <1>1, <2>1 DEF Untouched
  <2>3. chain'[h] = chain[h]
    <3>1. SUFFICES ASSUME chain'[h] # chain[h] PROVE FALSE
      OBVIOUS
    <3>2. pc = "applying" /\ request.handle = h
      BY <1>1, <2>1, <3>1, ContainerTable DEF OrphansApart
    <3> QED
      BY <1>1, <2>1, <3>2 DEF UpDone
  <2> QED
    BY <2>2, <2>3
<1>4. ASSUME NEW a \in Agents, call'[a] # NoCall PROVE call'[a].space \notin Handles
  <2>1. CASE UNCHANGED <<chain, holder, call, failed, orphanvars>>
    BY <1>1, <1>4, <2>1 DEF Untouched
  <2>2. CASE CallerStep(Daemon)
    <3>1. call'[a] = call[a]
      BY <1>1, <2>2, CallerStepInv DEF Agents
    <3> QED
      BY <1>1, <1>4, <3>1 DEF Untouched
  <2>3. CASE \E c \in Agents : CallerStep(c) /\ AgentStep(c)
    BY <1>1, <1>4, <2>3, AgentFrame
  <2>4. CASE OrphanStep
    BY <1>1, <1>4, <2>4, OrphanInv DEF Untouched
  <2> QED
    BY <1>1, <2>1, <2>2, <2>3, <2>4, OneCaller
<1> QED
  BY <1>3, <1>4 DEF Untouched

LEMMA UpDoneNext ==
  ASSUME AgentsStayOutside, DaemonInv, RedirectInv, [Next]_vars
  PROVE  UpDone'
<1>1. DaemonTypes /\ OwnConfig /\ UpDone /\ Untouched /\ OrphansApart
  BY DEF DaemonInv, RedirectInv
<1>2. pc \in {"up", "redirect", "applying", "down"} => request.handle \in Handles
  BY <1>1 DEF DaemonTypes, Messages
<1>3. pc \in {"up", "redirect"} => chain'[request.handle] = chain[request.handle]
  BY <1>1, <1>2, ContainerTable DEF OrphansApart
<1>4. CASE UNCHANGED ndvars \/ \E k \in Clients : Dial(k)
  <2>1. UNCHANGED <<pc, request, asked, network>>
    BY <1>4 DEF ndvars, Dial
  <2> QED
    BY <1>1, <1>2, <1>3, <2>1 DEF UpDone
<1>5. CASE pc' \in {"stopped", "accept", "fd", "message"}
  BY <1>5 DEF UpDone
<1>6. CASE Decode
  <2>1. pc' = "accept" \/ \E m \in Messages : Send(m) /\ pc' = m.action
    BY <1>6 DEF Decode, HandledOne
  <2>2. CASE \E m \in Messages : Send(m) /\ pc' = m.action
    <3>1. PICK m \in Messages : Send(m) /\ pc' = m.action
      BY <2>2
    <3>2. m.action \in {"up", "down"} /\ m.handle \in Handles
      BY DEF Messages
    <3>3. CASE m.action = "down"
      BY <3>1, <3>3 DEF Send, UpDone
    <3>4. CASE m.action = "up"
      <4>1. request' = m /\ asked' = asked \cup {m.handle} /\ m.handle \notin asked
        BY <3>1, <3>4 DEF Send
      <4>2. chain[m.handle] = <<>>
        BY <1>1, <3>2, <4>1 DEF Untouched
      <4>3. chain' = chain
        BY <1>6 DEF Decode, ipvars
      <4> QED
        BY <3>1, <3>4, <4>1, <4>2, <4>3 DEF UpDone
    <3> QED
      BY <3>2, <3>3, <3>4
  <2> QED
    BY <1>5, <2>1, <2>2
<1>7. CASE ManagerUp
  <2>1. PICK h : h = request.handle
    OBVIOUS
  <2>2. h \in Handles /\ h \in asked /\ chain[h] = <<>>
    BY <1>1, <1>2, <1>7, <2>1 DEF ManagerUp, UpDone
  <2>3. /\ plugins' = InjectConf(plugins, Properties[h], h) /\ pc' = "redirect"
        /\ network' = [network EXCEPT ![h] = plugins'] /\ UNCHANGED <<chain, request, asked>>
    BY <1>7, <2>1 DEF ManagerUp, ipvars
  <2>4. plugins' \in Configs
    BY <1>1, <2>2, <2>3, InjectConfType DEF OwnConfig
  <2>5. network'[h] # NONE
    BY <1>1, <2>2, <2>3, <2>4 DEF OwnConfig
  <2> QED
    BY <2>1, <2>2, <2>3, <2>5 DEF UpDone
<1>8. CASE Apply
  <2>1. CASE Redirects
    <3>1. pc = "redirect" /\ pc' = "applying" /\ UNCHANGED <<request, asked, network>>
      BY <1>8, <2>1 DEF Apply
    <3> QED
      BY <1>1, <3>1 DEF UpDone
  <2>2. CASE ~Redirects
    BY <1>5, <1>8, <2>2 DEF Apply, HandledOne
  <2> QED
    BY <2>1, <2>2
<1>9. CASE Listen \/ (\E k \in Clients : Accept(k)) \/ ReceiveFD \/ Ends
  BY <1>5, <1>9 DEF Listen, Accept, ReceiveFD, HandledOne, Ends
<1>10. CASE ManagerDown \/ ManagerFails \/ Applied
  BY <1>5, <1>10 DEF ManagerDown, ManagerFails, Applied, HandledOne
<1> QED
  BY <1>4, <1>6, <1>7, <1>8, <1>9, <1>10, DaemonCases

\* BulkAppend of the redirect rule to an empty chain.
LEMMA AppendRedirect ==
  ASSUME NEW r, r.op = "BulkAppend", r.rules = <<RedirectRule>>
  PROVE  Outcome(r, <<>>) = {<<RedirectRule>>}
<1>1. <<>> \o <<RedirectRule>> = <<RedirectRule>>
  OBVIOUS
<1>2. Outcome(r, <<>>) = {<<>> \o r.rules}
  BY DEF Outcome
<1> QED
  BY <1>1, <1>2

LEMMA ApplyingNext ==
  ASSUME AgentsStayOutside, DaemonInv, RedirectInv, [Next]_vars, pc' = "applying"
  PROVE  Applying'
<1>1. /\ TableInv /\ DaemonTypes /\ UpDone /\ Untouched /\ OrphansApart
      /\ (pc = "applying" => Applying)
  BY DEF DaemonInv, RedirectInv
<1>2. /\ call = [x \in Callers |-> call[x]] /\ failed \in [Callers -> BOOLEAN]
      /\ chain = [x \in Spaces |-> chain[x]] /\ Locked(Daemon)
  BY <1>1, TableFacts
<1>3. CASE Apply
  <2>1. Redirects
    BY <1>3 DEF Apply, HandledOne
  <2>2. PICK r : r = Request("BulkAppend", request.handle, <<RedirectRule>>, 0)
    OBVIOUS
  <2>3. Begin(Daemon, r) /\ UNCHANGED request /\ pc = "redirect"
    BY <1>3, <2>1, <2>2 DEF Apply
  <2>4. /\ r.op = "BulkAppend" /\ r.space = request.handle /\ r.rules = <<RedirectRule>>
        /\ r.pc = "lock"
    BY <2>2, RequestFields
  <2>5. call'[Daemon] = r /\ chain' = chain
    BY <1>2, <2>3 DEF Begin
  <2>6. chain[request.handle] = <<>>
    BY <1>1, <2>3 DEF UpDone
  <2> QED
    BY <2>3, <2>4, <2>5, <2>6 DEF Applying
<1>4. CASE ~Apply
  <2>1. pc = "applying" /\ UNCHANGED request /\ ~Ends
    <3>1. ~(Listen \/ (\E k \in Clients : Accept(k)) \/ ReceiveFD \/ ManagerUp \/ Ends)
      BY DEF Listen, Accept, ReceiveFD, HandledOne, ManagerUp, Ends
    <3>2. ~(ManagerDown \/ ManagerFails \/ Applied)
      BY DEF ManagerDown, ManagerFails, Applied, HandledOne
    <3>3. ~Decode
      BY DEF Decode, HandledOne, Messages
    <3>4. UNCHANGED ndvars \/ (\E k \in Clients : Dial(k))
      BY <1>4, <3>1, <3>2, <3>3, DaemonCases
    <3> QED
      BY <3>1, <3>4 DEF ndvars, Dial
  <2> DEFINE h == request.handle
  <2>2. h' = h /\ h \in Handles /\ h \in Spaces
    BY <1>1, <2>1 DEF DaemonTypes, Messages
  <2> HIDE DEF h
  <2>3. /\ call[Daemon] # NoCall =>
              call[Daemon].op = "BulkAppend" /\ call[Daemon].space = h
                /\ call[Daemon].rules = <<RedirectRule>>
        /\ call[Daemon].pc \in {"lock", "read", "write"} => chain[h] = <<>>
        /\ call[Daemon].pc = "write" => call[Daemon].seen = <<>>
        /\ call[Daemon].pc \in {"unlock", "idle"} =>
             failed[Daemon] = TRUE \/ chain[h] = <<RedirectRule>>
    BY <1>1, <2>1 DEF Applying, h
  <2>4. SUFFICES
        /\ call'[Daemon] # NoCall =>
              call'[Daemon].op = "BulkAppend" /\ call'[Daemon].space = h
                /\ call'[Daemon].rules = <<RedirectRule>>
        /\ call'[Daemon].pc \in {"lock", "read", "write"} => chain'[h] = <<>>
        /\ call'[Daemon].pc = "write" => call'[Daemon].seen = <<>>
        /\ call'[Daemon].pc \in {"unlock", "idle"} =>
             failed'[Daemon] = TRUE \/ chain'[h] = <<RedirectRule>>
    BY <2>1, <2>2 DEF Applying, h
  <2>5. CASE UNCHANGED <<chain, holder, call, failed, orphanvars>>
    BY <2>3, <2>5
  <2>6. CASE \E c \in Agents : CallerStep(c) /\ AgentStep(c)
    <3>1. chain'[h] = chain[h] /\ call'[Daemon] = call[Daemon] /\ failed'[Daemon] = failed[Daemon]
      BY <1>1, <2>2, <2>6, AgentFrame
    <3> QED
      BY <2>3, <3>1
  <2>7. CASE Lock(Daemon) \/ ReadTable(Daemon)
    <3>1. /\ call[Daemon].pc \in {"lock", "read"} /\ call[Daemon] # NoCall /\ chain' = chain
      BY <2>7, NoCallFields DEF Lock, ReadTable
    <3>2. /\ SameRequest(call[Daemon], call'[Daemon]) /\ call'[Daemon].pc \in {"read", "write"}
          /\ call'[Daemon].pc = "write" => call'[Daemon].seen = chain[call[Daemon].space]
      BY <1>1, <2>7, LockInv, ReadTableInv
    <3> QED
      BY <2>3, <3>1, <3>2 DEF SameRequest
  <2>8. CASE WriteTable(Daemon)
    <3>1. call[Daemon].pc = "write" /\ call[Daemon] # NoCall
      BY <2>8, NoCallFields DEF WriteTable
    <3>2. SameRequest(call[Daemon], call'[Daemon]) /\ call'[Daemon].pc = "unlock"
      BY <1>1, <2>8, WriteTableInv
    <3>3. failed'[Daemon] = TRUE \/ chain'[h] = <<RedirectRule>>
      <4>1. CASE chain' = chain /\ failed' = [failed EXCEPT ![Daemon] = TRUE]
        BY <1>2, <4>1
      <4>2. CASE \E ch \in Outcome(call[Daemon], call[Daemon].seen) :
                   chain' = [chain EXCEPT ![call[Daemon].space] = ch]
        <5>1. PICK ch \in Outcome(call[Daemon], call[Daemon].seen) :
                     chain' = [chain EXCEPT ![h] = ch]
          BY <2>3, <3>1, <4>2
        <5>2. call[Daemon].seen = <<>>
          BY <2>3, <3>1
        <5>3. ch = <<RedirectRule>>
          BY <2>3, <3>1, <5>1, <5>2, AppendRedirect
        <5> QED
          BY <1>2, <2>2, <5>1, <5>3
      <4> QED
        BY <1>1, <2>8, <4>1, <4>2, WriteTableInv
    <3> QED
      BY <2>3, <3>1, <3>2, <3>3 DEF SameRequest
  <2>9. CASE CommandFails(Daemon)
    <3>1. call[Daemon] # NoCall
      BY <2>9, NoCallFields DEF CommandFails
    <3>2. /\ SameRequest(call[Daemon], call'[Daemon]) /\ call'[Daemon].pc = "unlock"
          /\ failed' = [failed EXCEPT ![Daemon] = TRUE]
      BY <1>1, <2>9, CommandFailsInv
    <3>3. failed'[Daemon] = TRUE
      BY <1>2, <3>2
    <3> QED
      BY <2>3, <3>1, <3>2, <3>3 DEF SameRequest
  <2>10. CASE LockFails(Daemon) \/ UnlockFails(Daemon)
    <3>1. failed' = [failed EXCEPT ![Daemon] = TRUE]
      BY <2>10 DEF LockFails, UnlockFails, Error
    <3>2. failed'[Daemon] = TRUE
      BY <1>2, <3>1
    <3>3. call'[Daemon] = NoCall
      BY <1>1, <2>10, CallEndsInv
    <3> QED
      BY <3>2, <3>3, NoCallFields
  <2>11. CASE Unlock(Daemon)
    <3>1. call'[Daemon] = NoCall
      BY <1>1, <2>11, CallEndsInv
    <3>2. call[Daemon].pc = "unlock" /\ UNCHANGED <<chain, failed>>
      BY <2>11 DEF Unlock
    <3> QED
      BY <2>3, <3>1, <3>2, NoCallFields
  <2>12. CASE OrphanStep
    <3>1. UNCHANGED <<call, failed>>
      BY <1>1, <2>12, OrphanInv
    <3>2. chain'[h] = chain[h]
      BY <1>1, <2>1, <2>2, <2>12, OrphanInv DEF OrphansApart, h
    <3> QED
      BY <2>3, <3>1, <3>2
  <2> QED
    BY <1>1, <1>4, <2>1, <2>12, <2>5, <2>6, <2>7, <2>8, <2>9, <2>10, <2>11, OneCaller
       DEF CallStep, CallFault
<1> QED
  BY <1>3, <1>4

LEMMA RedirectNext ==
  ASSUME AgentsStayOutside, DaemonInv, RedirectInv, [Next]_vars
  PROVE  RedirectInv'
BY UntouchedNext, UpDoneNext, OrphansApartNext, ApplyingNext DEF RedirectInv

LEMMA RedirectInitInv == Init => RedirectInv
<1> SUFFICES ASSUME Init PROVE RedirectInv
  OBVIOUS
<1>1. pc = "stopped" /\ asked = {} /\ chain = [s \in Spaces |-> <<>>]
      /\ call = [c \in Callers |-> NoCall] /\ orphans = {}
  BY DEF Init, TableInit
<1>2. Untouched
  BY <1>1 DEF Untouched, Agents
<1>3. UpDone
  BY <1>1 DEF UpDone
<1>4. OrphansApart
  BY <1>1 DEF OrphansApart
<1> QED
  BY <1>1, <1>2, <1>3, <1>4 DEF RedirectInv

LEMMA RedirectOnce ==
  ASSUME NEW ch, ch = <<RedirectRule>>
  PROVE  Cardinality({i \in DOMAIN ch : ch[i] = RedirectRule}) = 1
<1>1. {i \in DOMAIN ch : ch[i] = RedirectRule} = {1}
  OBVIOUS
<1> QED
  BY <1>1, FS_Singleton

\* A client that is told that its up worked has a container with a network and,
\* if traffic is redirected, with the redirect rule in place exactly once: the
\* answer never goes out after a failed call, whichever step of it failed, and
\* no other connection, restart or process of the cell has touched the chain.
\* The hypothesis is about processes outside this repository: those that take
\* the same lock (the CNI plugins and the policy agent) change tables of the
\* host only.
THEOREM AnswerMeansRedirected == AgentsStayOutside => (Spec => AnsweredMeansDone)
<1> SUFFICES ASSUME AgentsStayOutside PROVE Spec => AnsweredMeansDone
  OBVIOUS
<1> DEFINE Done == \A k \in Clients :
       conn[k] = "open" /\ conn'[k] = "answered" /\ request.action = "up" =>
         /\ network[request.handle] # NONE
         /\ Redirects => Cardinality({i \in DOMAIN chain[request.handle] :
                                        chain[request.handle][i] = RedirectRule}) = 1
<1>1. DaemonInv /\ RedirectInv /\ [Next]_vars => [Done]_vars
  <2> SUFFICES ASSUME DaemonInv, RedirectInv, [Next]_vars, NEW k \in Clients,
                      conn[k] = "open", conn'[k] = "answered", request.action = "up"
               PROVE  /\ network[request.handle] # NONE
                      /\ Redirects => Cardinality({i \in DOMAIN chain[request.handle] :
                                             chain[request.handle][i] = RedirectRule}) = 1
    OBVIOUS
  <2>1. /\ conn = [j \in Clients |-> conn[j]] /\ UpDone /\ (pc = "applying" => Applying)
        /\ Locked(Daemon)
    BY TableFacts DEF DaemonInv, DaemonTypes, RedirectInv
  <2>2. ~HandledOne(FALSE)
    BY <2>1 DEF HandledOne
  <2>3. CASE Apply
    <3>1. ~Redirects
      BY <2>3 DEF Apply
    <3> QED
      BY <2>1, <2>3, <3>1 DEF Apply, UpDone
  <2>4. CASE Applied
    <3>1. pc = "applying" /\ call[Daemon] = NoCall /\ HandledOne(~failed[Daemon])
      BY <2>4 DEF Applied
    <3>2. ~(failed[Daemon] = TRUE)
      BY <2>1, <3>1 DEF HandledOne
    <3>3. chain[request.handle] = <<RedirectRule>>
      BY <2>1, <3>1, <3>2, NoCallFields DEF Applying
    <3>4. network[request.handle] # NONE
      BY <2>1, <3>1 DEF UpDone
    <3> QED
      BY <3>3, <3>4, RedirectOnce
  <2>5. ~ManagerDown
    BY <2>1 DEF ManagerDown, UpDone
  <2>6. ~(\E j \in Clients : Dial(j))
    BY <2>1 DEF Dial
  <2>7. ~(UNCHANGED ndvars \/ Listen \/ (\E j \in Clients : Accept(j)) \/ ManagerUp)
    BY DEF ndvars, Listen, Accept, ManagerUp
  <2>8. ~(ReceiveFD \/ Decode \/ ManagerFails)
    BY <2>2 DEF ReceiveFD, Decode, ManagerFails
  <2>9. ~Ends
    BY <2>1 DEF Ends
  <2> QED
    BY <2>3, <2>4, <2>5, <2>6, <2>7, <2>8, <2>9, DaemonCases
<1>2. DaemonInv /\ RedirectInv /\ [Next]_vars => (DaemonInv /\ RedirectInv)'
  BY DaemonNext, RedirectNext
<1>3. Init => DaemonInv /\ RedirectInv
  BY DaemonInitInv, RedirectInitInv
<1> HIDE DEF Done
<1>4. AnsweredMeansDone <=> [][Done]_vars
  BY DEF AnsweredMeansDone, Done
<1> QED
  BY <1>1, <1>2, <1>3, <1>4, PTL DEF Spec

=============================================================================
