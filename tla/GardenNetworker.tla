--------------------------- MODULE GardenNetworker ---------------------------
(***************************************************************************)
(* The garden-external-networker: Garden runs it to connect a container    *)
(* (up) and to disconnect it (down).  Host ports that the caller leaves to *)
(* the networker come from a pool kept in a state file, which several      *)
(* networker processes read and overwrite under a file lock.               *)
(*                                                                         *)
(* Garden, the kernel and the CNI plugins are external.  Garden calls up   *)
(* once for a container, calls down when the container goes or up failed,  *)
(* calls down again if down failed, and has one call per container at a    *)
(* time.  The kernel frees the file lock of a process that is killed.      *)
(***************************************************************************)
EXTENDS Naturals, Sequences

CONSTANTS
  Handles,            \* containers
  Procs,              \* networker processes that run at the same time
  NONE,               \* no handle, no process
  StartPort, Capacity,
  NetIns,             \* the lists of host ports that up may be given; 0: any
  MaxFailures,        \* bound: failed calls and killed processes
  MaxTorn             \* bound: of those, the ones while the file is truncated

ASSUME GardenNetworkerAssumption ==
  /\ NONE \notin Handles \cup Procs
  /\ StartPort \in Nat \ {0} /\ Capacity \in Nat
  /\ NetIns \subseteq Seq(Nat)
  /\ MaxFailures \in Nat /\ MaxTorn \in Nat

VARIABLES
  container,  \* "none", "up", or "failed": up began and has not succeeded
  mounts,     \* containers whose network namespace is bind-mounted
  nets,       \* per container: the port mappings that CNI forwards to it
  file,       \* the state file: the ports of each container
  corrupt,    \* the state file holds a partly written pool instead
  lock,       \* the process that has the state file locked
  call,       \* per process: the call it runs
  leaked,     \* history: containers for which down only logged an error
  lost,       \* history, per container: the ports in use whose record in the
              \* state file was lost by a write that was cut short
  failures, torn

gnvars == <<container, mounts, nets, file, corrupt, lock, call, leaked, lost, failures,
            torn>>

\* Tracker.InRange.
InRange(port) == port >= StartPort /\ port < StartPort + Capacity
PortRange == {p \in StartPort..(StartPort + Capacity) : InRange(p)}

---------------------------------------------------------------------------
(* The pool: a map from ports to handles, and its JSON form *)

Pools == [PortRange -> Handles \cup {NONE}]
EmptyFile == [h \in Handles |-> {}]

MarshalJSON(pool) == [h \in Handles |-> {p \in PortRange : pool[p] = h}]

UnmarshalJSON(json) ==
  [p \in PortRange |-> IF \E h \in Handles : p \in json[h]
                       THEN CHOOSE h \in Handles : p \in json[h]
                       ELSE NONE]

\* The port that AcquireOne takes, if there is one: the lowest free one.
FreePort(pool) ==
  {p \in PortRange : /\ pool[p] = NONE
                     /\ \A q \in PortRange : pool[q] = NONE => p <= q}

AcquireOne(pool, p, handle) == [pool EXCEPT ![p] = handle]

\* Mutant: the loop stops at the first port of the handle.
ReleaseAll_First(pool, handle) ==
  [p \in PortRange |->
     IF pool[p] = handle /\ \A q \in PortRange : pool[q] = handle => p <= q
     THEN NONE ELSE pool[p]]

ReleaseAll(pool, handle) ==
  [p \in PortRange |-> IF pool[p] = handle THEN NONE ELSE pool[p]]

---------------------------------------------------------------------------
\* A mapping of the allocator's port, or of the port that the caller specified.
Mappings == [port : Nat, allocated : BOOLEAN]
Own(port) == [port |-> port, allocated |-> TRUE]
Specified(port) == [port |-> port, allocated |-> FALSE]

Idle == [op |-> "idle", pc |-> "idle", handle |-> NONE, netIn |-> <<>>,
         mapped |-> {}, pool |-> UnmarshalJSON(EmptyFile), port |-> 0]

Init ==
  /\ container = [h \in Handles |-> "none"]
  /\ mounts = {} /\ nets = [h \in Handles |-> {}]
  /\ file = EmptyFile /\ corrupt = FALSE /\ lock = NONE
  /\ call = [a \in Procs |-> Idle]
  /\ leaked = {} /\ lost = [h \in Handles |-> {}] /\ failures = 0 /\ torn = 0

At(a, op, pc) == call[a].op = op /\ call[a].pc = pc
H(a) == call[a].handle
Goto(a, pc) == call' = [call EXCEPT ![a].pc = pc]

\* The allocator's port is forwarded to the container, or is about to be.
Uses(h, port) ==
  \/ Own(port) \in nets[h]
  \/ \E a \in Procs : H(a) = h /\ Own(port) \in call[a].mapped

\* Garden has no call for the container under way.
Quiet(h) == \A a \in Procs : H(a) # h

\* The call returns or its process is killed: either closes the file.
Finish(a, state) ==
  /\ call' = [call EXCEPT ![a] = Idle]
  /\ container' = [container EXCEPT ![H(a)] = state]
  /\ lock' = IF lock = a THEN NONE ELSE lock

---------------------------------------------------------------------------
(* Manager.Up *)

\* The call begins, and IdempotentlyMount comes first.
Up(a, h, netIn) ==
  /\ call[a] = Idle /\ Quiet(h) /\ container[h] = "none"
  /\ call' = [call EXCEPT ![a] = [Idle EXCEPT !.op = "up", !.pc = "ports",
                                              !.handle = h, !.netIn = netIn]]
  /\ mounts' = mounts \cup {h}
  /\ container' = [container EXCEPT ![h] = "failed"]
  /\ UNCHANGED <<nets, file, corrupt, lock, leaked, lost, failures, torn>>

\* The next NetIn is done: it maps the port.
Mapped(a, mapping) ==
  call' = [call EXCEPT ![a].pc = "ports", ![a].netIn = Tail(@),
                       ![a].mapped = @ \cup {mapping}]

\* A host port that the caller specified is taken as it is, also one of the
\* allocator's range: AllocatePort, which would refuse it, is not called.
SpecifiedPort(a) ==
  /\ At(a, "up", "ports") /\ call[a].netIn # <<>> /\ Head(call[a].netIn) # 0
  /\ Mapped(a, Specified(Head(call[a].netIn)))
  /\ UNCHANGED <<container, mounts, nets, file, corrupt, lock, leaked, lost, failures, torn>>

WantsPort(a) ==
  At(a, "up", "ports") /\ call[a].netIn # <<>> /\ Head(call[a].netIn) = 0

\* Mutant: the state file is opened without its lock.
Open_NoLock(a) == UNCHANGED lock

\* Locker.Open waits for the lock.
Open(a) == lock = NONE /\ lock' = a

\* AllocatePort: open, DecodeAll (an empty file is an empty pool), AcquireOne.
\* Nobody else writes the file meanwhile, so this is one step.
AllocateOpen(a) ==
  /\ WantsPort(a) /\ ~corrupt
  /\ Open(a)
  /\ LET pool == UnmarshalJSON(file)
     IN  \E port \in FreePort(pool) :
           call' = [call EXCEPT ![a].pc = "truncate", ![a].port = port,
                                ![a].pool = AcquireOne(pool, port, H(a))]
  /\ UNCHANGED <<container, mounts, nets, file, corrupt, leaked, lost, failures, torn>>

\* Mutant: this error path does not close the file.
AllocateError_KeepsLock(a) ==
  /\ WantsPort(a) /\ lock = NONE
  /\ corrupt \/ FreePort(UnmarshalJSON(file)) = {}
  /\ call' = [call EXCEPT ![a] = Idle]
  /\ lock' = a
  /\ UNCHANGED <<container, mounts, nets, file, corrupt, leaked, lost, failures, torn>>

\* The pool is exhausted or the file cannot be decoded: up fails, and the
\* deferred Close has let go of the lock.
AllocateError(a) ==
  /\ WantsPort(a) /\ lock = NONE
  /\ corrupt \/ FreePort(UnmarshalJSON(file)) = {}
  /\ Finish(a, "failed")
  /\ UNCHANGED <<mounts, nets, file, corrupt, leaked, lost, failures, torn>>

\* EncodeAndOverwrite: the file is emptied first ...
Truncate(a) ==
  /\ call[a].pc = "truncate"
  /\ file' = EmptyFile
  /\ Goto(a, "encode")
  /\ UNCHANGED <<container, mounts, nets, corrupt, lock, leaked, lost, failures, torn>>

\* ... and then written; closing the file unlocks it.
AllocateEncode(a) ==
  /\ At(a, "up", "encode")
  /\ file' = MarshalJSON(call[a].pool)
  /\ lock' = NONE
  /\ Mapped(a, Own(call[a].port))
  /\ UNCHANGED <<container, mounts, nets, corrupt, leaked, lost, failures, torn>>

\* CNIController.Up: the plugins forward the mapped ports.
CniUp(a) ==
  /\ At(a, "up", "ports") /\ call[a].netIn = <<>>
  /\ nets' = [nets EXCEPT ![H(a)] = call[a].mapped]
  /\ Goto(a, "proxy")
  /\ UNCHANGED <<container, mounts, file, corrupt, lock, leaked, lost, failures, torn>>

\* ProxyRedirect.Apply, and up returns the mapped ports.
UpReturns(a) ==
  /\ At(a, "up", "proxy")
  /\ Finish(a, "up")
  /\ UNCHANGED <<mounts, nets, file, corrupt, leaked, lost, failures, torn>>

---------------------------------------------------------------------------
(* Manager.Down *)

Down(a, h) ==
  /\ call[a] = Idle /\ Quiet(h) /\ container[h] \in {"up", "failed"}
  /\ call' = [call EXCEPT ![a] = [Idle EXCEPT !.op = "down", !.pc = "cni", !.handle = h]]
  /\ UNCHANGED <<container, mounts, nets, file, corrupt, lock, leaked, lost, failures, torn>>

CniDown(a) ==
  /\ At(a, "down", "cni")
  /\ nets' = [nets EXCEPT ![H(a)] = {}] /\ lost' = [lost EXCEPT ![H(a)] = {}]
  /\ Goto(a, "unmount")
  /\ UNCHANGED <<container, mounts, file, corrupt, lock, leaked, failures, torn>>

RemoveMount(a) ==
  /\ At(a, "down", "unmount")
  /\ mounts' = mounts \ {H(a)}
  /\ Goto(a, "release")
  /\ UNCHANGED <<container, nets, file, corrupt, lock, leaked, lost, failures, torn>>

\* ReleaseAllPorts: open, DecodeAll, ReleaseAll.
ReleaseOpen(a) ==
  /\ At(a, "down", "release") /\ ~corrupt
  /\ Open(a)
  /\ call' = [call EXCEPT ![a].pc = "truncate",
                          ![a].pool = ReleaseAll(UnmarshalJSON(file), H(a))]
  /\ UNCHANGED <<container, mounts, nets, file, corrupt, leaked, lost, failures, torn>>

ReleaseEncode(a) ==
  /\ At(a, "down", "encode")
  /\ file' = MarshalJSON(call[a].pool)
  /\ Finish(a, "none")
  /\ UNCHANGED <<mounts, nets, corrupt, leaked, lost, failures, torn>>

\* The file cannot be decoded: the error is logged and down succeeds.
ReleaseError(a) ==
  /\ At(a, "down", "release") /\ corrupt /\ lock = NONE
  /\ leaked' = leaked \cup {H(a)}
  /\ Finish(a, "none")
  /\ UNCHANGED <<mounts, nets, file, corrupt, lost, failures, torn>>

---------------------------------------------------------------------------
(* Failures *)

Fault == failures < MaxFailures /\ failures' = failures + 1

\* A process is killed, or up returns an error: nothing is undone.
Abort(a) ==
  /\ call[a] # Idle /\ call[a].pc # "encode" /\ Fault
  /\ Finish(a, container[H(a)])
  /\ UNCHANGED <<mounts, nets, file, corrupt, leaked, lost, torn>>

\* A write that does not get to its end leaves an empty file or a part of the
\* JSON.
Torn(a) ==
  /\ call[a].pc = "encode" /\ Fault
  /\ torn < MaxTorn /\ torn' = torn + 1
  /\ corrupt' \in BOOLEAN
  /\ lost' = [h \in Handles |-> lost[h] \cup {p \in PortRange : Uses(h, p)}]
  /\ UNCHANGED <<mounts, nets, file>>

\* A process is killed, or up returns an error, after Truncate.
AbortTorn(a) == Torn(a) /\ Finish(a, container[H(a)]) /\ UNCHANGED leaked

\* Encode fails in down: logged, and down succeeds.
ReleaseTorn(a) ==
  /\ call[a].op = "down" /\ Torn(a)
  /\ leaked' = leaked \cup {H(a)}
  /\ Finish(a, "none")

\* The mount fails: up has done nothing.
MountFails(h) ==
  /\ Quiet(h) /\ container[h] = "none" /\ Fault
  /\ container' = [container EXCEPT ![h] = "failed"]
  /\ UNCHANGED <<mounts, nets, file, corrupt, lock, call, leaked, lost, torn>>

\* A plugin fails after others have forwarded the ports.
CniUpFails(a) ==
  /\ At(a, "up", "ports") /\ call[a].netIn = <<>> /\ Fault
  /\ nets' = [nets EXCEPT ![H(a)] = call[a].mapped]
  /\ Finish(a, "failed")
  /\ UNCHANGED <<mounts, file, corrupt, leaked, lost, torn>>

\* Mutant: a CNI error is logged like the errors that follow it.
CniDownFails_Logged(a) ==
  /\ At(a, "down", "cni") /\ Fault
  /\ Goto(a, "unmount")
  /\ UNCHANGED <<container, mounts, nets, file, corrupt, lock, leaked, lost, torn>>

\* CNI fails, having removed the ports or not: down returns the error before
\* it gives the ports back, and Garden calls it again.
CniDownFails(a) ==
  /\ At(a, "down", "cni") /\ Fault
  /\ nets' \in {nets, [nets EXCEPT ![H(a)] = {}]}
  /\ Finish(a, container[H(a)])
  /\ UNCHANGED <<mounts, file, corrupt, leaked, lost, torn>>

\* Unmounting fails: logged.
RemoveMountFails(a) ==
  /\ At(a, "down", "unmount") /\ Fault
  /\ leaked' = leaked \cup {H(a)}
  /\ Goto(a, "release")
  /\ UNCHANGED <<container, mounts, nets, file, corrupt, lock, lost, torn>>

\* Opening or truncating the file fails: logged, and down succeeds.
ReleaseFails(a) ==
  /\ At(a, "down", "release") \/ At(a, "down", "truncate")
  /\ Fault
  /\ leaked' = leaked \cup {H(a)}
  /\ Finish(a, "none")
  /\ UNCHANGED <<mounts, nets, file, corrupt, lost, torn>>

---------------------------------------------------------------------------
\* The steps a call takes by itself.
Step(a) ==
  \/ SpecifiedPort(a) \/ AllocateOpen(a) \/ AllocateError(a) \/ Truncate(a)
  \/ AllocateEncode(a) \/ CniUp(a) \/ UpReturns(a)
  \/ CniDown(a) \/ RemoveMount(a) \/ ReleaseOpen(a) \/ ReleaseEncode(a)
  \/ ReleaseError(a)

Failure(a) ==
  \/ Abort(a) \/ AbortTorn(a) \/ ReleaseTorn(a) \/ CniUpFails(a) \/ CniDownFails(a)
  \/ RemoveMountFails(a) \/ ReleaseFails(a)

Garden(a) ==
  \E h \in Handles : (\E netIn \in NetIns : Up(a, h, netIn)) \/ Down(a, h)

Next ==
  \/ \E a \in Procs : Garden(a) \/ Step(a) \/ Failure(a)
  \/ \E h \in Handles : MountFails(h)

Spec == Init /\ [][Next]_gnvars

\* Processes run, and whoever waits for the file lock gets it some time.
FairSpec == Spec /\ \A a \in Procs : SF_gnvars(Step(a))

---------------------------------------------------------------------------
(* Properties *)

\* The ports forwarded to a container that the allocator gave it.
Allocated(h) == {m.port : m \in {n \in nets[h] : n.allocated}}

\* Type correctness; a process is between open and close exactly while it
\* holds the lock.
TypeOK ==
  /\ container \in [Handles -> {"none", "up", "failed"}]
  /\ mounts \subseteq Handles /\ leaked \subseteq Handles
  /\ nets \in [Handles -> SUBSET Mappings]
  /\ lost \in [Handles -> SUBSET PortRange]
  /\ file \in [Handles -> SUBSET PortRange] /\ corrupt \in BOOLEAN
  /\ \A a \in Procs : call[a].pool \in Pools
  /\ \A a \in Procs : lock = a <=> call[a].pc \in {"truncate", "encode"}

\* The allocator never gives one port to two containers at a time, whichever
\* processes overlap, fail or are killed and whatever ports callers specify:
\* down gives the ports back only after CNI has stopped to forward them, and
\* up takes them under the file lock.  A write of the state file that was cut
\* short makes an exception of the ports that were in use just then, until
\* their container goes, and of no other port.
NoSharedPort ==
  \A h, k \in Handles :
    h # k => Allocated(h) \cap Allocated(k) \subseteq lost[h] \cup lost[k]

\* Whenever nobody has the file locked, each port that the allocator gave and
\* that is forwarded to a container is recorded there as that container's,
\* with the same exception.  (With the types.)
PortsAllocated ==
  /\ TypeOK
  /\ lock = NONE => \A h \in Handles : Allocated(h) \ lost[h] \subseteq file[h]

\* After a down that logged no error nothing of the container is left, also if
\* its up had failed or was killed at any point.
DownCleansUp ==
  \A h \in Handles :
    container[h] = "none" /\ h \notin leaked /\ lock = NONE =>
      h \notin mounts /\ nets[h] = {} /\ file[h] = {}

\* Every call ends: no process waits for a lock that nobody gives back.
EveryCallReturns == \A a \in Procs : call[a].op # "idle" ~> call[a].op = "idle"
=============================================================================
