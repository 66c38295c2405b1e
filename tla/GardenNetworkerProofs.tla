----------------------- MODULE GardenNetworkerProofs -----------------------
(***************************************************************************)
(* Proofs about GardenNetworker, for any containers, processes, range of   *)
(* ports and bounds on failures.                                           *)
(***************************************************************************)
EXTENDS GardenNetworker, SequenceTheorems, TLAPS

USE GardenNetworkerAssumption

---------------------------------------------------------------------------
(* The inductive invariant *)

Calls ==
  [op : {"idle", "up", "down"},
   pc : {"idle", "ports", "truncate", "encode", "proxy", "cni", "unmount", "release"},
   handle : Handles \cup {NONE}, netIn : Seq(Nat), mapped : SUBSET Mappings,
   pool : Pools, port : Nat]

Writing(a) == call[a].pc \in {"truncate", "encode"}

UpOK(a) ==
  /\ call[a].op = "up" /\ call[a].pc \in {"ports", "truncate", "encode", "proxy"}
  /\ H(a) \in Handles /\ container[H(a)] = "failed"
  /\ Writing(a) => call[a].netIn # <<>>

DownOK(a) ==
  /\ call[a].op = "down"
  /\ call[a].pc \in {"cni", "unmount", "release", "truncate", "encode"}
  /\ H(a) \in Handles /\ container[H(a)] \in {"up", "failed"}

DataOK ==
  /\ mounts \subseteq Handles /\ leaked \subseteq Handles
  /\ nets \in [Handles -> SUBSET Mappings]
  /\ lost \in [Handles -> SUBSET PortRange]
  /\ file \in [Handles -> SUBSET PortRange] /\ corrupt \in BOOLEAN
  /\ failures \in Nat /\ torn \in Nat

\* Who runs what: a container has one call at a time, and who writes the state
\* file has it locked.
CallsOK ==
  /\ container \in [Handles -> {"none", "up", "failed"}]
  /\ lock \in Procs \cup {NONE} /\ call \in [Procs -> Calls]
  /\ \A a \in Procs : lock = a <=> Writing(a)
  /\ \A a \in Procs : call[a] = Idle \/ UpOK(a) \/ DownOK(a)
  /\ \A a, b \in Procs : a # b /\ H(a) = H(b) => H(a) = NONE

Shape == DataOK /\ CallsOK

\* What a down has done so far.
DownDone(a) ==
  call[a].op = "down" =>
    /\ call[a].mapped = {}
    /\ call[a].pc # "cni" => nets[H(a)] = {}
    /\ call[a].pc \notin {"cni", "unmount"} => H(a) \in leaked \/ H(a) \notin mounts
    /\ Writing(a) => \A p \in PortRange : call[a].pool[p] # H(a)

\* Nothing is left of a container that is gone, and nothing is about to be
\* written back.
Gone(h) ==
  container[h] = "none" /\ h \notin leaked =>
    /\ h \notin mounts /\ nets[h] = {} /\ file[h] = {}
    /\ \A a \in Procs : Writing(a) => \A p \in PortRange : call[a].pool[p] # h

Clean == (\A a \in Procs : DownDone(a)) /\ (\A h \in Handles : Gone(h))

\* A port has one container in the file.
Disjoint == \A h, k \in Handles : h # k => file[h] \cap file[k] = {}

\* The file, unless it is just being written, ...
KnownToFile ==
  (\A a \in Procs : call[a].pc # "encode") =>
     \A h \in Handles, p \in PortRange : Uses(h, p) /\ p \notin lost[h] => p \in file[h]

\* ... and the pool that is about to be written know who uses which port.
KnownToPool(a) ==
  Writing(a) =>
    /\ \A h \in Handles, p \in PortRange : Uses(h, p) /\ p \notin lost[h] => call[a].pool[p] = h
    /\ call[a].op = "up" =>
         call[a].port \in PortRange /\ call[a].pool[call[a].port] = H(a)

\* The allocator's ports are ports of the range.
FromRange == \A h \in Handles, p \in Nat : Uses(h, p) => p \in PortRange

Ports == FromRange /\ KnownToFile /\ \A a \in Procs : KnownToPool(a)

Known == Disjoint /\ Ports

Inv == Shape /\ Clean

---------------------------------------------------------------------------
(* The pool and the state file *)

\* What is read back is a pool that gives a port only to who had it in the
\* file, and to that container if no other had it too.
LEMMA UnmarshalLemma ==
  ASSUME NEW f \in [Handles -> SUBSET PortRange]
  PROVE  /\ UnmarshalJSON(f) \in Pools
         /\ \A h \in Handles, p \in PortRange : UnmarshalJSON(f)[p] = h => p \in f[h]
         /\ (\A h, k \in Handles : h # k => f[h] \cap f[k] = {}) =>
              \A h \in Handles, p \in PortRange : p \in f[h] => UnmarshalJSON(f)[p] = h
<1> DEFINE Owner(p) == CHOOSE h \in Handles : p \in f[h]
<1>1. \A p \in PortRange : (\E h \in Handles : p \in f[h]) =>
        Owner(p) \in Handles /\ p \in f[Owner(p)]
  OBVIOUS
<1>2. \A p \in PortRange :
        UnmarshalJSON(f)[p] = IF \E h \in Handles : p \in f[h] THEN Owner(p) ELSE NONE
  BY DEF UnmarshalJSON
<1>3. UnmarshalJSON(f) = [p \in PortRange |-> UnmarshalJSON(f)[p]]
  BY DEF UnmarshalJSON
<1> HIDE DEF Owner
<1>4. UnmarshalJSON(f) \in Pools
  BY <1>1, <1>2, <1>3 DEF Pools
<1> QED BY <1>1, <1>2, <1>4

\* What is written lists, per container, the ports that the pool gives it.
LEMMA MarshalLemma ==
  ASSUME NEW pool \in Pools
  PROVE  /\ MarshalJSON(pool) \in [Handles -> SUBSET PortRange]
         /\ \A h \in Handles, p \in PortRange : p \in MarshalJSON(pool)[h] <=> pool[p] = h
         /\ \A h, k \in Handles : h # k => MarshalJSON(pool)[h] \cap MarshalJSON(pool)[k] = {}
  BY DEF MarshalJSON, Pools

LEMMA EmptyFileLemma == EmptyFile \in [Handles -> SUBSET PortRange]
  BY DEF EmptyFile

LEMMA IdleLemma ==
  /\ Idle \in Calls
  /\ Idle.op = "idle" /\ Idle.pc = "idle" /\ Idle.handle = NONE
  /\ Idle.netIn = <<>> /\ Idle.mapped = {}
<1>1. UnmarshalJSON(EmptyFile) \in Pools
  BY EmptyFileLemma, UnmarshalLemma
<1>2. <<>> \in Seq(Nat)
  OBVIOUS
<1> QED BY <1>1, <1>2 DEF Idle, Calls

LEMMA PoolLemma ==
  ASSUME NEW pool \in Pools, NEW h \in Handles
  PROVE  /\ ReleaseAll(pool, h) \in Pools
         /\ \A p \in PortRange : ReleaseAll(pool, h)[p] # h
         /\ \A p \in PortRange, k \in Handles :
              ReleaseAll(pool, h)[p] = k <=> pool[p] = k /\ k # h
         /\ \A p \in FreePort(pool) :
              /\ p \in PortRange /\ p \in Nat /\ pool[p] = NONE
              /\ AcquireOne(pool, p, h) \in Pools
              /\ AcquireOne(pool, p, h)[p] = h
              /\ \A q \in PortRange : q # p => AcquireOne(pool, p, h)[q] = pool[q]
<1>1. PortRange \subseteq Nat
  BY DEF PortRange
<1> QED BY <1>1 DEF Pools, ReleaseAll, FreePort, AcquireOne

---------------------------------------------------------------------------
\* One call changes at a time.
LEMMA FinishLemma ==
  ASSUME CallsOK, NEW a \in Procs, call[a] # Idle,
         NEW state \in {"none", "up", "failed"}, Finish(a, state)
  PROVE  /\ H(a) \in Handles
         /\ call'[a] = Idle
         /\ \A b \in Procs : b # a => call'[b] = call[b] /\ (call[b] = Idle \/ H(b) # H(a))
         /\ container'[H(a)] = state
         /\ \A h \in Handles : h # H(a) => container'[h] = container[h]
         /\ CallsOK'
<1>1. H(a) \in Handles
  BY DEF CallsOK, UpOK, DownOK, Writing
<1>2. /\ call' \in [Procs -> Calls] /\ call'[a] = Idle
      /\ \A b \in Procs : b # a => call'[b] = call[b]
      /\ container' \in [Handles -> {"none", "up", "failed"}]
      /\ container'[H(a)] = state
      /\ \A h \in Handles : h # H(a) => container'[h] = container[h]
  BY <1>1, IdleLemma DEF Finish, CallsOK
<1>3. \A b \in Procs : b # a => call[b] = Idle \/ H(b) # H(a)
  BY <1>1 DEF CallsOK, UpOK, DownOK, Writing
<1>4. lock' \in Procs \cup {NONE} /\ \A b \in Procs : lock' = b <=> Writing(b)'
  BY <1>2, IdleLemma DEF Finish, CallsOK, Writing
<1>5. \A b \in Procs : call'[b] = Idle \/ UpOK(b)' \/ DownOK(b)'
  BY <1>1, <1>2, <1>3 DEF CallsOK, UpOK, DownOK, Writing, H
<1>6. \A b, c \in Procs : b # c /\ H(b)' = H(c)' => H(b)' = NONE
  BY <1>2, IdleLemma DEF CallsOK, H
<1>7. CallsOK'
  BY <1>2, <1>4, <1>5, <1>6 DEF CallsOK
<1> QED BY <1>1, <1>2, <1>3, <1>7

\* A call begins or goes on: c is what becomes of it.
GoesOn(a, c) ==
  /\ c \in Calls /\ c.handle \in Handles
  /\ call' = [call EXCEPT ![a] = c]
  /\ \/ call[a] = Idle /\ Quiet(c.handle)
     \/ call[a] # Idle /\ H(a) = c.handle
  /\ container' \in [Handles -> {"none", "up", "failed"}]
  /\ \A h \in Handles : h # c.handle => container'[h] = container[h]
  /\ \/ /\ c.op = "up" /\ c.pc \in {"ports", "truncate", "encode", "proxy"}
        /\ container'[c.handle] = "failed"
        /\ c.pc \in {"truncate", "encode"} => c.netIn # <<>>
     \/ /\ c.op = "down"
        /\ c.pc \in {"cni", "unmount", "release", "truncate", "encode"}
        /\ container'[c.handle] \in {"up", "failed"}
  /\ IF c.pc \in {"truncate", "encode"} THEN lock \in {a, NONE} /\ lock' = a
     ELSE lock' = IF lock = a THEN NONE ELSE lock

LEMMA GoOnLemma ==
  ASSUME CallsOK, NEW a \in Procs, NEW c, GoesOn(a, c)
  PROVE  /\ CallsOK' /\ call'[a] = c
         /\ \A b \in Procs : b # a => call'[b] = call[b] /\ (call[b] = Idle \/ H(b) # c.handle)
<1> USE DEF GoesOn
<1>1. /\ call' \in [Procs -> Calls] /\ call'[a] = c
      /\ \A b \in Procs : b # a => call'[b] = call[b]
  BY DEF CallsOK
<1>2. \A b \in Procs : b # a => call[b] = Idle \/ H(b) # c.handle
  BY DEF CallsOK, Quiet, UpOK, DownOK, Writing
<1>3. lock' \in Procs \cup {NONE} /\ \A b \in Procs : lock' = b <=> Writing(b)'
  BY <1>1 DEF CallsOK, Writing
<1>4. UpOK(a)' \/ DownOK(a)'
  BY <1>1 DEF UpOK, DownOK, Writing, H
<1>5. ASSUME NEW b \in Procs, b # a PROVE call'[b] = Idle \/ UpOK(b)' \/ DownOK(b)'
  BY <1>1, <1>2, <1>5 DEF CallsOK, UpOK, DownOK, Writing, H
<1>6. \A b, d \in Procs : b # d /\ H(b)' = H(d)' => H(b)' = NONE
  <2>1. \A b \in Procs : H(b)' = call'[b].handle /\ H(b) = call[b].handle
    BY DEF H
  <2>2. \A b \in Procs : b # a => H(b) # c.handle
    BY <1>2, <2>1, IdleLemma
  <2> QED BY <1>1, <2>1, <2>2 DEF CallsOK
<1>7. CallsOK'
  BY <1>1, <1>3, <1>4, <1>5, <1>6 DEF CallsOK
<1> QED BY <1>1, <1>2, <1>7

\* Every step keeps Shape.
LEMMA ShapeNext == Shape /\ [Next]_gnvars => Shape'
<1> SUFFICES ASSUME Shape, [Next]_gnvars PROVE Shape'
  OBVIOUS
<1> USE IdleLemma
<1>0. ASSUME NEW a \in Procs, call[a].op # "idle" \/ call[a].pc # "idle"
      PROVE  call[a] # Idle /\ (UpOK(a) \/ DownOK(a)) /\ H(a) \in Handles
  BY <1>0 DEF Shape, DataOK, CallsOK, UpOK, DownOK, Writing
<1> DEFINE Frame ==
                   /\ CallsOK /\ container \in [Handles -> {"none", "up", "failed"}]
                   /\ \A a \in Procs : lock = a <=> Writing(a)
                   /\ \A a \in Procs : call[a] = Idle => ~Writing(a)
<1>f. Frame
  BY DEF Shape, CallsOK, Writing
<1>1. ASSUME NEW a \in Procs, NEW h \in Handles, NEW netIn \in NetIns, Up(a, h, netIn)
      PROVE  Shape'
  <2> DEFINE c == [Idle EXCEPT !.op = "up", !.pc = "ports", !.handle = h, !.netIn = netIn]
  <2>1. c \in Calls /\ c.handle \in Handles
    BY <1>0, <1>1 DEF Up, Shape, DataOK, CallsOK, Calls, H
  <2>2. call' = [call EXCEPT ![a] = c]
    BY <1>1 DEF Up, Shape, DataOK, CallsOK, Calls
  <2>3. c.op = "up" /\ c.pc = "ports" /\ c.handle = h
    BY <1>1 DEF Up, Shape, DataOK, CallsOK, Calls, H
  <2> HIDE DEF c
  <2>5. GoesOn(a, c)
    BY <2>1, <2>2, <2>3, <1>0, <1>f, <1>1 DEF GoesOn, Up, UpOK, DownOK, Writing
  <2>6. DataOK'
    BY <1>0, <1>1 DEF Up, Shape, DataOK, CallsOK, Calls
  <2> QED BY <1>f, <2>5, <2>6, GoOnLemma DEF Shape
<1>2. ASSUME NEW a \in Procs, NEW h \in Handles, Down(a, h)
      PROVE  Shape'
  <2> DEFINE c == [Idle EXCEPT !.op = "down", !.pc = "cni", !.handle = h]
  <2>1. c \in Calls /\ c.handle \in Handles
    BY <1>0, <1>2 DEF Down, Shape, DataOK, CallsOK, Calls, H
  <2>2. call' = [call EXCEPT ![a] = c]
    BY <1>2 DEF Down, Shape, DataOK, CallsOK, Calls
  <2>3. c.op = "down" /\ c.pc = "cni" /\ c.handle = h
    BY <1>2 DEF Down, Shape, DataOK, CallsOK, Calls, H
  <2> HIDE DEF c
  <2>5. GoesOn(a, c)
    BY <2>1, <2>2, <2>3, <1>0, <1>f, <1>2 DEF GoesOn, Down, UpOK, DownOK, Writing
  <2>6. DataOK'
    BY <1>0, <1>2 DEF Down, Shape, DataOK, CallsOK, Calls
  <2> QED BY <1>f, <2>5, <2>6, GoOnLemma DEF Shape
<1>3. ASSUME NEW a \in Procs, SpecifiedPort(a) PROVE Shape'
  <2>0. call[a].netIn # <<>> => Tail(call[a].netIn) \in Seq(Nat) /\ Head(call[a].netIn) \in Nat
    BY HeadTailProperties DEF Shape, DataOK, CallsOK, Calls
  <2> DEFINE c == [call[a] EXCEPT !.pc = "ports", !.netIn = Tail(@),
                              !.mapped = @ \cup {Specified(Head(call[a].netIn))}]
  <2>1. c \in Calls /\ c.handle \in Handles
    <3>1. /\ call[a].netIn # <<>> /\ H(a) \in Handles
      BY <1>0, <1>3 DEF SpecifiedPort, At
    <3>2. call[a] \in Calls
      BY DEF Shape, CallsOK
    <3>3. Specified(Head(call[a].netIn)) \in Mappings
      BY <2>0, <3>1 DEF Specified, Mappings
    <3> QED BY <2>0, <3>1, <3>2, <3>3 DEF Calls, H
  <2>2. call' = [call EXCEPT ![a] = c]
    BY <1>3 DEF SpecifiedPort, Mapped, At, Shape, DataOK, CallsOK, Calls
  <2>3. c.op = "up" /\ c.pc = "ports" /\ c.handle = H(a)
    BY <1>3 DEF SpecifiedPort, Mapped, At, Shape, DataOK, CallsOK, Calls, H
  <2> HIDE DEF c
  <2>5. GoesOn(a, c)
    BY <2>1, <2>2, <2>3, <1>0, <1>f, <1>3 DEF GoesOn, SpecifiedPort, Mapped, At, UpOK, DownOK, Writing
  <2>6. DataOK'
    BY <1>0, <1>3 DEF SpecifiedPort, Mapped, At, Shape, DataOK, CallsOK, Calls
  <2> QED BY <1>f, <2>5, <2>6, GoOnLemma DEF Shape
<1>4. ASSUME NEW a \in Procs, AllocateOpen(a) PROVE Shape'
  <2> DEFINE old == UnmarshalJSON(file)
  <2>0. PICK port \in FreePort(old) :
          call' = [call EXCEPT ![a].pc = "truncate", ![a].port = port,
                               ![a].pool = AcquireOne(old, port, H(a))]
    BY <1>4 DEF AllocateOpen
  <2> DEFINE c == [call[a] EXCEPT !.pc = "truncate", !.port = port,
                                  !.pool = AcquireOne(old, port, H(a))]
  <2>1. port \in Nat /\ AcquireOne(old, port, H(a)) \in Pools
    BY <1>0, <1>4, UnmarshalLemma, PoolLemma DEF AllocateOpen, WantsPort, At, Shape, DataOK, CallsOK
  <2> HIDE DEF old
  <2>2. c \in Calls /\ c.handle \in Handles
    BY <1>0, <1>4, <2>1 DEF AllocateOpen, WantsPort, At, Shape, DataOK, CallsOK, Calls, H
  <2>3. call' = [call EXCEPT ![a] = c]
    BY <2>0 DEF Shape, DataOK, CallsOK, Calls
  <2>4. c.op = "up" /\ c.pc = "truncate" /\ c.handle = H(a) /\ c.netIn # <<>>
    BY <1>4 DEF AllocateOpen, WantsPort, At, Shape, DataOK, CallsOK, Calls, H
  <2> HIDE DEF c
  <2>5. GoesOn(a, c)
    BY <2>2, <2>3, <2>4, <1>0, <1>f, <1>4 DEF GoesOn, AllocateOpen, WantsPort, Open, At, UpOK, DownOK, Writing
  <2>6. DataOK'
    BY <1>0, <1>4 DEF AllocateOpen, WantsPort, Open, At, Shape, DataOK, CallsOK, Calls
  <2> QED BY <1>f, <2>5, <2>6, GoOnLemma DEF Shape
<1>5. ASSUME NEW a \in Procs, AllocateError(a) PROVE Shape'
  BY <1>f, <1>0, <1>5, FinishLemma DEF Shape, DataOK, AllocateError, WantsPort, At
<1>6. ASSUME NEW a \in Procs, Truncate(a) PROVE Shape'
  <2> DEFINE c == [call[a] EXCEPT !.pc = "encode"]
  <2>1. c \in Calls /\ c.handle \in Handles
    BY <1>0, <1>6 DEF Truncate, Goto, Shape, DataOK, CallsOK, Calls, H
  <2>2. call' = [call EXCEPT ![a] = c]
    BY <1>6 DEF Truncate, Goto, Shape, DataOK, CallsOK, Calls
  <2>3. c.op = call[a].op /\ c.pc = "encode" /\ c.handle = H(a) /\ c.netIn = call[a].netIn
    BY <1>6 DEF Truncate, Goto, Shape, DataOK, CallsOK, Calls, H
  <2> HIDE DEF c
  <2>5. GoesOn(a, c)
    BY <2>1, <2>2, <2>3, <1>0, <1>f, <1>6 DEF GoesOn, Truncate, Goto, UpOK, DownOK, Writing
  <2>6. DataOK'
    BY <1>0, <1>6, EmptyFileLemma DEF Truncate, Goto, Shape, DataOK, CallsOK, Calls
  <2> QED BY <1>f, <2>5, <2>6, GoOnLemma DEF Shape
<1>7. ASSUME NEW a \in Procs, AllocateEncode(a) PROVE Shape'
  <2>0. call[a].netIn # <<>> => Tail(call[a].netIn) \in Seq(Nat) /\ Head(call[a].netIn) \in Nat
    BY HeadTailProperties DEF Shape, DataOK, CallsOK, Calls
  <2> DEFINE c == [call[a] EXCEPT !.pc = "ports", !.netIn = Tail(@),
                              !.mapped = @ \cup {Own(call[a].port)}]
  <2>1. c \in Calls /\ c.handle \in Handles
    <3>1. call[a].netIn # <<>> /\ H(a) \in Handles
      BY <1>0, <1>7 DEF AllocateEncode, At, UpOK, DownOK, Writing
    <3>2. call[a] \in Calls
      BY DEF Shape, CallsOK
    <3>3. Own(call[a].port) \in Mappings
      BY <3>2 DEF Calls, Own, Mappings
    <3> QED BY <2>0, <3>1, <3>2, <3>3 DEF Calls, H
  <2>2. call' = [call EXCEPT ![a] = c]
    BY <1>7 DEF AllocateEncode, Mapped, At, Shape, DataOK, CallsOK, Calls
  <2>3. c.op = "up" /\ c.pc = "ports" /\ c.handle = H(a)
    BY <1>7 DEF AllocateEncode, Mapped, At, Shape, DataOK, CallsOK, Calls, H
  <2> HIDE DEF c
  <2>5. GoesOn(a, c)
    BY <2>1, <2>2, <2>3, <1>0, <1>f, <1>7 DEF GoesOn, AllocateEncode, Mapped, At, UpOK, DownOK, Writing
  <2>6. DataOK'
    BY <1>0, <1>7, MarshalLemma DEF AllocateEncode, Mapped, At, Shape, DataOK, CallsOK, Calls
  <2> QED BY <1>f, <2>5, <2>6, GoOnLemma DEF Shape
<1>8. ASSUME NEW a \in Procs, CniUp(a) PROVE Shape'
  <2> DEFINE c == [call[a] EXCEPT !.pc = "proxy"]
  <2>1. c \in Calls /\ c.handle \in Handles
    BY <1>0, <1>8 DEF CniUp, Goto, At, Shape, DataOK, CallsOK, Calls, H
  <2>2. call' = [call EXCEPT ![a] = c]
    BY <1>8 DEF CniUp, Goto, At, Shape, DataOK, CallsOK, Calls
  <2>3. c.op = "up" /\ c.pc = "proxy" /\ c.handle = H(a)
    BY <1>8 DEF CniUp, Goto, At, Shape, DataOK, CallsOK, Calls, H
  <2> HIDE DEF c
  <2>5. GoesOn(a, c)
    BY <2>1, <2>2, <2>3, <1>0, <1>f, <1>8 DEF GoesOn, CniUp, Goto, At, UpOK, DownOK, Writing
  <2>6. DataOK'
    BY <1>0, <1>8 DEF CniUp, Goto, At, Shape, DataOK, CallsOK, Calls
  <2> QED BY <1>f, <2>5, <2>6, GoOnLemma DEF Shape
<1>9. ASSUME NEW a \in Procs, UpReturns(a) PROVE Shape'
  BY <1>f, <1>0, <1>9, FinishLemma DEF Shape, DataOK, UpReturns, At
<1>10. ASSUME NEW a \in Procs, CniDown(a) PROVE Shape'
  <2> DEFINE c == [call[a] EXCEPT !.pc = "unmount"]
  <2>1. c \in Calls /\ c.handle \in Handles
    BY <1>0, <1>10 DEF CniDown, Goto, At, Shape, DataOK, CallsOK, Calls, H
  <2>2. call' = [call EXCEPT ![a] = c]
    BY <1>10 DEF CniDown, Goto, At, Shape, DataOK, CallsOK, Calls
  <2>3. c.op = "down" /\ c.pc = "unmount" /\ c.handle = H(a)
    BY <1>10 DEF CniDown, Goto, At, Shape, DataOK, CallsOK, Calls, H
  <2> HIDE DEF c
  <2>5. GoesOn(a, c)
    BY <2>1, <2>2, <2>3, <1>0, <1>f, <1>10 DEF GoesOn, CniDown, Goto, At, UpOK, DownOK, Writing
  <2>6. DataOK'
    BY <1>0, <1>10 DEF CniDown, Goto, At, Shape, DataOK, CallsOK, Calls
  <2> QED BY <1>f, <2>5, <2>6, GoOnLemma DEF Shape
<1>11. ASSUME NEW a \in Procs, RemoveMount(a) PROVE Shape'
  <2> DEFINE c == [call[a] EXCEPT !.pc = "release"]
  <2>1. c \in Calls /\ c.handle \in Handles
    BY <1>0, <1>11 DEF RemoveMount, Goto, At, Shape, DataOK, CallsOK, Calls, H
  <2>2. call' = [call EXCEPT ![a] = c]
    BY <1>11 DEF RemoveMount, Goto, At, Shape, DataOK, CallsOK, Calls
  <2>3. c.op = "down" /\ c.pc = "release" /\ c.handle = H(a)
    BY <1>11 DEF RemoveMount, Goto, At, Shape, DataOK, CallsOK, Calls, H
  <2> HIDE DEF c
  <2>5. GoesOn(a, c)
    BY <2>1, <2>2, <2>3, <1>0, <1>f, <1>11 DEF GoesOn, RemoveMount, Goto, At, UpOK, DownOK, Writing
  <2>6. DataOK'
    BY <1>0, <1>11 DEF RemoveMount, Goto, At, Shape, DataOK, CallsOK, Calls
  <2> QED BY <1>f, <2>5, <2>6, GoOnLemma DEF Shape
<1>12. ASSUME NEW a \in Procs, ReleaseOpen(a) PROVE Shape'
  <2>0. ReleaseAll(UnmarshalJSON(file), H(a)) \in Pools
    BY <1>0, <1>12, UnmarshalLemma, PoolLemma DEF ReleaseOpen, At, Shape, DataOK, CallsOK
  <2> DEFINE c == [call[a] EXCEPT !.pc = "truncate",
                              !.pool = ReleaseAll(UnmarshalJSON(file), H(a))]
  <2>1. c \in Calls /\ c.handle \in Handles
    BY <1>0, <1>12, <2>0 DEF ReleaseOpen, Open, At, Shape, DataOK, CallsOK, Calls, H
  <2>2. call' = [call EXCEPT ![a] = c]
    BY <1>12 DEF ReleaseOpen, Open, At, Shape, DataOK, CallsOK, Calls
  <2>3. c.op = "down" /\ c.pc = "truncate" /\ c.handle = H(a)
    BY <1>12 DEF ReleaseOpen, Open, At, Shape, DataOK, CallsOK, Calls, H
  <2> HIDE DEF c
  <2>5. GoesOn(a, c)
    BY <2>1, <2>2, <2>3, <1>0, <1>f, <1>12 DEF GoesOn, ReleaseOpen, Open, At, UpOK, DownOK, Writing
  <2>6. DataOK'
    BY <1>0, <1>12 DEF ReleaseOpen, Open, At, Shape, DataOK, CallsOK, Calls
  <2> QED BY <1>f, <2>5, <2>6, GoOnLemma DEF Shape
<1>13. ASSUME NEW a \in Procs, ReleaseEncode(a) PROVE Shape'
  <2>1. call[a].pool \in Pools
    BY DEF Shape, CallsOK, Calls
  <2>2. CallsOK'
    BY <1>f, <1>0, <1>13, FinishLemma DEF ReleaseEncode, At
  <2>3. DataOK'
    BY <1>13, <2>1, MarshalLemma DEF ReleaseEncode, Shape, DataOK
  <2> QED BY <2>2, <2>3 DEF Shape
<1>14. ASSUME NEW a \in Procs, ReleaseError(a) PROVE Shape'
  BY <1>f, <1>0, <1>14, FinishLemma DEF Shape, DataOK, ReleaseError, At
<1>15. ASSUME NEW a \in Procs, Abort(a) PROVE Shape'
  <2>1. call[a] # Idle /\ H(a) \in Handles
    BY <1>15 DEF Abort, Shape, CallsOK, UpOK, DownOK
  <2>2. container[H(a)] \in {"none", "up", "failed"}
    BY <1>f, <2>1
  <2>3. CallsOK'
    BY <1>f, <1>15, <2>1, <2>2, FinishLemma DEF Abort
  <2>4. DataOK'
    BY <1>15 DEF Abort, Fault, Shape, DataOK
  <2> QED BY <2>3, <2>4 DEF Shape
<1>16. ASSUME NEW a \in Procs, AbortTorn(a) PROVE Shape'
  BY <1>f, <1>0, <1>16, FinishLemma DEF Shape, DataOK, AbortTorn, Torn, Fault
<1>17. ASSUME NEW a \in Procs, ReleaseTorn(a) PROVE Shape'
  BY <1>f, <1>0, <1>17, FinishLemma DEF Shape, DataOK, ReleaseTorn, Torn, Fault
<1>18. ASSUME NEW a \in Procs, CniUpFails(a) PROVE Shape'
  <2>1. call[a].mapped \in SUBSET Mappings
    BY DEF Shape, CallsOK, Calls
  <2>2. CallsOK'
    BY <1>f, <1>0, <1>18, FinishLemma DEF CniUpFails, At
  <2>3. DataOK'
    <3>1. nets' \in [Handles -> SUBSET Mappings]
      BY <1>18, <2>1 DEF CniUpFails, Shape, DataOK
    <3> QED BY <1>18, <3>1 DEF CniUpFails, Fault, Shape, DataOK
  <2> QED BY <2>2, <2>3 DEF Shape
<1>19. ASSUME NEW a \in Procs, CniDownFails(a) PROVE Shape'
  BY <1>f, <1>0, <1>19, FinishLemma DEF Shape, DataOK, CniDownFails, At, Fault
<1>20. ASSUME NEW a \in Procs, RemoveMountFails(a) PROVE Shape'
  <2> DEFINE c == [call[a] EXCEPT !.pc = "release"]
  <2>1. c \in Calls /\ c.handle \in Handles
    BY <1>0, <1>20 DEF RemoveMountFails, Goto, At, Fault, Shape, DataOK, CallsOK, Calls, H
  <2>2. call' = [call EXCEPT ![a] = c]
    BY <1>20 DEF RemoveMountFails, Goto, At, Fault, Shape, DataOK, CallsOK, Calls
  <2>3. c.op = "down" /\ c.pc = "release" /\ c.handle = H(a)
    BY <1>20 DEF RemoveMountFails, Goto, At, Fault, Shape, DataOK, CallsOK, Calls, H
  <2> HIDE DEF c
  <2>5. GoesOn(a, c)
    BY <2>1, <2>2, <2>3, <1>0, <1>f, <1>20 DEF GoesOn, RemoveMountFails, Goto, At, Fault, UpOK, DownOK, Writing
  <2>6. DataOK'
    BY <1>0, <1>20 DEF RemoveMountFails, Goto, At, Fault, Shape, DataOK, CallsOK, Calls
  <2> QED BY <1>f, <2>5, <2>6, GoOnLemma DEF Shape
<1>21. ASSUME NEW a \in Procs, ReleaseFails(a) PROVE Shape'
  BY <1>f, <1>0, <1>21, FinishLemma DEF Shape, DataOK, ReleaseFails, At, Fault
<1>22. ASSUME NEW h \in Handles, MountFails(h) PROVE Shape'
  BY <1>22 DEF Shape, DataOK, CallsOK, MountFails, Quiet, Fault, Writing, UpOK, DownOK, Writing, H
<1>23. CASE UNCHANGED gnvars
  BY <1>23 DEF gnvars, Shape, DataOK, CallsOK, Writing, UpOK, DownOK, Writing, H
<1> QED
  BY <1>1, <1>2, <1>3, <1>4, <1>5, <1>6, <1>7, <1>8, <1>9, <1>10, <1>11, <1>12,
     <1>13, <1>14, <1>15, <1>16, <1>17, <1>18, <1>19, <1>20, <1>21, <1>22, <1>23
  DEF Next, Garden, Step, Failure

---------------------------------------------------------------------------
\* What a step that belongs to one call and one container leaves alone.
Local(a, h) ==
  /\ \A b \in Procs : b # a => call'[b] = call[b] /\ H(b) # h
  /\ \A k \in Handles : k # h => /\ container'[k] = container[k]
                                 /\ k \in mounts' <=> k \in mounts
                                 /\ nets'[k] = nets[k]
                                 /\ k \in leaked' <=> k \in leaked
  /\ leaked \subseteq leaked'

\* A step that keeps Clean for its own call and container, and gives no port
\* to another container.
CleanStep(a, h) ==
  /\ Local(a, h) /\ DownDone(a)' /\ Gone(h)'
  /\ \A k \in Handles, p \in PortRange :
       /\ k # h
       /\ p \in file'[k] \/ (Writing(a)' /\ call'[a].pool[p] = k)
       => p \in file[k] \/ (Writing(a) /\ call[a].pool[p] = k)

LEMMA CleanLocal ==
  ASSUME CallsOK, Clean, NEW a \in Procs, NEW h \in Handles, CleanStep(a, h),
         file' \in [Handles -> SUBSET PortRange]
  PROVE  Clean'
<1> USE DEF CleanStep
<1>1. ASSUME NEW b \in Procs, b # a PROVE DownDone(b)'
  <2>1. call'[b] = call[b] /\ H(b) # h
    BY <1>1 DEF Local
  <2>2. call[b].op = "down" => H(b) \in Handles
    BY IdleLemma DEF CallsOK, UpOK, DownOK
  <2>3. DownDone(b)
    BY DEF Clean
  <2> QED BY <2>1, <2>2, <2>3 DEF DownDone, Local, Writing, H
<1>2. ASSUME NEW k \in Handles, k # h PROVE Gone(k)'
  <2>1. Gone(k)
    BY DEF Clean
  <2> SUFFICES ASSUME container'[k] = "none", k \notin leaked'
               PROVE  /\ k \notin mounts' /\ nets'[k] = {} /\ file'[k] = {}
                      /\ \A b \in Procs : Writing(b)' => \A p \in PortRange : call'[b].pool[p] # k
    BY DEF Gone
  <2>2. /\ k \notin mounts /\ nets[k] = {} /\ file[k] = {}
        /\ \A b \in Procs : Writing(b) => \A p \in PortRange : call[b].pool[p] # k
    BY <1>2, <2>1 DEF Gone, Local
  <2>3. k \notin mounts' /\ nets'[k] = {}
    BY <1>2, <2>2 DEF Local
  <2>4. file'[k] = {}
    BY <1>2, <2>2
  <2>5. ASSUME NEW b \in Procs, Writing(b)', NEW p \in PortRange PROVE call'[b].pool[p] # k
    BY <1>2, <2>2, <2>5 DEF Local, Writing
  <2> QED BY <2>3, <2>4, <2>5
<1> QED BY <1>1, <1>2 DEF Clean

\* Every step keeps Clean.
LEMMA CleanNext == Shape /\ Clean /\ [Next]_gnvars => Clean'
<1> SUFFICES ASSUME Shape, Clean, [Next]_gnvars PROVE Clean'
  OBVIOUS
<1> USE IdleLemma
<1>s. Shape' /\ CallsOK /\ call \in [Procs -> Calls]
  BY ShapeNext DEF Shape, CallsOK
<1>d. file' \in [Handles -> SUBSET PortRange]
  BY <1>s DEF Shape, DataOK
<1>0. ASSUME NEW a \in Procs, call[a].op # "idle" \/ call[a].pc # "idle" \/ call[a] # Idle
      PROVE  /\ call[a] # Idle /\ (UpOK(a) \/ DownOK(a)) /\ H(a) \in Handles
             /\ \A b \in Procs : b # a => H(b) # H(a)
  BY <1>0 DEF Shape, DataOK, CallsOK, UpOK, DownOK, Writing
<1>w. \A a, b \in Procs : Writing(a) /\ Writing(b) => a = b
  BY DEF Shape, CallsOK
<1>p. \A a \in Procs : Writing(a) => lock # NONE
  BY DEF Shape, CallsOK
<1>1. ASSUME NEW a \in Procs, NEW h \in Handles, NEW netIn \in NetIns, Up(a, h, netIn)
      PROVE  Clean'
  <2>1. Local(a, h) /\ call'[a].op = "up" /\ call'[a].pc = "ports" /\ container'[h] = "failed"
    BY <1>s, <1>1 DEF Up, Local, Quiet, Shape, CallsOK, Calls
  <2>2. DownDone(a)' /\ Gone(h)' /\ ~Writing(a)' /\ file' = file
    BY <1>1, <2>1 DEF DownDone, Gone, Writing, Up
  <2>q. CleanStep(a, h)
    BY <2>1, <2>2 DEF CleanStep
  <2> QED BY <1>s, <1>d, <2>q, CleanLocal
<1>2. ASSUME NEW a \in Procs, NEW h \in Handles, Down(a, h)
      PROVE  Clean'
  <2>1. /\ Local(a, h) /\ call'[a].op = "down" /\ call'[a].pc = "cni"
        /\ call'[a].mapped = {} /\ container'[h] # "none"
    BY <1>s, <1>2 DEF Down, Local, Quiet, Shape, CallsOK, Calls
  <2>2. DownDone(a)' /\ Gone(h)' /\ ~Writing(a)' /\ file' = file
    BY <1>2, <2>1 DEF DownDone, Gone, Writing, Down
  <2>q. CleanStep(a, h)
    BY <2>1, <2>2 DEF CleanStep
  <2> QED BY <1>s, <1>d, <2>q, CleanLocal
<1>3. ASSUME NEW a \in Procs, SpecifiedPort(a) PROVE Clean'
  <2>0. call[a] # Idle /\ UpOK(a) /\ H(a) \in Handles /\ \A b \in Procs : b # a => H(b) # H(a)
    BY <1>0, <1>3 DEF SpecifiedPort, Mapped, At, DownOK
  <2> PICK h \in Handles : h = H(a)
    BY <2>0
  <2>1. Local(a, h) /\ call'[a].op = "up" /\ call'[a].pc = "ports" /\ container'[h] = "failed"
    BY <1>s, <1>3, <2>0 DEF SpecifiedPort, Mapped, At, Local, UpOK, Shape, DataOK, Calls
  <2>2. DownDone(a)' /\ ~Writing(a)' /\ file' = file
    BY <1>3, <2>1 DEF DownDone, Writing, SpecifiedPort
  <2>q. CleanStep(a, h)
    BY <2>1, <2>2 DEF CleanStep, Gone
  <2> QED BY <1>s, <1>d, <2>q, CleanLocal
<1>4. ASSUME NEW a \in Procs, AllocateOpen(a) PROVE Clean'
  <2>0. call[a] # Idle /\ UpOK(a) /\ H(a) \in Handles /\ \A b \in Procs : b # a => H(b) # H(a)
    BY <1>0, <1>4 DEF AllocateOpen, WantsPort, At, DownOK
  <2> PICK h \in Handles : h = H(a)
    BY <2>0
  <2> DEFINE old == UnmarshalJSON(file)
  <2>1. PICK port \in FreePort(old) :
          call' = [call EXCEPT ![a].pc = "truncate", ![a].port = port,
                               ![a].pool = AcquireOne(old, port, h)]
    BY <1>4 DEF AllocateOpen
  <2>3. \A k \in Handles, p \in PortRange :
          k # h /\ AcquireOne(old, port, h)[p] = k => p \in file[k]
    <3>1. /\ old \in Pools
          /\ \A k \in Handles, p \in PortRange : old[p] = k => p \in file[k]
      BY UnmarshalLemma DEF Shape, DataOK
    <3> HIDE DEF old
    <3>2. /\ AcquireOne(old, port, h)[port] = h
          /\ \A q \in PortRange : q # port => AcquireOne(old, port, h)[q] = old[q]
      BY <3>1, PoolLemma
    <3> QED BY <3>1, <3>2
  <2> HIDE DEF old
  <2>4. /\ Local(a, h) /\ call'[a].op = "up" /\ container'[h] = "failed"
        /\ call'[a].pool = AcquireOne(old, port, h)
    BY <1>s, <1>4, <2>0, <2>1 DEF AllocateOpen, WantsPort, At, Local, UpOK, Shape, DataOK, Calls
  <2>5. DownDone(a)' /\ file' = file
    BY <1>4, <2>4 DEF DownDone, AllocateOpen
  <2>q. CleanStep(a, h)
    BY <2>3, <2>4, <2>5 DEF CleanStep, Gone
  <2> QED BY <1>s, <1>d, <2>q, CleanLocal
<1>5. ASSUME NEW a \in Procs, AllocateError(a) PROVE Clean'
  <2>0. call[a] # Idle /\ (UpOK(a) \/ DownOK(a)) /\ H(a) \in Handles /\ \A b \in Procs : b # a => H(b) # H(a)
    BY <1>0, <1>5 DEF AllocateError, WantsPort, At
  <2> PICK h \in Handles : h = H(a)
    BY <2>0
  <2>1. Local(a, h) /\ call'[a] = Idle /\ container'[h] # "none"
    BY <1>s, <1>5, <2>0 DEF AllocateError, WantsPort, At, Finish, Local, UpOK, DownOK, Shape, DataOK, CallsOK
  <2>2. DownDone(a)' /\ ~Writing(a)' /\ file' = file
    BY <1>5, <2>1 DEF DownDone, Writing, AllocateError
  <2>q. CleanStep(a, h)
    BY <2>1, <2>2 DEF CleanStep, Gone
  <2> QED BY <1>s, <1>d, <2>q, CleanLocal
<1>6. ASSUME NEW a \in Procs, Truncate(a) PROVE Clean'
  <2>0. call[a] # Idle /\ (UpOK(a) \/ DownOK(a)) /\ H(a) \in Handles /\ \A b \in Procs : b # a => H(b) # H(a)
    BY <1>0, <1>6 DEF Truncate
  <2> PICK h \in Handles : h = H(a)
    BY <2>0
  <2>1. /\ Local(a, h) /\ call'[a] = [call[a] EXCEPT !.pc = "encode"]
        /\ container'[h] # "none" /\ Writing(a)
    BY <1>s, <1>6, <2>0 DEF Truncate, Goto, Local, UpOK, DownOK, Shape, DataOK, Writing
  <2>2. /\ call'[a].op = call[a].op /\ call'[a].pool = call[a].pool
        /\ call'[a].mapped = call[a].mapped /\ H(a)' = H(a)
    BY <1>s, <2>1 DEF Calls, H
  <2>3. \A k \in Handles : file'[k] = {}
    BY <1>6 DEF Truncate, EmptyFile
  <2>4. nets' = nets /\ mounts' = mounts /\ leaked' = leaked /\ call[a].pc = "truncate" /\ DownDone(a)
    BY <1>6 DEF Truncate, Clean
  <2>5. DownDone(a)'
    BY <2>1, <2>2, <2>4 DEF DownDone
  <2>7. Gone(h)'
    BY <2>1 DEF Gone
  <2>q. CleanStep(a, h)
    BY <2>1, <2>2, <2>3, <2>5, <2>7 DEF CleanStep
  <2> QED BY <1>s, <1>d, <2>q, CleanLocal
<1>7. ASSUME NEW a \in Procs, AllocateEncode(a) PROVE Clean'
  <2>0. call[a] # Idle /\ UpOK(a) /\ H(a) \in Handles /\ \A b \in Procs : b # a => H(b) # H(a)
    BY <1>0, <1>7 DEF AllocateEncode, At, DownOK
  <2> PICK h \in Handles : h = H(a)
    BY <2>0
  <2>1. Local(a, h) /\ call'[a].op = "up" /\ call'[a].pc = "ports" /\ container'[h] = "failed"
    BY <1>s, <1>7, <2>0 DEF AllocateEncode, Mapped, At, Local, UpOK, Shape, DataOK, Calls
  <2>2. DownDone(a)' /\ ~Writing(a)' /\ Writing(a)
    BY <1>7, <2>1 DEF DownDone, Writing, AllocateEncode, At
  <2>3. \A k \in Handles, p \in PortRange : p \in file'[k] => call[a].pool[p] = k
    BY <1>7 DEF AllocateEncode, MarshalJSON
  <2>q. CleanStep(a, h)
    BY <2>1, <2>2, <2>3 DEF CleanStep, Gone
  <2> QED BY <1>s, <1>d, <2>q, CleanLocal
<1>8. ASSUME NEW a \in Procs, CniUp(a) PROVE Clean'
  <2>0. call[a] # Idle /\ UpOK(a) /\ H(a) \in Handles /\ \A b \in Procs : b # a => H(b) # H(a)
    BY <1>0, <1>8 DEF CniUp, Goto, At, DownOK
  <2> PICK h \in Handles : h = H(a)
    BY <2>0
  <2>1. Local(a, h) /\ call'[a].op = "up" /\ call'[a].pc = "proxy" /\ container'[h] = "failed"
    BY <1>s, <1>8, <2>0 DEF CniUp, Goto, At, Local, UpOK, Shape, DataOK, Calls
  <2>2. DownDone(a)' /\ ~Writing(a)' /\ file' = file
    BY <1>8, <2>1 DEF DownDone, Writing, CniUp
  <2>q. CleanStep(a, h)
    BY <2>1, <2>2 DEF CleanStep, Gone
  <2> QED BY <1>s, <1>d, <2>q, CleanLocal
<1>9. ASSUME NEW a \in Procs, UpReturns(a) PROVE Clean'
  <2>0. call[a] # Idle /\ (UpOK(a) \/ DownOK(a)) /\ H(a) \in Handles /\ \A b \in Procs : b # a => H(b) # H(a)
    BY <1>0, <1>9 DEF UpReturns, At
  <2> PICK h \in Handles : h = H(a)
    BY <2>0
  <2>1. Local(a, h) /\ call'[a] = Idle /\ container'[h] # "none"
    BY <1>s, <1>9, <2>0 DEF UpReturns, At, Finish, Local, UpOK, DownOK, Shape, DataOK, CallsOK
  <2>2. DownDone(a)' /\ ~Writing(a)' /\ file' = file
    BY <1>9, <2>1 DEF DownDone, Writing, UpReturns
  <2>q. CleanStep(a, h)
    BY <2>1, <2>2 DEF CleanStep, Gone
  <2> QED BY <1>s, <1>d, <2>q, CleanLocal
<1>10. ASSUME NEW a \in Procs, CniDown(a) PROVE Clean'
  <2>0. call[a] # Idle /\ DownOK(a) /\ H(a) \in Handles /\ \A b \in Procs : b # a => H(b) # H(a)
    BY <1>0, <1>10 DEF CniDown, At, UpOK
  <2> PICK h \in Handles : h = H(a)
    BY <2>0
  <2>1. /\ Local(a, h) /\ call'[a] = [call[a] EXCEPT !.pc = "unmount"]
        /\ container'[h] # "none"
    BY <1>s, <1>10, <2>0 DEF CniDown, At, Goto, Local, DownOK, Shape, DataOK
  <2>2. /\ call'[a].op = "down" /\ call'[a].pc = "unmount"
        /\ call'[a].mapped = call[a].mapped /\ H(a)' = h
    BY <1>s, <1>10, <2>1 DEF CniDown, At, Calls, H
  <2>3. DownDone(a) /\ call[a].op = "down" /\ nets'[h] = {}
    BY <1>10, <2>0 DEF CniDown, At, Clean, Shape, DataOK, DownOK
  <2>4. h \in Handles /\ file' = file
    BY <1>10, <2>0 DEF CniDown
  <2>5. DownDone(a)' /\ Gone(h)' /\ ~Writing(a)'
    BY <2>1, <2>2, <2>3 DEF DownDone, Gone, Writing
  <2>q. CleanStep(a, h)
    BY <2>1, <2>4, <2>5 DEF CleanStep
  <2> QED BY <1>s, <1>d, <2>q, CleanLocal
<1>11. ASSUME NEW a \in Procs, RemoveMount(a) PROVE Clean'
  <2>0. call[a] # Idle /\ DownOK(a) /\ H(a) \in Handles /\ \A b \in Procs : b # a => H(b) # H(a)
    BY <1>0, <1>11 DEF RemoveMount, At, UpOK
  <2> PICK h \in Handles : h = H(a)
    BY <2>0
  <2>1. /\ Local(a, h) /\ call'[a] = [call[a] EXCEPT !.pc = "release"]
        /\ container'[h] # "none"
    BY <1>s, <1>11, <2>0 DEF RemoveMount, At, Goto, Local, DownOK, Shape, DataOK
  <2>2. /\ call'[a].op = "down" /\ call'[a].pc = "release"
        /\ call'[a].mapped = call[a].mapped /\ H(a)' = h
    BY <1>s, <1>11, <2>1 DEF RemoveMount, At, Calls, H
  <2>3. DownDone(a) /\ call[a].op = "down" /\ call[a].pc # "cni" /\ H(a) = h /\ nets'[h] = nets[h] /\ h \notin mounts'
    BY <1>11, <2>0 DEF RemoveMount, At, Clean, Shape, DataOK, DownOK
  <2>4. h \in Handles /\ file' = file
    BY <1>11, <2>0 DEF RemoveMount
  <2>5. DownDone(a)' /\ Gone(h)' /\ ~Writing(a)'
    BY <2>1, <2>2, <2>3 DEF DownDone, Gone, Writing
  <2>q. CleanStep(a, h)
    BY <2>1, <2>4, <2>5 DEF CleanStep
  <2> QED BY <1>s, <1>d, <2>q, CleanLocal
<1>12. ASSUME NEW a \in Procs, ReleaseOpen(a) PROVE Clean'
  <2>0. call[a] # Idle /\ DownOK(a) /\ H(a) \in Handles /\ \A b \in Procs : b # a => H(b) # H(a)
    BY <1>0, <1>12 DEF ReleaseOpen, At, UpOK
  <2> PICK h \in Handles : h = H(a)
    BY <2>0
  <2> DEFINE new == ReleaseAll(UnmarshalJSON(file), h)
  <2>1. /\ \A p \in PortRange : new[p] # h
        /\ \A k \in Handles, p \in PortRange : new[p] = k => p \in file[k]
    <3> DEFINE old == UnmarshalJSON(file)
    <3>1. /\ old \in Pools
          /\ \A k \in Handles, p \in PortRange : old[p] = k => p \in file[k]
      BY UnmarshalLemma DEF Shape, DataOK
    <3> HIDE DEF old
    <3>2. /\ \A p \in PortRange : ReleaseAll(old, h)[p] # h
          /\ \A p \in PortRange, k \in Handles :
               ReleaseAll(old, h)[p] = k <=> old[p] = k /\ k # h
      BY <3>1, PoolLemma
    <3> QED BY <3>1, <3>2 DEF old
  <2>2. /\ Local(a, h) /\ call'[a] = [call[a] EXCEPT !.pc = "truncate", !.pool = new]
        /\ container'[h] # "none"
    BY <1>s, <1>12, <2>0 DEF ReleaseOpen, At, Local, DownOK, Shape, DataOK
  <2> HIDE DEF new
  <2>3. /\ call'[a].op = "down" /\ call'[a].pc = "truncate" /\ call'[a].pool = new
        /\ call'[a].mapped = call[a].mapped /\ H(a)' = h
    BY <1>s, <1>12, <2>2 DEF ReleaseOpen, At, Calls, H
  <2>4. /\ DownDone(a) /\ H(a) = h /\ call[a].op = "down" /\ call[a].pc = "release"
        /\ nets' = nets /\ mounts' = mounts /\ leaked' = leaked /\ file' = file
        /\ h \in Handles
    BY <1>12, <2>0 DEF ReleaseOpen, At, Clean
  <2>5. DownDone(a)' /\ Gone(h)'
    BY <2>1, <2>2, <2>3, <2>4 DEF DownDone, Gone
  <2>q. CleanStep(a, h)
    BY <2>1, <2>2, <2>3, <2>4, <2>5 DEF CleanStep
  <2> QED BY <1>s, <1>d, <2>q, CleanLocal
<1>13. ASSUME NEW a \in Procs, ReleaseEncode(a) PROVE Clean'
  <2>0. call[a] # Idle /\ DownOK(a) /\ H(a) \in Handles /\ \A b \in Procs : b # a => H(b) # H(a)
    BY <1>0, <1>13 DEF ReleaseEncode, At, UpOK
  <2> PICK h \in Handles : h = H(a)
    BY <2>0
  <2>1. Local(a, h) /\ call'[a] = Idle
    BY <1>s, <1>13, <2>0 DEF ReleaseEncode, At, Finish, Local, DownOK, Shape, DataOK, CallsOK
  <2>2. DownDone(a)' /\ ~Writing(a)' /\ Writing(a)
    BY <1>13, <2>1 DEF DownDone, Writing, ReleaseEncode, At
  <2>3. \A k \in Handles, p \in PortRange : p \in file'[k] => call[a].pool[p] = k
    BY <1>13 DEF ReleaseEncode, MarshalJSON
  <2>4. /\ DownDone(a) /\ H(a) = h /\ call[a].op = "down" /\ call[a].pc = "encode"
        /\ nets' = nets /\ mounts' = mounts /\ leaked' = leaked
        /\ h \in Handles
    BY <1>13, <2>0 DEF ReleaseEncode, At, Clean
  <2>5. file'[h] = {}
    BY <1>d, <2>2, <2>3, <2>4 DEF DownDone
  <2>6. \A b \in Procs : ~Writing(b)'
    BY <1>w, <2>1, <2>2 DEF Local, Writing
  <2>7. Gone(h)'
    BY <2>2, <2>4, <2>5, <2>6 DEF DownDone, Gone
  <2>q. CleanStep(a, h)
    BY <2>1, <2>2, <2>3, <2>4, <2>7 DEF CleanStep
  <2> QED BY <1>s, <1>d, <2>q, CleanLocal
<1>14. ASSUME NEW a \in Procs, ReleaseError(a) PROVE Clean'
  <2>0. call[a] # Idle /\ H(a) \in Handles /\ \A b \in Procs : b # a => H(b) # H(a)
    BY <1>0, <1>14 DEF ReleaseError, At
  <2> PICK h \in Handles : h = H(a)
    BY <2>0
  <2>1. Local(a, h) /\ call'[a] = Idle /\ h \in leaked'
    BY <1>s, <1>14, <2>0 DEF ReleaseError, At, Finish, Local, Shape, DataOK, CallsOK
  <2>2. DownDone(a)' /\ ~Writing(a)' /\ file' = file
    BY <1>14, <2>1 DEF DownDone, Writing, ReleaseError, At
  <2>q. CleanStep(a, h)
    BY <2>1, <2>2 DEF CleanStep, Gone
  <2> QED BY <1>s, <1>d, <2>q, CleanLocal
<1>15. ASSUME NEW a \in Procs, Abort(a) PROVE Clean'
  <2>0. call[a] # Idle /\ (UpOK(a) \/ DownOK(a)) /\ H(a) \in Handles /\ \A b \in Procs : b # a => H(b) # H(a)
    BY <1>0, <1>15 DEF Abort
  <2> PICK h \in Handles : h = H(a)
    BY <2>0
  <2>1. Local(a, h) /\ call'[a] = Idle /\ container'[h] # "none"
    BY <1>s, <1>15, <2>0 DEF Abort, Finish, Local, UpOK, DownOK, Shape, DataOK, CallsOK
  <2>2. DownDone(a)' /\ ~Writing(a)' /\ file' = file
    BY <1>15, <2>1 DEF DownDone, Writing, Abort
  <2>q. CleanStep(a, h)
    BY <2>1, <2>2 DEF CleanStep, Gone
  <2> QED BY <1>s, <1>d, <2>q, CleanLocal
<1>16. ASSUME NEW a \in Procs, AbortTorn(a) PROVE Clean'
  <2>0. call[a] # Idle /\ (UpOK(a) \/ DownOK(a)) /\ H(a) \in Handles /\ \A b \in Procs : b # a => H(b) # H(a)
    BY <1>0, <1>16 DEF AbortTorn, Torn
  <2> PICK h \in Handles : h = H(a)
    BY <2>0
  <2>1. Local(a, h) /\ call'[a] = Idle /\ container'[h] # "none"
    BY <1>s, <1>16, <2>0 DEF AbortTorn, Torn, Finish, Local, UpOK, DownOK, Shape, DataOK, CallsOK
  <2>2. DownDone(a)' /\ ~Writing(a)' /\ file' = file
    BY <1>16, <2>1 DEF DownDone, Writing, AbortTorn, Torn
  <2>q. CleanStep(a, h)
    BY <2>1, <2>2 DEF CleanStep, Gone
  <2> QED BY <1>s, <1>d, <2>q, CleanLocal
<1>17. ASSUME NEW a \in Procs, ReleaseTorn(a) PROVE Clean'
  <2>0. call[a] # Idle /\ H(a) \in Handles /\ \A b \in Procs : b # a => H(b) # H(a)
    BY <1>0, <1>17 DEF ReleaseTorn, Torn
  <2> PICK h \in Handles : h = H(a)
    BY <2>0
  <2>1. Local(a, h) /\ call'[a] = Idle /\ h \in leaked'
    BY <1>s, <1>17, <2>0 DEF ReleaseTorn, Torn, Finish, Local, Shape, DataOK, CallsOK
  <2>2. DownDone(a)' /\ ~Writing(a)' /\ file' = file
    BY <1>17, <2>1 DEF DownDone, Writing, ReleaseTorn, Torn
  <2>q. CleanStep(a, h)
    BY <2>1, <2>2 DEF CleanStep, Gone
  <2> QED BY <1>s, <1>d, <2>q, CleanLocal
<1>18. ASSUME NEW a \in Procs, CniUpFails(a) PROVE Clean'
  <2>0. call[a] # Idle /\ (UpOK(a) \/ DownOK(a)) /\ H(a) \in Handles /\ \A b \in Procs : b # a => H(b) # H(a)
    BY <1>0, <1>18 DEF CniUpFails, At
  <2> PICK h \in Handles : h = H(a)
    BY <2>0
  <2>1. Local(a, h) /\ call'[a] = Idle /\ container'[h] # "none"
    BY <1>s, <1>18, <2>0 DEF CniUpFails, At, Finish, Local, UpOK, DownOK, Shape, DataOK, CallsOK
  <2>2. DownDone(a)' /\ ~Writing(a)' /\ file' = file
    BY <1>18, <2>1 DEF DownDone, Writing, CniUpFails
  <2>q. CleanStep(a, h)
    BY <2>1, <2>2 DEF CleanStep, Gone
  <2> QED BY <1>s, <1>d, <2>q, CleanLocal
<1>19. ASSUME NEW a \in Procs, CniDownFails(a) PROVE Clean'
  <2>0. call[a] # Idle /\ (UpOK(a) \/ DownOK(a)) /\ H(a) \in Handles /\ \A b \in Procs : b # a => H(b) # H(a)
    BY <1>0, <1>19 DEF CniDownFails, At
  <2> PICK h \in Handles : h = H(a)
    BY <2>0
  <2>1. Local(a, h) /\ call'[a] = Idle /\ container'[h] # "none"
    BY <1>s, <1>19, <2>0 DEF CniDownFails, At, Finish, Local, UpOK, DownOK, Shape, DataOK, CallsOK
  <2>2. DownDone(a)' /\ ~Writing(a)' /\ file' = file
    BY <1>19, <2>1 DEF DownDone, Writing, CniDownFails
  <2>q. CleanStep(a, h)
    BY <2>1, <2>2 DEF CleanStep, Gone
  <2> QED BY <1>s, <1>d, <2>q, CleanLocal
<1>20. ASSUME NEW a \in Procs, RemoveMountFails(a) PROVE Clean'
  <2>0. call[a] # Idle /\ DownOK(a) /\ H(a) \in Handles /\ \A b \in Procs : b # a => H(b) # H(a)
    BY <1>0, <1>20 DEF RemoveMountFails, At, UpOK
  <2> PICK h \in Handles : h = H(a)
    BY <2>0
  <2>1. /\ Local(a, h) /\ call'[a] = [call[a] EXCEPT !.pc = "release"]
        /\ container'[h] # "none"
    BY <1>s, <1>20, <2>0 DEF RemoveMountFails, At, Goto, Local, DownOK, Shape, DataOK
  <2>2. /\ call'[a].op = "down" /\ call'[a].pc = "release"
        /\ call'[a].mapped = call[a].mapped /\ H(a)' = h
    BY <1>s, <1>20, <2>1 DEF RemoveMountFails, At, Calls, H
  <2>3. DownDone(a) /\ call[a].op = "down" /\ call[a].pc # "cni" /\ H(a) = h /\ nets'[h] = nets[h] /\ h \in leaked'
    BY <1>20, <2>0 DEF RemoveMountFails, At, Clean, Shape, DataOK, DownOK
  <2>4. h \in Handles /\ file' = file
    BY <1>20, <2>0 DEF RemoveMountFails
  <2>5. DownDone(a)' /\ Gone(h)' /\ ~Writing(a)'
    BY <2>1, <2>2, <2>3 DEF DownDone, Gone, Writing
  <2>q. CleanStep(a, h)
    BY <2>1, <2>4, <2>5 DEF CleanStep
  <2> QED BY <1>s, <1>d, <2>q, CleanLocal
<1>21. ASSUME NEW a \in Procs, ReleaseFails(a) PROVE Clean'
  <2>0. call[a] # Idle /\ H(a) \in Handles /\ \A b \in Procs : b # a => H(b) # H(a)
    BY <1>0, <1>21 DEF ReleaseFails, At
  <2> PICK h \in Handles : h = H(a)
    BY <2>0
  <2>1. Local(a, h) /\ call'[a] = Idle /\ h \in leaked'
    BY <1>s, <1>21, <2>0 DEF ReleaseFails, At, Finish, Local, Shape, DataOK, CallsOK
  <2>2. DownDone(a)' /\ ~Writing(a)' /\ file' = file
    BY <1>21, <2>1 DEF DownDone, Writing, ReleaseFails, At
  <2>q. CleanStep(a, h)
    BY <2>1, <2>2 DEF CleanStep, Gone
  <2> QED BY <1>s, <1>d, <2>q, CleanLocal
<1>22. ASSUME NEW h \in Handles, MountFails(h) PROVE Clean'
  BY <1>22 DEF MountFails, Clean, DownDone, Gone, Writing, H, Shape, CallsOK
<1>23. CASE UNCHANGED gnvars
  BY <1>23 DEF gnvars, Clean, DownDone, Gone, Writing, H
<1> QED
  BY <1>1, <1>2, <1>3, <1>4, <1>5, <1>6, <1>7, <1>8, <1>9, <1>10, <1>11, <1>12,
     <1>13, <1>14, <1>15, <1>16, <1>17, <1>18, <1>19, <1>20, <1>21, <1>22, <1>23
  DEF Next, Garden, Step, Failure

---------------------------------------------------------------------------
\* Nothing but a whole pool is ever written.
LEMMA DisjointNext == Shape /\ Disjoint /\ [Next]_gnvars => Disjoint'
<1> SUFFICES ASSUME Shape, Disjoint, [Next]_gnvars PROVE Disjoint'
  OBVIOUS
<1>1. ASSUME file' = file PROVE Disjoint'
  BY <1>1 DEF Disjoint
<1>2. ASSUME file' = EmptyFile PROVE Disjoint'
  BY <1>2 DEF Disjoint, EmptyFile
<1>3. ASSUME NEW a \in Procs, file' = MarshalJSON(call[a].pool) PROVE Disjoint'
  <2>1. call[a].pool \in Pools
    BY DEF Shape, CallsOK, Calls
  <2> QED BY <1>3, <2>1, MarshalLemma DEF Disjoint
<1>4. \/ file' = file \/ file' = EmptyFile
      \/ \E a \in Procs : file' = MarshalJSON(call[a].pool)
  BY DEF Next, Garden, Step, Failure, gnvars, Up, SpecifiedPort, AllocateOpen,
         AllocateError, Truncate, AllocateEncode, CniUp, UpReturns, Down, CniDown,
         RemoveMount, ReleaseOpen, ReleaseEncode, ReleaseError, Abort, Torn,
         AbortTorn, ReleaseTorn, MountFails, CniUpFails, CniDownFails,
         RemoveMountFails, ReleaseFails
<1> QED BY <1>1, <1>2, <1>3, <1>4

\* A step that takes no port of the allocator into use and leaves the file alone.
KeepsPorts(a) ==
  /\ file' = file
  /\ \A b \in Procs : b # a => call'[b] = call[b]
  /\ call[a].pc # "encode" /\ ~Writing(a)'
  /\ \A p \in Nat : Own(p) \in call'[a].mapped => Own(p) \in call[a].mapped /\ H(a)' = H(a)
  /\ \A h \in Handles, p \in Nat :
       Own(p) \in nets'[h] => Own(p) \in nets[h] \/ (h = H(a) /\ Own(p) \in call[a].mapped)
  /\ \A h \in Handles : lost'[h] = lost[h] \/ \A p \in Nat : ~Uses(h, p)'

LEMMA KeepsPortsLemma ==
  ASSUME Ports, NEW a \in Procs, KeepsPorts(a)
  PROVE  Ports'
<1> USE DEF KeepsPorts
<1>r. PortRange \subseteq Nat
  BY DEF PortRange
<1>1. \A h \in Handles, p \in Nat : Uses(h, p)' => Uses(h, p) /\ lost'[h] = lost[h]
  <2> SUFFICES ASSUME NEW h \in Handles, NEW p \in Nat, Uses(h, p)' PROVE Uses(h, p)
    OBVIOUS
  <2>1. CASE Own(p) \in nets'[h]
    BY <2>1 DEF Uses
  <2>2. CASE \E b \in Procs : H(b)' = h /\ Own(p)' \in call'[b].mapped
    BY <2>2 DEF Uses, H, Own
  <2> QED BY <2>1, <2>2 DEF Uses, Own
<1>2. FromRange /\ KnownToFile /\ \A b \in Procs : KnownToPool(b)
  BY DEF Ports
<1>3. FromRange'
  BY <1>1, <1>2 DEF FromRange, PortRange, InRange
<1>4. KnownToFile'
  <2> SUFFICES ASSUME \A b \in Procs : call'[b].pc # "encode",
                      NEW h \in Handles, NEW p \in PortRange, Uses(h, p)', p \notin lost'[h]
               PROVE  p \in file'[h]
    BY DEF KnownToFile, PortRange, InRange
  <2>1. \A b \in Procs : call[b].pc # "encode"
    OBVIOUS
  <2>2. Uses(h, p) /\ p \notin lost[h]
    BY <1>1, <1>r
  <2> QED BY <1>2, <2>1, <2>2 DEF KnownToFile
<1>5. ASSUME NEW b \in Procs PROVE KnownToPool(b)'
  <2> SUFFICES ASSUME Writing(b)'
               PROVE  /\ \A h \in Handles, p \in PortRange :
                           Uses(h, p)' /\ p \notin lost'[h] => call'[b].pool[p] = h
                      /\ call'[b].op = "up" =>
                           call'[b].port \in PortRange /\ call'[b].pool[call'[b].port] = H(b)'
    BY DEF KnownToPool, PortRange, InRange
  <2>1. b # a /\ call'[b] = call[b] /\ Writing(b) /\ H(b)' = H(b)
    BY DEF Writing, H
  <2>2. KnownToPool(b)
    BY <1>2
  <2> QED BY <1>1, <1>r, <2>1, <2>2 DEF KnownToPool
<1> QED BY <1>3, <1>4, <1>5 DEF Ports

\* Every step keeps Known.
LEMMA KnownNext == Shape /\ Clean /\ Known /\ [Next]_gnvars => Known'
<1> SUFFICES ASSUME Shape, Clean, Known, [Next]_gnvars PROVE Known'
  OBVIOUS
<1> USE IdleLemma
<1>d. Disjoint /\ Disjoint'
  BY DisjointNext DEF Known
<1>s. CallsOK /\ call \in [Procs -> Calls]
  BY DEF Shape, CallsOK
<1>k. Ports
  BY DEF Known
<1>o. ASSUME Ports' PROVE Known'
  BY <1>d, <1>o DEF Known
<1>r. PortRange \subseteq Nat /\ 0 \notin PortRange /\ \A p \in PortRange : InRange(p)
  BY DEF PortRange, InRange
<1>0. ASSUME NEW a \in Procs, call[a].op # "idle" \/ call[a].pc # "idle" \/ call[a] # Idle
      PROVE  /\ call[a] # Idle /\ (UpOK(a) \/ DownOK(a)) /\ H(a) \in Handles
             /\ \A b \in Procs : b # a => H(b) # H(a)
  BY <1>0 DEF Shape, CallsOK, UpOK, DownOK, Writing
<1>w. \A a, b \in Procs : Writing(a) /\ Writing(b) => a = b
  BY DEF Shape, CallsOK
<1>l. lock = NONE => \A a \in Procs : ~Writing(a)
  BY DEF Shape, CallsOK
<1>1. ASSUME NEW a \in Procs, NEW h \in Handles, NEW netIn \in NetIns, Up(a, h, netIn)
      PROVE  Known'
  <2>1. /\ call'[a].netIn = netIn /\ call'[a].mapped = {} /\ call'[a].pc = "ports"
        /\ call[a].pc = "idle" /\ \A b \in Procs : b # a => call'[b] = call[b]
    BY <1>s, <1>1 DEF Up, Calls
  <2>3. KeepsPorts(a)
    BY <1>1, <2>1 DEF KeepsPorts, Up, Writing
  <2> QED BY <1>o, <1>k, <2>3, KeepsPortsLemma
<1>2. ASSUME NEW a \in Procs, NEW h \in Handles, Down(a, h)
      PROVE  Known'
  <2>1. /\ call'[a].netIn = <<>> /\ call'[a].mapped = {} /\ call'[a].pc = "cni"
        /\ call[a].pc = "idle" /\ \A b \in Procs : b # a => call'[b] = call[b]
    BY <1>s, <1>2 DEF Down, Calls
  <2>3. KeepsPorts(a)
    BY <1>2, <2>1 DEF KeepsPorts, Down, Writing
  <2> QED BY <1>o, <1>k, <2>3, KeepsPortsLemma
<1>3. ASSUME NEW a \in Procs, SpecifiedPort(a) PROVE Known'
  <2>1. /\ call'[a].pc = "ports" /\ call[a].pc = "ports" /\ H(a)' = H(a)
        /\ call'[a].mapped = call[a].mapped \cup {Specified(Head(call[a].netIn))}
        /\ \A b \in Procs : b # a => call'[b] = call[b]
    BY <1>s, <1>3 DEF SpecifiedPort, Mapped, At, Calls, H
  <2>2. \A p \in Nat : Own(p) # Specified(Head(call[a].netIn))
    BY DEF Own, Specified
  <2>3. KeepsPorts(a)
    BY <1>3, <2>1, <2>2 DEF KeepsPorts, SpecifiedPort, Writing
  <2> QED BY <1>o, <1>k, <2>3, KeepsPortsLemma
<1>4. ASSUME NEW a \in Procs, AllocateOpen(a) PROVE Known'
  <2>0. H(a) \in Handles
    BY <1>0, <1>4 DEF AllocateOpen, WantsPort, At
  <2> PICK h \in Handles : h = H(a)
    BY <2>0
  <2> DEFINE old == UnmarshalJSON(file)
  <2>1. PICK port \in FreePort(old) :
          call' = [call EXCEPT ![a].pc = "truncate", ![a].port = port,
                               ![a].pool = AcquireOne(old, port, h)]
    BY <1>4 DEF AllocateOpen
  <2>2. /\ old \in Pools
        /\ \A k \in Handles, p \in PortRange : p \in file[k] => old[p] = k
    BY <1>d, UnmarshalLemma DEF Shape, DataOK, Disjoint
  <2> HIDE DEF old
  <2> DEFINE new == AcquireOne(old, port, h)
  <2>3. /\ port \in PortRange /\ old[port] = NONE /\ new[port] = h
        /\ \A q \in PortRange : q # port => new[q] = old[q]
    BY <2>2, PoolLemma
  <2> HIDE DEF new
  <2>4. /\ call'[a].netIn = call[a].netIn /\ call'[a].pc = "truncate"
        /\ call'[a].mapped = call[a].mapped /\ H(a)' = h
        /\ call'[a].pool = new /\ call'[a].port = port
        /\ \A b \in Procs : b # a => call'[b] = call[b]
    BY <1>s, <2>1 DEF Calls, H, new
  <2>5. \A b \in Procs : ~Writing(b)
    BY <1>l, <1>4 DEF AllocateOpen, Open
  <2>6. nets' = nets /\ file' = file /\ lost' = lost
    BY <1>4 DEF AllocateOpen
  <2>7. ASSUME NEW k \in Handles, NEW p \in Nat, Uses(k, p)' PROVE Uses(k, p)
    BY <2>4, <2>6, <2>7 DEF Uses, H, Own
  <2>8. FromRange'
    BY <1>k, <2>7 DEF Ports, FromRange, PortRange, InRange
  <2>9. \A k \in Handles, p \in PortRange : Uses(k, p)' /\ p \notin lost[k] => p \in file[k]
    BY <1>k, <1>r, <2>5, <2>7 DEF Ports, KnownToFile, Writing
  <2>10. KnownToFile'
    BY <2>6, <2>9 DEF KnownToFile, PortRange, InRange
  <2>11. \A k \in Handles, p \in PortRange : Uses(k, p)' /\ p \notin lost[k] => new[p] = k
    BY <2>2, <2>3, <2>9
  <2>12. KnownToPool(a)'
    BY <2>3, <2>4, <2>6, <2>11 DEF KnownToPool, PortRange, InRange
  <2>13. ASSUME NEW b \in Procs, b # a PROVE KnownToPool(b)'
    BY <2>4, <2>5, <2>13 DEF KnownToPool, Writing
  <2>14. Ports'
    BY <2>8, <2>10, <2>12, <2>13 DEF Ports
  <2> QED BY <1>o, <2>14
<1>5. ASSUME NEW a \in Procs, AllocateError(a) PROVE Known'
  <2>1. /\ call'[a] = Idle /\ call[a].pc # "encode"
        /\ \A b \in Procs : b # a => call'[b] = call[b]
    BY <1>s, <1>5 DEF AllocateError, WantsPort, At, Finish
  <2>2. KeepsPorts(a)
    BY <1>5, <2>1 DEF KeepsPorts, AllocateError, Writing
  <2> QED BY <1>o, <1>k, <2>2, KeepsPortsLemma
<1>6. ASSUME NEW a \in Procs, Truncate(a) PROVE Known'
  <2>1. /\ call'[a].netIn = call[a].netIn /\ call'[a].pc = "encode" /\ H(a)' = H(a)
        /\ call'[a].op = call[a].op /\ call'[a].mapped = call[a].mapped
        /\ call'[a].pool = call[a].pool /\ call'[a].port = call[a].port
        /\ \A b \in Procs : b # a => call'[b] = call[b]
    BY <1>s, <1>6 DEF Truncate, Goto, Calls, H
  <2>2. nets' = nets /\ lost' = lost /\ Writing(a)
    BY <1>6 DEF Truncate, Writing
  <2>3. ASSUME NEW k \in Handles, NEW p \in Nat, Uses(k, p)' PROVE Uses(k, p)
    BY <2>1, <2>2, <2>3 DEF Uses, H, Own
  <2>4. KnownToFile' /\ FromRange'
    BY <1>k, <2>1, <2>3 DEF Ports, KnownToFile, FromRange, PortRange, InRange
  <2>5. ASSUME NEW b \in Procs PROVE KnownToPool(b)'
    <3>1. CASE b = a
      BY <1>k, <1>r, <2>1, <2>2, <2>3, <3>1 DEF Ports, KnownToPool, PortRange, InRange
    <3>2. CASE b # a
      BY <1>w, <2>1, <2>2, <3>2 DEF KnownToPool, Writing
    <3> QED BY <3>1, <3>2
  <2>6. Ports'
    BY <2>4, <2>5 DEF Ports
  <2> QED BY <1>o, <2>6
<1>7. ASSUME NEW a \in Procs, AllocateEncode(a) PROVE Known'
  <2>0. H(a) \in Handles /\ call[a].netIn # <<>>
    BY <1>0, <1>7 DEF AllocateEncode, At, UpOK, DownOK, Writing
  <2> PICK h \in Handles : h = H(a)
    BY <2>0
  <2>1. /\ call'[a].netIn = Tail(call[a].netIn) /\ call'[a].pc = "ports" /\ H(a)' = h
        /\ call'[a].mapped = call[a].mapped \cup {Own(call[a].port)}
        /\ \A b \in Procs : b # a => call'[b] = call[b]
    BY <1>s, <1>7 DEF AllocateEncode, Mapped, Calls, H
  <2>2. /\ nets' = nets /\ lost' = lost /\ Writing(a)
        /\ call[a].op = "up"
    BY <1>7 DEF AllocateEncode, At, Writing
  <2>4. \A b \in Procs : ~Writing(b)'
    BY <1>w, <2>1, <2>2 DEF Writing
  <2>5. \A k \in Handles, p \in PortRange : p \in file'[k] <=> call[a].pool[p] = k
    <3>1. call[a].pool \in Pools
      BY <1>s DEF Calls
    <3> QED BY <1>7, <3>1, MarshalLemma DEF AllocateEncode
  <2>6. ASSUME NEW k \in Handles, NEW p \in Nat, Uses(k, p)'
        PROVE  Uses(k, p) \/ (k = h /\ p = call[a].port)
    <3>1. \A q, r : Own(q) = Own(r) => q = r
      BY DEF Own
    <3> QED BY <2>1, <2>2, <2>6, <3>1 DEF Uses, H
  <2>7. KnownToPool(a) /\ FromRange
    BY <1>k DEF Ports
  <2>8. FromRange'
    BY <2>2, <2>6, <2>7 DEF FromRange, KnownToPool, PortRange, InRange
  <2>9. \A k \in Handles, p \in PortRange : Uses(k, p)' /\ p \notin lost[k] => call[a].pool[p] = k
    BY <1>r, <2>2, <2>6, <2>7 DEF KnownToPool
  <2>10. KnownToFile' /\ \A b \in Procs : KnownToPool(b)'
    BY <2>2, <2>4, <2>5, <2>9 DEF KnownToFile, KnownToPool, PortRange, InRange
  <2> QED BY <1>o, <2>8, <2>10 DEF Ports
<1>8. ASSUME NEW a \in Procs, CniUp(a) PROVE Known'
  <2>1. /\ call'[a].netIn = call[a].netIn /\ call'[a].pc = "proxy"
        /\ call'[a].mapped = call[a].mapped /\ H(a)' = H(a) /\ call[a].pc # "encode"
        /\ \A b \in Procs : b # a => call'[b] = call[b]
    BY <1>s, <1>8 DEF CniUp, At, Goto, Calls, H
  <2>2. \A h \in Handles, p \in Nat :
          Own(p) \in nets'[h] => Own(p) \in nets[h] \/ (h = H(a) /\ Own(p) \in call[a].mapped)
    BY <1>8 DEF CniUp, Shape, DataOK
  <2>3. KeepsPorts(a)
    BY <1>8, <2>1, <2>2 DEF KeepsPorts, CniUp, Writing
  <2> QED BY <1>o, <1>k, <2>3, KeepsPortsLemma
<1>9. ASSUME NEW a \in Procs, UpReturns(a) PROVE Known'
  <2>1. /\ call'[a] = Idle /\ call[a].pc # "encode"
        /\ \A b \in Procs : b # a => call'[b] = call[b]
    BY <1>s, <1>9 DEF UpReturns, At, Finish
  <2>2. KeepsPorts(a)
    BY <1>9, <2>1 DEF KeepsPorts, UpReturns, Writing
  <2> QED BY <1>o, <1>k, <2>2, KeepsPortsLemma
<1>10. ASSUME NEW a \in Procs, CniDown(a) PROVE Known'
  <2>1. /\ call'[a].netIn = call[a].netIn /\ call'[a].pc = "unmount"
        /\ call'[a].mapped = call[a].mapped /\ H(a)' = H(a) /\ call[a].pc # "encode"
        /\ \A b \in Procs : b # a => call'[b] = call[b]
    BY <1>s, <1>10 DEF CniDown, At, Goto, Calls, H
  <2>2. \A h \in Handles, p \in Nat :
          Own(p) \in nets'[h] => Own(p) \in nets[h] \/ (h = H(a) /\ Own(p) \in call[a].mapped)
    BY <1>10 DEF CniDown, Shape, DataOK
  <2>3. ASSUME NEW h \in Handles PROVE lost'[h] = lost[h] \/ \A p \in Nat : ~Uses(h, p)'
    <3>1. h # H(a) => lost'[h] = lost[h]
      BY <1>10 DEF CniDown, Shape, DataOK
    <3>2. call[a].mapped = {} /\ H(a) \in Handles /\ \A b \in Procs : b # a => H(b) # H(a)
      BY <1>0, <1>10 DEF CniDown, At, Clean, DownDone
    <3>3. nets'[H(a)] = {}
      BY <1>10, <3>2 DEF CniDown, Shape, DataOK
    <3>4. \A b \in Procs : H(b)' = H(a) => call'[b].mapped = {}
      BY <2>1, <3>2 DEF H
    <3>5. h = H(a) => \A p \in Nat : ~Uses(h, p)'
      BY <3>3, <3>4 DEF Uses
    <3> QED BY <3>1, <3>5
  <2>4. KeepsPorts(a)
    BY <1>10, <2>1, <2>2, <2>3 DEF KeepsPorts, CniDown, Writing
  <2> QED BY <1>o, <1>k, <2>4, KeepsPortsLemma
<1>11. ASSUME NEW a \in Procs, RemoveMount(a) PROVE Known'
  <2>1. /\ call'[a].netIn = call[a].netIn /\ call'[a].pc = "release"
        /\ call'[a].mapped = call[a].mapped /\ H(a)' = H(a) /\ call[a].pc # "encode"
        /\ \A b \in Procs : b # a => call'[b] = call[b]
    BY <1>s, <1>11 DEF RemoveMount, At, Goto, Calls, H
  <2>2. \A h \in Handles, p \in Nat :
          Own(p) \in nets'[h] => Own(p) \in nets[h] \/ (h = H(a) /\ Own(p) \in call[a].mapped)
    BY <1>11 DEF RemoveMount, Shape, DataOK
  <2>3. KeepsPorts(a)
    BY <1>11, <2>1, <2>2 DEF KeepsPorts, RemoveMount, Writing
  <2> QED BY <1>o, <1>k, <2>3, KeepsPortsLemma
<1>12. ASSUME NEW a \in Procs, ReleaseOpen(a) PROVE Known'
  <2>0. H(a) \in Handles /\ \A b \in Procs : b # a => H(b) # H(a)
    BY <1>0, <1>12 DEF ReleaseOpen, At
  <2> PICK h \in Handles : h = H(a)
    BY <2>0
  <2> DEFINE old == UnmarshalJSON(file)
  <2>2. /\ old \in Pools
        /\ \A k \in Handles, p \in PortRange : p \in file[k] => old[p] = k
    BY <1>d, UnmarshalLemma DEF Shape, DataOK, Disjoint
  <2> DEFINE new == ReleaseAll(old, h)
  <2>4. /\ call'[a].netIn = call[a].netIn /\ call'[a].pc = "truncate"
        /\ call'[a].mapped = call[a].mapped /\ H(a)' = h
        /\ call'[a].pool = new /\ call'[a].op = "down"
        /\ \A b \in Procs : b # a => call'[b] = call[b]
    BY <1>s, <1>12 DEF ReleaseOpen, At, Calls, H
  <2> HIDE DEF old
  <2>3. \A k \in Handles, p \in PortRange : k # h /\ old[p] = k => new[p] = k
    BY <2>2, PoolLemma
  <2> HIDE DEF new
  <2>5. \A b \in Procs : ~Writing(b)
    BY <1>l, <1>12 DEF ReleaseOpen, Open
  <2>6. nets' = nets /\ file' = file /\ lost' = lost
    BY <1>12 DEF ReleaseOpen
  <2>7. ASSUME NEW k \in Handles, NEW p \in Nat, Uses(k, p)' PROVE Uses(k, p) /\ k # h
    <3>1. Uses(k, p)
      BY <2>4, <2>6, <2>7 DEF Uses, H, Own
    <3>2. nets[h] = {} /\ call[a].mapped = {}
      BY <1>12 DEF ReleaseOpen, At, Clean, DownDone
    <3> QED BY <2>0, <3>1, <3>2 DEF Uses
  <2>8. FromRange'
    BY <1>k, <2>7 DEF Ports, FromRange, PortRange, InRange
  <2>9. \A k \in Handles, p \in PortRange : Uses(k, p)' /\ p \notin lost[k] => p \in file[k]
    BY <1>k, <1>r, <2>5, <2>7 DEF Ports, KnownToFile, Writing
  <2>10. KnownToFile'
    BY <2>6, <2>9 DEF KnownToFile, PortRange, InRange
  <2>11. \A k \in Handles, p \in PortRange : Uses(k, p)' /\ p \notin lost[k] => new[p] = k
    BY <1>r, <2>2, <2>3, <2>7, <2>9
  <2>12. KnownToPool(a)'
    BY <2>3, <2>4, <2>6, <2>11 DEF KnownToPool, PortRange, InRange
  <2>13. ASSUME NEW b \in Procs, b # a PROVE KnownToPool(b)'
    BY <2>4, <2>5, <2>13 DEF KnownToPool, Writing
  <2>14. Ports'
    BY <2>8, <2>10, <2>12, <2>13 DEF Ports
  <2> QED BY <1>o, <2>14
<1>13. ASSUME NEW a \in Procs, ReleaseEncode(a) PROVE Known'
  <2>1. call'[a] = Idle /\ \A b \in Procs : b # a => call'[b] = call[b]
    BY <1>s, <1>13 DEF ReleaseEncode, Finish
  <2>2. nets' = nets /\ lost' = lost /\ Writing(a)
    BY <1>13 DEF ReleaseEncode, At, Writing
  <2>4. \A b \in Procs : ~Writing(b)'
    BY <1>w, <2>1, <2>2 DEF Writing
  <2>5. \A k \in Handles, p \in PortRange : p \in file'[k] <=> call[a].pool[p] = k
    <3>1. call[a].pool \in Pools
      BY <1>s DEF Calls
    <3> QED BY <1>13, <3>1, MarshalLemma DEF ReleaseEncode
  <2>6. ASSUME NEW k \in Handles, NEW p \in Nat, Uses(k, p)' PROVE Uses(k, p)
    BY <2>1, <2>2, <2>6 DEF Uses, H, Own
  <2>7. KnownToPool(a) /\ FromRange
    BY <1>k DEF Ports
  <2>8. FromRange'
    BY <2>6, <2>7 DEF FromRange, PortRange, InRange
  <2>9. \A k \in Handles, p \in PortRange : Uses(k, p)' /\ p \notin lost[k] => call[a].pool[p] = k
    BY <1>r, <2>2, <2>6, <2>7 DEF KnownToPool
  <2>10. KnownToFile' /\ \A b \in Procs : KnownToPool(b)'
    BY <2>2, <2>4, <2>5, <2>9 DEF KnownToFile, KnownToPool, PortRange, InRange
  <2> QED BY <1>o, <2>8, <2>10 DEF Ports
<1>14. ASSUME NEW a \in Procs, ReleaseError(a) PROVE Known'
  <2>1. /\ call'[a] = Idle /\ call[a].pc # "encode"
        /\ \A b \in Procs : b # a => call'[b] = call[b]
    BY <1>s, <1>14 DEF ReleaseError, At, Finish
  <2>2. KeepsPorts(a)
    BY <1>14, <2>1 DEF KeepsPorts, ReleaseError, Writing
  <2> QED BY <1>o, <1>k, <2>2, KeepsPortsLemma
<1>15. ASSUME NEW a \in Procs, Abort(a) PROVE Known'
  <2>1. /\ call'[a] = Idle /\ call[a].pc # "encode"
        /\ \A b \in Procs : b # a => call'[b] = call[b]
    BY <1>s, <1>15 DEF Abort, Finish
  <2>2. KeepsPorts(a)
    BY <1>15, <2>1 DEF KeepsPorts, Abort, Writing
  <2> QED BY <1>o, <1>k, <2>2, KeepsPortsLemma
<1>t. ASSUME NEW a \in Procs, Torn(a), call'[a] = Idle, \A b \in Procs : b # a => call'[b] = call[b]
      PROVE  Known'
  <2>1. Writing(a) /\ nets' = nets
    BY <1>t DEF Torn, Writing
  <2>2. \A b \in Procs : ~Writing(b)'
    BY <1>w, <1>t, <2>1 DEF Writing
  <2>3. ASSUME NEW h \in Handles, NEW p \in Nat, Uses(h, p)' PROVE Uses(h, p)
    BY <1>t, <2>1, <2>3 DEF Uses, H, Own
  <2>4. FromRange'
    BY <1>k, <2>3 DEF Ports, FromRange, PortRange, InRange
  <2>5. ASSUME NEW h \in Handles, NEW p \in PortRange, Uses(h, p) PROVE p \in lost'[h]
    BY <1>t, <2>5 DEF Torn
  <2>6. KnownToFile'
    BY <1>r, <2>3, <2>5 DEF KnownToFile, PortRange, InRange
  <2>7. \A b \in Procs : KnownToPool(b)'
    BY <2>2 DEF KnownToPool
  <2> QED BY <1>o, <2>4, <2>6, <2>7 DEF Ports
<1>16. ASSUME NEW a \in Procs, AbortTorn(a) PROVE Known'
  BY <1>s, <1>t, <1>16 DEF AbortTorn, Finish
<1>17. ASSUME NEW a \in Procs, ReleaseTorn(a) PROVE Known'
  BY <1>s, <1>t, <1>17 DEF ReleaseTorn, Finish
<1>18. ASSUME NEW a \in Procs, CniUpFails(a) PROVE Known'
  <2>1. /\ call'[a] = Idle /\ call[a].pc # "encode"
        /\ \A b \in Procs : b # a => call'[b] = call[b]
    BY <1>s, <1>18 DEF CniUpFails, At, Finish
  <2>2. \A h \in Handles, p \in Nat :
          Own(p) \in nets'[h] => Own(p) \in nets[h] \/ (h = H(a) /\ Own(p) \in call[a].mapped)
    BY <1>18 DEF CniUpFails, Shape, DataOK
  <2>3. KeepsPorts(a)
    BY <1>18, <2>1, <2>2 DEF KeepsPorts, CniUpFails, Writing
  <2> QED BY <1>o, <1>k, <2>3, KeepsPortsLemma
<1>19. ASSUME NEW a \in Procs, CniDownFails(a) PROVE Known'
  <2>1. /\ call'[a] = Idle /\ call[a].pc # "encode"
        /\ \A b \in Procs : b # a => call'[b] = call[b]
    BY <1>s, <1>19 DEF CniDownFails, At, Finish
  <2>2. \A h \in Handles, p \in Nat :
          Own(p) \in nets'[h] => Own(p) \in nets[h] \/ (h = H(a) /\ Own(p) \in call[a].mapped)
    BY <1>19 DEF CniDownFails, Shape, DataOK
  <2>3. KeepsPorts(a)
    BY <1>19, <2>1, <2>2 DEF KeepsPorts, CniDownFails, Writing
  <2> QED BY <1>o, <1>k, <2>3, KeepsPortsLemma
<1>20. ASSUME NEW a \in Procs, RemoveMountFails(a) PROVE Known'
  <2>1. /\ call'[a].netIn = call[a].netIn /\ call'[a].pc = "release"
        /\ call'[a].mapped = call[a].mapped /\ H(a)' = H(a) /\ call[a].pc # "encode"
        /\ \A b \in Procs : b # a => call'[b] = call[b]
    BY <1>s, <1>20 DEF RemoveMountFails, At, Goto, Calls, H
  <2>2. \A h \in Handles, p \in Nat :
          Own(p) \in nets'[h] => Own(p) \in nets[h] \/ (h = H(a) /\ Own(p) \in call[a].mapped)
    BY <1>20 DEF RemoveMountFails, Shape, DataOK
  <2>3. KeepsPorts(a)
    BY <1>20, <2>1, <2>2 DEF KeepsPorts, RemoveMountFails, Writing
  <2> QED BY <1>o, <1>k, <2>3, KeepsPortsLemma
<1>21. ASSUME NEW a \in Procs, ReleaseFails(a) PROVE Known'
  <2>1. /\ call'[a] = Idle /\ call[a].pc # "encode"
        /\ \A b \in Procs : b # a => call'[b] = call[b]
    BY <1>s, <1>21 DEF ReleaseFails, At, Finish
  <2>2. KeepsPorts(a)
    BY <1>21, <2>1 DEF KeepsPorts, ReleaseFails, Writing
  <2> QED BY <1>o, <1>k, <2>2, KeepsPortsLemma
<1>22. CASE call' = call /\ nets' = nets /\ file' = file /\ lost' = lost
  <2>1. \A h \in Handles, p \in Nat : Uses(h, p)' <=> Uses(h, p)
    BY <1>22 DEF Uses, H, Own
  <2>2. Ports'
    BY <1>k, <1>22, <1>r, <2>1 DEF Ports, FromRange, KnownToFile, KnownToPool, Writing, H, PortRange, InRange
  <2> QED BY <1>o, <2>2
<1>23. (\E h \in Handles : MountFails(h)) \/ UNCHANGED gnvars =>
         call' = call /\ nets' = nets /\ file' = file /\ lost' = lost
  BY DEF MountFails, gnvars
<1> QED
  BY <1>1, <1>2, <1>3, <1>4, <1>5, <1>6, <1>7, <1>8, <1>9, <1>10, <1>11, <1>12,
     <1>13, <1>14, <1>15, <1>16, <1>17, <1>18, <1>19, <1>20, <1>21, <1>22, <1>23
  DEF Next, Garden, Step, Failure

---------------------------------------------------------------------------
(* The theorems *)

LEMMA InvInit == Init => Inv /\ Known
<1> SUFFICES ASSUME Init PROVE Inv /\ Known
  OBVIOUS
<1> USE IdleLemma
<1>1. Shape
  BY EmptyFileLemma DEF Init, Shape, DataOK, CallsOK, Writing, H
<1>2. Clean
  BY DEF Init, Clean, DownDone, Gone, Writing, EmptyFile
<1>3. Disjoint
  BY DEF Init, Disjoint, EmptyFile
<1>4. Ports
  BY DEF Init, Ports, FromRange, KnownToFile, KnownToPool, Uses, Writing
<1> QED BY <1>1, <1>2, <1>3, <1>4 DEF Inv, Known

LEMMA InvAlways == Spec => []Inv
<1>1. Inv /\ [Next]_gnvars => Inv'
  BY ShapeNext, CleanNext DEF Inv
<1> QED BY <1>1, InvInit, PTL DEF Spec

LEMMA KnownAlways == Spec => []Known
<1>1. Known /\ Inv /\ [Next]_gnvars => Known'
  BY KnownNext DEF Inv
<1> QED BY <1>1, InvInit, InvAlways, PTL DEF Spec

\* Manager.Down: after a down that logged no error nothing is left of the
\* container, for any number of processes that overlap, fail or are killed.
THEOREM NetworkerDownCleansUp == Spec => []DownCleansUp
<1>1. Inv => DownCleansUp
  BY DEF Inv, Clean, Gone, DownCleansUp
<1> QED BY <1>1, InvAlways, PTL

\* What the allocator gave and CNI forwards is a port in use of the range.
LEMMA AllocatedLemma ==
  ASSUME Inv, Known, NEW h \in Handles, NEW p \in Allocated(h)
  PROVE  p \in PortRange /\ Uses(h, p)
<1>1. PICK m \in nets[h] : m.allocated /\ p = m.port
  BY DEF Allocated
<1>2. m \in Mappings
  BY DEF Inv, Shape, DataOK
<1>3. p \in Nat /\ m = Own(p)
  BY <1>1, <1>2 DEF Mappings, Own
<1>4. Uses(h, p)
  BY <1>1, <1>3 DEF Uses
<1> QED BY <1>3, <1>4 DEF Known, Ports, FromRange

\* The port allocator and its state file: the allocator never gives one port to
\* two containers at a time, whichever processes overlap, fail or are killed and
\* whatever host ports callers specify.  Excepted are the ports that were in use
\* when a write of the state file was cut short, until their container goes.
THEOREM NetworkerNoSharedPort == Spec => []NoSharedPort
<1>1. Inv /\ Known => NoSharedPort
  <2> SUFFICES ASSUME Inv, Known, NEW h \in Handles, NEW k \in Handles, h # k,
                      NEW p \in Allocated(h) \cap Allocated(k),
                      p \notin lost[h], p \notin lost[k]
               PROVE  FALSE
    BY DEF NoSharedPort
  <2>1. p \in PortRange /\ Uses(h, p) /\ Uses(k, p)
    BY AllocatedLemma
  <2>2. CASE \A a \in Procs : call[a].pc # "encode"
    BY <2>1, <2>2 DEF Known, Ports, KnownToFile, Disjoint
  <2>3. ASSUME NEW a \in Procs, call[a].pc = "encode" PROVE FALSE
    BY <2>1, <2>3 DEF Known, Ports, KnownToPool, Writing
  <2> QED BY <2>2, <2>3
<1> QED BY <1>1, InvAlways, KnownAlways, PTL

\* The types, and: whenever nobody has the state file locked, each port that the
\* allocator gave and that is forwarded to a container is recorded there as its
\* own, with the same exception.
THEOREM NetworkerPortsAllocated == Spec => []PortsAllocated
<1>1. Inv => TypeOK
  BY DEF Inv, Shape, DataOK, CallsOK, Calls, Writing, TypeOK
<1>2. ASSUME Inv, Known, lock = NONE, NEW h \in Handles, NEW p \in Allocated(h), p \notin lost[h]
      PROVE  p \in file[h]
  <2>1. p \in PortRange /\ Uses(h, p)
    BY <1>2, AllocatedLemma
  <2>2. \A a \in Procs : call[a].pc # "encode"
    BY <1>2 DEF Inv, Shape, CallsOK, Writing
  <2> QED BY <1>2, <2>1, <2>2 DEF Known, Ports, KnownToFile
<1>3. Inv /\ Known => PortsAllocated
  BY <1>1, <1>2 DEF PortsAllocated
<1> QED BY <1>3, InvAlways, KnownAlways, PTL
=============================================================================
