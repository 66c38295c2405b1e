----------------------- MODULE ServiceDiscoveryProofs -----------------------
(***************************************************************************)
(* Proofs about AddressTable and ServiceDiscovery, for any hostnames, ips, *)
(* apps, instances, messages, intervals and lengths of the queues.         *)
(***************************************************************************)
EXTENDS ServiceDiscovery, SequenceTheorems, TLAPS

USE AddressTableAssumption, ServiceDiscoveryAssumption

---------------------------------------------------------------------------
(* The invariant *)

StageNames == {"connect", "assign", "start", "greet", "register", "unregister",
               "warm", "ready", "closed", "shutdown"}

Messages == Endpoints \cup Malformed

BusTypes ==
  /\ stage \in StageNames /\ conn \in BOOLEAN /\ starts \in BOOLEAN
  /\ callbacks \in Seq({"disconnected", "reconnected"})
  /\ registers \in Seq(Messages) /\ unregisters \in Seq(Messages)
  /\ readyFor \in 0..(WarmDuration + 1)

EmitTypes ==
  /\ told \in BOOLEAN /\ live \subseteq Endpoints
  /\ due \in [Endpoints -> 0..Interval] /\ liveFor \in [Endpoints -> 0..(Interval + 1)]

\* A query that the adapter asks the routes server has a name.
DnsTypes ==
  /\ dns \in [tries : 0..4, name : Names \cup {NoName}, code : {"none", "success"},
               ips : SUBSET IPs]
  /\ dns.tries > 0 => dns.name \in Names

\* The handlers that wait end with the one for the state of the connection, and
\* when none waits the table is as the last one has left it.  Before RunOnce
\* connects there is neither a connection nor a handler.
Newest(s) == s[Len(s)]

Follows ==
  /\ stage = "connect" => callbacks = <<>> /\ conn = FALSE /\ paused = FALSE
  /\ callbacks = <<>> /\ stage # "connect" =>
       (conn = TRUE /\ paused = FALSE) \/ (conn = FALSE /\ paused = TRUE)
  /\ callbacks # <<>> =>
       \/ conn = TRUE /\ Newest(callbacks) = "reconnected"
       \/ conn = FALSE /\ Newest(callbacks) = "disconnected"

Inv == TableTypeOK /\ BusTypes /\ EmitTypes /\ DnsTypes /\ Follows

---------------------------------------------------------------------------
(* The stages and the queues *)

LEMMA StagesAre ==
  /\ Len(Stages) = 10 /\ 1..10 = {1, 2, 3, 4, 5, 6, 7, 8, 9, 10}
  /\ Stages[1] = "connect" /\ Stages[2] = "assign" /\ Stages[3] = "start"
  /\ Stages[4] = "greet" /\ Stages[5] = "register" /\ Stages[6] = "unregister"
  /\ Stages[7] = "warm" /\ Stages[8] = "ready" /\ Stages[9] = "closed"
  /\ Stages[10] = "shutdown"
BY DEF Stages

LEMMA RankOf ==
  ASSUME NEW i \in 1..10
  PROVE  Rank(Stages[i]) = i
<1>1. \A j \in 1..10 : Stages[j] = Stages[i] <=> j = i
  BY StagesAre
<1> QED
  BY <1>1, StagesAre DEF Rank

LEMMA Ranks ==
  /\ Rank("connect") = 1 /\ Rank("assign") = 2 /\ Rank("start") = 3 /\ Rank("greet") = 4
  /\ Rank("register") = 5 /\ Rank("unregister") = 6 /\ Rank("warm") = 7 /\ Rank("ready") = 8
  /\ Rank("closed") = 9 /\ Rank("shutdown") = 10
<1>1. \A i \in 1..10 : Rank(Stages[i]) = i
  BY RankOf
<1> QED
  BY <1>1, StagesAre

LEMMA StageFacts ==
  /\ {Stages[i] : i \in 1..Len(Stages)} = StageNames
  /\ Stages[Rank("greet") + 1] = "register"
  /\ Stages[Rank("register") + 1] = "unregister"
  /\ Stages[Rank("unregister") + 1] = "warm"
<1>1. {Stages[i] : i \in 1..Len(Stages)} = StageNames
  BY StagesAre DEF StageNames
<1>2. Stages[Rank("greet") + 1] = "register" /\ Stages[Rank("register") + 1] = "unregister"
  BY StagesAre, Ranks
<1>3. Stages[Rank("unregister") + 1] = "warm"
  BY StagesAre, Ranks
<1> QED
  BY <1>1, <1>2, <1>3

\* The subscriptions that exist, by the stage.
LEMMA PastFacts ==
  ASSUME stage \in StageNames
  PROVE  /\ Past("greet") <=> stage \in {"register", "unregister", "warm", "ready"}
         /\ Past("register") <=> stage \in {"unregister", "warm", "ready"}
         /\ Past("unregister") <=> stage \in {"warm", "ready"}
         /\ Past("warm") <=> stage = "ready"
         /\ Rank(stage) > Rank("connect") <=> stage # "connect"
<1>1. PICK i \in 1..10 : stage = Stages[i]
  BY StagesAre DEF StageNames
<1>2. Rank(stage) = i
  BY <1>1, RankOf
<1> QED
  BY <1>1, <1>2, Ranks, StagesAre DEF Past

LEMMA QueueFacts ==
  ASSUME NEW S, NEW q \in Seq(S), NEW m \in S
  PROVE  /\ Append(q, m) \in Seq(S) /\ Append(q, m) # <<>> /\ Newest(Append(q, m)) = m
         /\ q # <<>> => Head(q) \in S /\ Tail(q) \in Seq(S)
         /\ q # <<>> /\ Tail(q) # <<>> => Newest(Tail(q)) = Newest(q)
         /\ q # <<>> /\ Tail(q) = <<>> => Newest(q) = Head(q)
<1>1. /\ Append(q, m) \in Seq(S) /\ Len(Append(q, m)) = Len(q) + 1
      /\ Append(q, m)[Len(q) + 1] = m
  BY AppendProperties
<1>2. /\ Append(q, m) \in Seq(S) /\ Append(q, m) # <<>> /\ Newest(Append(q, m)) = m
  BY <1>1 DEF Newest
<1>3. ASSUME q # <<>>
      PROVE  /\ Head(q) \in S /\ Tail(q) \in Seq(S)
             /\ Tail(q) # <<>> => Newest(Tail(q)) = Newest(q)
             /\ Tail(q) = <<>> => Newest(q) = Head(q)
  <2>1. /\ Head(q) \in S /\ Head(q) = q[1] /\ Tail(q) \in Seq(S) /\ Len(Tail(q)) = Len(q) - 1
        /\ \A i \in 1..Len(Tail(q)) : Tail(q)[i] = q[i + 1]
    BY <1>3, HeadTailProperties
  <2>2. Len(q) \in Nat /\ Len(q) > 0
    BY <1>3
  <2>3. CASE Tail(q) # <<>>
    <3>1. Len(Tail(q)) \in 1..Len(Tail(q))
      BY <2>1, <2>3
    <3> QED
      BY <2>1, <2>2, <2>3, <3>1 DEF Newest
  <2>4. CASE Tail(q) = <<>>
    <3>1. Len(q) = 1
      BY <2>1, <2>2, <2>4
    <3> QED
      BY <2>1, <2>4, <3>1 DEF Newest
  <2> QED
    BY <2>1, <2>3, <2>4
<1> QED
  BY <1>2, <1>3

---------------------------------------------------------------------------
(* The address table *)

Fresh == /\ keys' = {} /\ addresses' = [h \in Hosts |-> {}]
         /\ paused' = FALSE /\ sinceResume' = ResumeDelay
         /\ warm' = FALSE /\ stopped' = FALSE /\ pc' = "wait" /\ candidates' = {}

\* What a step may do to the table.
TableStep ==
  \/ UNCHANGED tablevars \/ TableTick \/ Prune
  \/ SetWarm \/ PausePruning \/ ResumePruning \/ Shutdown
  \/ \E names \in SUBSET Names, ip \in IPs : Add(names, ip)
  \/ \E names \in SUBSET Names : \E ip : Remove(names, ip)
  \/ Fresh

LEMMA TableCases ==
  ASSUME BusTypes, [Next]_sdvars
  PROVE  TableStep
<1> USE DEF TableStep
<1>1. CASE Tick \/ PruneStep
  BY <1>1 DEF Tick, PruneStep
<1>2. CASE RegisterHandler
  <2>1. PICK m : m = Head(registers)
    OBVIOUS
  <2>2. m \in Messages
    BY <1>2, <2>1, QueueFacts DEF RegisterHandler, BusTypes
  <2>3. m.names \subseteq Names
    BY <2>2 DEF Messages
  <2>4. UNCHANGED tablevars \/ (m.ip \in IPs /\ Add(m.names, m.ip))
    BY <1>2, <2>1 DEF RegisterHandler
  <2> QED
    BY <2>3, <2>4
<1>3. CASE UnregisterHandler
  <2>1. PICK m : m = Head(unregisters)
    OBVIOUS
  <2>2. m \in Messages
    BY <1>3, <2>1, QueueFacts DEF UnregisterHandler, BusTypes
  <2>3. m.names \subseteq Names
    BY <2>2 DEF Messages
  <2>4. UNCHANGED tablevars \/ Remove(m.names, m.ip)
    BY <1>3, <2>1 DEF UnregisterHandler
  <2> QED
    BY <2>3, <2>4
<1>4. CASE Connect \/ Assign \/ SendStart \/ Subscribe \/ Ready \/ Reconnect \/ GreetHandler
  BY <1>4 DEF Connect, Assign, SendStart, Subscribe, Ready, Reconnect, GreetHandler
<1>5. CASE WarmUp \/ DisconnectHandler \/ ReconnectHandler \/ ShutdownTable
  BY <1>5 DEF WarmUp, DisconnectHandler, ReconnectHandler, ShutdownTable
<1>6. CASE Crash \/ Exit \/ ReconnectHandlerPanics
  BY <1>6 DEF Crash, Exit, ReconnectHandlerPanics, Restart, Fresh
<1>7. CASE CloseSubscriber \/ Disconnect
  BY <1>7 DEF CloseSubscriber, Disconnect
<1>8. CASE Emitters
  BY <1>8 DEF Emitters, HearStart, EmitterRestarts, Emit, Start, Stop, PublishMalformed
<1>9. CASE Adapter
  BY <1>9 DEF Adapter, Query, GetIPs, GetRefused, GetFails
<1>10. CASE UNCHANGED sdvars
  BY <1>10 DEF sdvars
<1> QED
  BY <1>1, <1>2, <1>3, <1>4, <1>5, <1>6, <1>7, <1>8, <1>9, <1>10
     DEF Next, Bus, Faults

\* A step that changes the entries, or the pruning goroutine.
LEMMA TableEntriesStep ==
  ASSUME TableTypeOK, addresses' = [h \in Hosts |-> addresses'[h]],
         \A h \in Hosts : addresses'[h] \in SUBSET Entry,
         \A h \in Hosts : addresses'[h] # {} => h \in keys',
         keys' \subseteq Hosts, sinceResume' \in 0..ResumeDelay,
         pc' \in {"wait", "scan", "prune"}, candidates' \subseteq Hosts,
         UNCHANGED <<paused, warm, stopped>>
  PROVE  TableTypeOK'
<1>1. addresses' \in [Hosts -> SUBSET Entry]
  OBVIOUS
<1>2. paused' \in BOOLEAN /\ warm' \in BOOLEAN /\ stopped' \in BOOLEAN
  BY DEF TableTypeOK
<1> QED
  BY <1>1, <1>2 DEF TableTypeOK

LEMMA TableTypeStep ==
  ASSUME TableTypeOK, TableStep
  PROVE  TableTypeOK'
<1>0. /\ keys \subseteq Hosts /\ sinceResume \in 0..ResumeDelay
      /\ \A h \in Hosts : addresses[h] \in SUBSET Entry /\ (addresses[h] # {} => h \in keys)
      /\ pc \in {"wait", "scan", "prune"} /\ candidates \subseteq Hosts
      /\ addresses = [h \in Hosts |-> addresses[h]]
  BY DEF TableTypeOK
<1>1. CASE UNCHANGED tablevars
  BY <1>1 DEF tablevars, TableTypeOK
<1>2. CASE TableTick
  <2>1. \A h \in Hosts : addresses'[h] = {Older(x) : x \in addresses[h]}
    BY <1>2 DEF TableTick
  <2>2. \A x \in Entry : Older(x) \in Entry
    BY DEF Older, Entry, Ages
  <2>3. \A h \in Hosts : addresses'[h] \in SUBSET Entry /\ (addresses'[h] # {} => h \in keys)
    BY <1>0, <2>1, <2>2
  <2>4. sinceResume' \in 0..ResumeDelay
    BY <1>0, <1>2 DEF TableTick
  <2>5. /\ UNCHANGED <<keys, paused, warm, stopped, pc, candidates>>
        /\ addresses' = [h \in Hosts |-> addresses'[h]]
    BY <1>2 DEF TableTick
  <2> QED
    BY <1>0, <2>3, <2>4, <2>5, TableEntriesStep
<1>3. CASE Prune
  <2>1. \A h \in Hosts : addresses'[h] \in SUBSET addresses[h]
    BY <1>3 DEF Prune, PruneCheck, PruneScan, PruneDelete, Pruned
  <2>2. addresses' = [h \in Hosts |-> addresses'[h]]
    BY <1>0, <1>3 DEF Prune, PruneCheck, PruneScan, PruneDelete
  <2>3. /\ pc' \in {"wait", "scan", "prune"} /\ candidates' \subseteq Hosts
        /\ UNCHANGED <<keys, paused, sinceResume, warm, stopped>>
    BY <1>0, <1>3 DEF Prune, PruneCheck, PruneScan, PruneDelete,
                      StaleHosts
  <2>4. \A h \in Hosts : addresses'[h] \in SUBSET Entry /\ (addresses'[h] # {} => h \in keys')
    BY <1>0, <2>1, <2>3
  <2> QED
    BY <1>0, <2>2, <2>3, <2>4, TableEntriesStep
<1>4. CASE SetWarm
  BY <1>4 DEF SetWarm, TableTypeOK
<1>5. CASE PausePruning
  BY <1>5 DEF PausePruning, TableTypeOK
<1>6. CASE ResumePruning
  <2>1. sinceResume' = 0 /\ 0 \in 0..ResumeDelay
    BY <1>6 DEF ResumePruning
  <2>2. paused' \in BOOLEAN
    BY <1>6 DEF ResumePruning
  <2> QED
    BY <1>6, <2>1, <2>2, Zenon DEF ResumePruning, TableTypeOK
<1>7. CASE Shutdown
  BY <1>7 DEF Shutdown, TableTypeOK
<1>8. CASE \E names \in SUBSET Names, ip \in IPs : Add(names, ip)
  <2>1. PICK names \in SUBSET Names, ip \in IPs : Add(names, ip)
    BY <1>8
  <2> DEFINE F == FqdnsOf(names)
  <2>2. F \subseteq Hosts
    BY DEF FqdnsOf
  <2>3. /\ keys' = keys \cup F
        /\ addresses' = [h \in Hosts |-> IF h \in F THEN Registered(addresses[h], ip)
                                         ELSE addresses[h]]
        /\ UNCHANGED <<paused, sinceResume, warm, stopped, pc, candidates>>
    BY <2>1 DEF Add
  <2> HIDE DEF F
  <2>4. \A es \in SUBSET Entry : Registered(es, ip) \in SUBSET Entry
    <3> SUFFICES ASSUME NEW es \in SUBSET Entry, NEW x \in Registered(es, ip)
                 PROVE  x \in Entry
      OBVIOUS
    <3>1. [ip |-> ip, age |-> 0] \in Entry
      BY DEF Entry, Ages
    <3>2. \A y \in es : [y EXCEPT !.age = 0] \in Entry
      BY DEF Entry, Ages
    <3>3. x \in es \/ x = [ip |-> ip, age |-> 0] \/ \E y \in es : x = [y EXCEPT !.age = 0]
      BY DEF Registered
    <3> QED
      BY <3>1, <3>2, <3>3
  <2>5. \A h \in Hosts : addresses'[h] \in SUBSET Entry /\ (addresses'[h] # {} => h \in keys')
    <3> SUFFICES ASSUME NEW h \in Hosts
                 PROVE  addresses'[h] \in SUBSET Entry /\ (addresses'[h] # {} => h \in keys')
      OBVIOUS
    <3>1. CASE h \in F
      BY <1>0, <2>3, <2>4, <3>1
    <3>2. CASE h \notin F
      BY <1>0, <2>3, <3>2
    <3> QED
      BY <3>1, <3>2
  <2> QED
    BY <1>0, <2>2, <2>3, <2>5, TableEntriesStep
<1>9. CASE \E names \in SUBSET Names : \E ip : Remove(names, ip)
  <2>0. PICK names \in SUBSET Names : \E ip : Remove(names, ip)
    BY <1>9
  <2>1. PICK ip : Remove(names, ip)
    BY <2>0
  <2> DEFINE F == FqdnsOf(names)
  <2>2. /\ keys' = keys \ {h \in F : \E x \in addresses[h] : addresses[h] = {x} /\ x.ip = ip}
        /\ addresses' = [h \in Hosts |-> IF h \in F THEN {x \in addresses[h] : x.ip # ip}
                                         ELSE addresses[h]]
        /\ UNCHANGED <<paused, sinceResume, warm, stopped, pc, candidates>>
    BY <2>1 DEF Remove, Without
  <2> HIDE DEF F
  <2>3. ASSUME NEW h \in Hosts
        PROVE  addresses'[h] \in SUBSET Entry /\ (addresses'[h] # {} => h \in keys')
    <3>1. addresses'[h] \in SUBSET addresses[h]
      BY <2>2
    <3>2. ASSUME addresses'[h] # {} PROVE h \in keys'
      <4>1. h \in keys
        BY <1>0, <3>1, <3>2
      <4>2. CASE h \in F
        <5>1. addresses'[h] = {x \in addresses[h] : x.ip # ip}
          BY <2>2, <4>2
        <5>2. ~\E x \in addresses[h] : addresses[h] = {x} /\ x.ip = ip
          BY <3>2, <5>1
        <5> QED
          BY <2>2, <4>1, <5>2
      <4>3. CASE h \notin F
        BY <2>2, <4>1, <4>3
      <4> QED
        BY <4>2, <4>3
    <3> QED
      BY <1>0, <3>1, <3>2
  <2>4. keys' \subseteq Hosts /\ addresses' = [h \in Hosts |-> addresses'[h]]
    BY <1>0, <2>2
  <2> QED
    BY <1>0, <2>2, <2>3, <2>4, TableEntriesStep
<1>10. CASE Fresh
  <2>1. /\ addresses' \in [Hosts -> SUBSET Entry] /\ \A h \in Hosts : addresses'[h] = {}
        /\ sinceResume' \in 0..ResumeDelay
    BY <1>10 DEF Fresh
  <2>2. paused' \in BOOLEAN /\ warm' \in BOOLEAN /\ stopped' \in BOOLEAN
    BY <1>10 DEF Fresh
  <2> QED
    BY <1>10, <2>1, <2>2 DEF Fresh, TableTypeOK
<1> QED
  BY <1>1, <1>2, <1>3, <1>4, <1>5, <1>6, <1>7, <1>8, <1>9, <1>10 DEF TableStep

LEMMA TableTypeNext ==
  ASSUME TableTypeOK, BusTypes, [Next]_sdvars
  PROVE  TableTypeOK'
BY TableCases, TableTypeStep

---------------------------------------------------------------------------
(* The address table by itself *)

\* IpOnce is not inductive without the type of the entries; together with
\* TableTypeOK it is.
TableInv == TableTypeOK /\ IpOnce

\* Registering an ip leaves a list without duplicates.
LEMMA RegisteredOnce ==
  ASSUME NEW es \in SUBSET Entry, NEW ip \in IPs,
         \A e, f \in es : e.ip = f.ip => e = f
  PROVE  \A e, f \in Registered(es, ip) : e.ip = f.ip => e = f
<1>1. CASE \E e \in es : e.ip = ip
  <2> DEFINE R(e) == IF e.ip = ip THEN [e EXCEPT !.age = 0] ELSE e
  <2>1. Registered(es, ip) = {R(e) : e \in es}
    BY <1>1 DEF Registered
  <2>2. \A e \in es : R(e).ip = e.ip
    BY DEF Entry
  <2> HIDE DEF R
  <2> QED
    BY <2>1, <2>2
<1>2. CASE ~\E e \in es : e.ip = ip
  BY <1>2 DEF Registered
<1> QED
  BY <1>1, <1>2

LEMMA IpOnceNext ==
  ASSUME TableTypeOK, IpOnce, [TableNext]_tablevars
  PROVE  IpOnce'
<1>1. \A h \in Hosts : addresses[h] \in SUBSET Entry
  BY DEF TableTypeOK
<1>2. CASE TableTick
  <2>1. \A h \in Hosts : addresses'[h] = {Older(e) : e \in addresses[h]}
    BY <1>2 DEF TableTick
  <2>2. \A e \in Entry : Older(e).ip = e.ip
    BY DEF Older, Entry
  <2> QED
    BY <1>1, <2>1, <2>2 DEF IpOnce
<1>3. ASSUME NEW names \in SUBSET Names, NEW ip \in IPs, Add(names, ip) PROVE IpOnce'
  <2> SUFFICES ASSUME NEW h \in Hosts PROVE \A e, f \in addresses'[h] : e.ip = f.ip => e = f
    BY DEF IpOnce
  <2>1. \A e, f \in addresses[h] : e.ip = f.ip => e = f
    BY DEF IpOnce
  <2>2. addresses'[h] = addresses[h] \/ addresses'[h] = Registered(addresses[h], ip)
    BY <1>3 DEF Add
  <2> QED
    BY <1>1, <2>1, <2>2, RegisteredOnce
<1>4. ASSUME \A h \in Hosts : addresses'[h] \in SUBSET addresses[h] PROVE IpOnce'
  BY <1>4 DEF IpOnce
<1>5. ASSUME NEW names \in SUBSET Names, NEW ip \in IPs, Remove(names, ip) PROVE IpOnce'
  BY <1>4, <1>5 DEF Remove, Without
<1>6. CASE Prune
  BY <1>4, <1>6 DEF Prune, PruneCheck, PruneScan, PruneDelete, Pruned
<1>7. CASE SetWarm \/ PausePruning \/ ResumePruning \/ Shutdown \/ UNCHANGED tablevars
  BY <1>4, <1>7 DEF SetWarm, PausePruning, ResumePruning, Shutdown, tablevars
<1> QED
  BY <1>2, <1>3, <1>5, <1>6, <1>7 DEF TableNext

LEMMA TableTypeInit == TableInit => TableTypeOK
<1> SUFFICES ASSUME TableInit PROVE TableTypeOK
  OBVIOUS
<1>1. /\ keys \subseteq Hosts /\ addresses \in [Hosts -> SUBSET Entry]
      /\ \A h \in Hosts : addresses[h] = {}
      /\ sinceResume \in 0..ResumeDelay
      /\ pc \in {"wait", "scan", "prune"} /\ candidates \subseteq Hosts
  BY DEF TableInit
<1>2. paused \in BOOLEAN /\ warm \in BOOLEAN /\ stopped \in BOOLEAN
  BY DEF TableInit
<1> QED
  BY <1>1, <1>2, Zenon DEF TableTypeOK

\* The table's type and the uniqueness of ips hold in every reachable state,
\* whatever mix of Add, Remove, Pause, Resume, ticks and prunes came before.
THEOREM TableInvariant == TableSpec => [](TableTypeOK /\ IpOnce)
<1>1. TableInit => TableInv
  BY TableTypeInit DEF TableInv, TableInit, IpOnce
<1>2. ASSUME TableInv, [TableNext]_tablevars PROVE TableInv'
  <2>1. TableStep
    BY <1>2 DEF TableNext, TableStep
  <2> QED
    BY <1>2, <2>1, TableTypeStep, IpOnceNext DEF TableInv
<1> QED
  BY <1>1, <1>2, PTL DEF TableSpec, TableInv

\* The state of the address table always has its type.
THEOREM TableTypeCorrect == TableSpec => []TableTypeOK
BY TableInvariant, PTL

\* pruneStaleEntriesWithWriteLock removes only entries that are stale at that
\* moment, whatever happened since the scan.
THEOREM TablePruneTakesOnlyStale == TableSpec => PruneTakesOnlyStale
<1>1. ASSUME [TableNext]_tablevars
      PROVE  [PruneDelete =>
                \A h \in Hosts : \A e \in addresses[h] \ addresses'[h] : Stale(e)]_tablevars
  BY DEF PruneDelete, Pruned
<1> QED
  BY <1>1, PTL DEF TableSpec, PruneTakesOnlyStale

---------------------------------------------------------------------------
(* The subscriber, the emitters and the adapter *)

\* The messages that are published wait in a queue, or are lost.
LEMMA PublishType ==
  ASSUME NEW q \in Seq(Messages), NEW m \in Messages, NEW subject
  PROVE  Publish(q, m, subject) \in Seq(Messages)
BY QueueFacts DEF Publish

LEMMA QueuesNext ==
  ASSUME BusTypes, [Next]_sdvars
  PROVE  registers' \in Seq(Messages) /\ unregisters' \in Seq(Messages)
<1>0. /\ registers \in Seq(Messages) /\ unregisters \in Seq(Messages)
      /\ <<>> \in Seq(Messages)
  BY DEF BusTypes
<1>1. CASE Tick \/ PruneStep \/ Adapter \/ UNCHANGED sdvars
  BY <1>0, <1>1 DEF Tick, PruneStep, Adapter, Query, GetIPs, GetRefused, GetFails, sdvars, busvars
<1>2. CASE RegisterHandler
  BY <1>0, <1>2, QueueFacts DEF RegisterHandler
<1>3. CASE UnregisterHandler
  BY <1>0, <1>3, QueueFacts DEF UnregisterHandler
<1>4. CASE Connect \/ Assign \/ SendStart \/ Subscribe \/ Ready \/ Reconnect \/ GreetHandler
  BY <1>0, <1>4 DEF Connect, Assign, SendStart, Subscribe, Ready, Reconnect, GreetHandler, busvars
<1>5. CASE WarmUp \/ DisconnectHandler \/ ReconnectHandler \/ ShutdownTable
  BY <1>0, <1>5 DEF WarmUp, DisconnectHandler, ReconnectHandler, ShutdownTable, busvars
<1>6. CASE Crash \/ Exit \/ ReconnectHandlerPanics
  BY <1>0, <1>6 DEF Crash, Exit, ReconnectHandlerPanics, Restart
<1>7. CASE CloseSubscriber \/ Disconnect
  BY <1>0, <1>7 DEF CloseSubscriber, Disconnect
<1>8. CASE Emitters
  <2>1. CASE HearStart \/ EmitterRestarts
    BY <1>0, <2>1 DEF HearStart, EmitterRestarts, busvars
  <2>2. ASSUME NEW x \in Endpoints, Emit(x) \/ Start(x) \/ Stop(x)
        PROVE  registers' \in Seq(Messages) /\ unregisters' \in Seq(Messages)
    <3>1. x \in Messages
      BY DEF Messages
    <3> QED
      BY <1>0, <2>2, <3>1, PublishType DEF Emit, Start, Stop
  <2>3. ASSUME NEW m \in Malformed, PublishMalformed(m)
        PROVE  registers' \in Seq(Messages) /\ unregisters' \in Seq(Messages)
    <3>1. m \in Messages
      BY DEF Messages
    <3> QED
      BY <1>0, <2>3, <3>1, PublishType DEF PublishMalformed
  <2> QED
    BY <1>8, <2>1, <2>2, <2>3 DEF Emitters
<1> QED
  BY <1>1, <1>2, <1>3, <1>4, <1>5, <1>6, <1>7, <1>8 DEF Next, Bus, Faults

\* Where a step leaves the subscriber, its connection and the handlers.
Quiet == UNCHANGED <<stage, conn, callbacks, paused>>

LEMMA ConnectionCases ==
  ASSUME [Next]_sdvars
  PROVE  \/ Quiet
         \/ Connect \/ Assign \/ SendStart \/ Subscribe \/ Ready
         \/ Restart \/ CloseSubscriber \/ ShutdownTable
         \/ Disconnect \/ Reconnect \/ DisconnectHandler \/ ReconnectHandler
<1>1. CASE Tick \/ PruneStep
  BY <1>1 DEF Tick, PruneStep, busvars, Quiet, TableTick, Prune, PruneCheck,
              PruneScan, PruneDelete
<1>2. CASE Adapter \/ UNCHANGED sdvars
  BY <1>2 DEF Adapter, Query, GetIPs, GetRefused, GetFails, sdvars, busvars, tablevars, Quiet
<1>3. CASE RegisterHandler \/ UnregisterHandler
  BY <1>3 DEF RegisterHandler, UnregisterHandler, tablevars, Quiet, Add, Remove
<1>4. CASE GreetHandler \/ WarmUp
  BY <1>4 DEF GreetHandler, WarmUp, tablevars, busvars, Quiet, SetWarm
<1>5. CASE Crash \/ Exit \/ ReconnectHandlerPanics
  BY <1>5 DEF Crash, Exit, ReconnectHandlerPanics
<1>6. CASE Emitters
  BY <1>6 DEF Emitters, HearStart, EmitterRestarts, Emit, Start, Stop, PublishMalformed,
              tablevars, busvars, Quiet
<1> QED
  BY <1>1, <1>2, <1>3, <1>4, <1>5, <1>6 DEF Next, Bus, Faults

LEMMA StageNext ==
  ASSUME BusTypes, [Next]_sdvars
  PROVE  /\ stage' \in StageNames /\ conn' \in BOOLEAN
         /\ callbacks' \in Seq({"disconnected", "reconnected"})
<1>0. /\ stage \in StageNames /\ conn \in BOOLEAN /\ <<>> \in Seq({"disconnected", "reconnected"})
      /\ callbacks \in Seq({"disconnected", "reconnected"})
      /\ \A x \in {"disconnected", "reconnected"} :
           /\ Append(callbacks, x) \in Seq({"disconnected", "reconnected"})
           /\ callbacks # <<>> => Tail(callbacks) \in Seq({"disconnected", "reconnected"})
  BY QueueFacts DEF BusTypes
<1>1. CASE Quiet
  BY <1>0, <1>1 DEF Quiet
<1>2. CASE Connect \/ Assign \/ SendStart \/ Ready \/ ShutdownTable
  <2>1. stage' \in {"assign", "start", "greet", "ready", "shutdown"} /\ UNCHANGED callbacks
    BY <1>2 DEF Connect, Assign, SendStart, Ready, ShutdownTable
  <2>2. conn' = TRUE \/ conn' = conn
    BY <1>2 DEF Connect, Assign, SendStart, Ready, ShutdownTable
  <2> QED
    BY <1>0, <2>1, <2>2 DEF StageNames
<1>3. CASE Subscribe
  <2>1. stage' \in {"register", "unregister", "warm"}
    BY <1>3, StageFacts DEF Subscribe
  <2> QED
    BY <1>0, <1>3, <2>1 DEF Subscribe, StageNames
<1>4. CASE Restart
  BY <1>0, <1>4 DEF Restart, StageNames
<1>5. CASE CloseSubscriber
  BY <1>0, <1>5 DEF CloseSubscriber, StageNames
<1>6. CASE Disconnect \/ Reconnect
  BY <1>0, <1>6 DEF Disconnect, Reconnect
<1>7. CASE DisconnectHandler \/ ReconnectHandler
  BY <1>0, <1>7 DEF DisconnectHandler, ReconnectHandler, NextCallback
<1> QED
  BY <1>1, <1>2, <1>3, <1>4, <1>5, <1>6, <1>7, ConnectionCases

\* The start message and the warming goroutine.
LEMMA TimersNext ==
  ASSUME BusTypes, [Next]_sdvars
  PROVE  starts' \in BOOLEAN /\ readyFor' \in 0..(WarmDuration + 1)
<1>0. starts \in BOOLEAN /\ readyFor \in 0..(WarmDuration + 1) /\ WarmDuration \in Nat
  BY ServiceDiscoveryAssumption DEF BusTypes
<1>1. CASE Tick
  <2>1. starts' = starts
    BY <1>1 DEF Tick
  <2>2. readyFor' = readyFor \/ (readyFor <= WarmDuration /\ readyFor' = readyFor + 1)
    BY <1>1 DEF Tick
  <2>3. readyFor' \in 0..(WarmDuration + 1)
    BY <1>0, <2>2
  <2> QED
    BY <1>0, <2>1, <2>3
<1>2. CASE PruneStep \/ Adapter \/ UNCHANGED sdvars
  BY <1>0, <1>2 DEF PruneStep, Adapter, Query, GetIPs, GetRefused, GetFails, sdvars, busvars
<1>3. CASE Connect \/ Assign \/ Subscribe \/ Ready \/ Reconnect \/ GreetHandler \/ WarmUp
  BY <1>0, <1>3 DEF Connect, Assign, Subscribe, Ready, Reconnect, GreetHandler, WarmUp, busvars
<1>4. CASE DisconnectHandler \/ RegisterHandler \/ UnregisterHandler \/ ShutdownTable
  BY <1>0, <1>4 DEF DisconnectHandler, RegisterHandler, UnregisterHandler, ShutdownTable
<1>5. CASE SendStart \/ ReconnectHandler
  BY <1>0, <1>5 DEF SendStart, ReconnectHandler
<1>6. CASE Crash \/ Exit \/ ReconnectHandlerPanics
  <2>1. starts' = FALSE /\ readyFor' = 0
    BY <1>6 DEF Crash, Exit, ReconnectHandlerPanics, Restart
  <2>2. 0 \in 0..(WarmDuration + 1)
    BY <1>0
  <2> QED
    BY <2>1, <2>2, Zenon
<1>7. CASE CloseSubscriber \/ Disconnect
  <2>1. (starts' = starts \/ starts' = FALSE) /\ readyFor' = readyFor
    BY <1>7 DEF CloseSubscriber, Disconnect
  <2> QED
    BY <1>0, <2>1
<1>8. CASE Emitters
  <2>1. (starts' = starts \/ starts' = FALSE) /\ readyFor' = readyFor
    BY <1>8 DEF Emitters, HearStart, EmitterRestarts, Emit, Start, Stop, PublishMalformed, busvars
  <2> QED
    BY <1>0, <2>1
<1> QED
  BY <1>1, <1>2, <1>3, <1>4, <1>5, <1>6, <1>7, <1>8 DEF Next, Bus, Faults

LEMMA BusNext == BusTypes /\ [Next]_sdvars => BusTypes'
BY QueuesNext, StageNext, TimersNext DEF BusTypes

LEMMA EmitNext ==
  ASSUME EmitTypes, [Next]_sdvars
  PROVE  EmitTypes'
<1>0. /\ told \in BOOLEAN /\ live \subseteq Endpoints
      /\ due \in [Endpoints -> 0..Interval] /\ liveFor \in [Endpoints -> 0..(Interval + 1)]
      /\ Interval \in Nat
  BY DEF EmitTypes
<1>1. CASE UNCHANGED emitvars
  BY <1>1 DEF emitvars, EmitTypes
<1>2. CASE Tick
  <2>1. due' \in [Endpoints -> 0..Interval]
    BY <1>0, <1>2 DEF Tick
  <2>2. liveFor' \in [Endpoints -> 0..(Interval + 1)]
    BY <1>0, <1>2 DEF Tick
  <2> QED
    BY <1>0, <1>2, <2>1, <2>2 DEF Tick, EmitTypes
<1>3. CASE GreetHandler \/ HearStart
  <2>1. told' = TRUE /\ UNCHANGED <<live, liveFor>> /\ due' = [x \in Endpoints |-> Interval]
    BY <1>3 DEF GreetHandler, HearStart
  <2> QED
    BY <1>0, <2>1 DEF EmitTypes
<1>4. CASE EmitterRestarts
  BY <1>0, <1>4 DEF EmitterRestarts, EmitTypes
<1>5. ASSUME NEW x \in Endpoints, Emit(x) \/ Start(x) \/ Stop(x) PROVE EmitTypes'
  <2>1. due' \in [Endpoints -> 0..Interval]
    BY <1>0, <1>5 DEF Emit, Start, Stop
  <2>2. liveFor' \in [Endpoints -> 0..(Interval + 1)]
    BY <1>0, <1>5 DEF Emit, Start, Stop
  <2>3. live' \subseteq Endpoints /\ told' = told
    BY <1>0, <1>5 DEF Emit, Start, Stop
  <2> QED
    BY <1>0, <2>1, <2>2, <2>3 DEF EmitTypes
<1>6. CASE \E m \in Malformed : PublishMalformed(m)
  BY <1>1, <1>6 DEF PublishMalformed
<1>7. CASE PruneStep \/ Adapter \/ UNCHANGED sdvars
  BY <1>1, <1>7 DEF PruneStep, Adapter, Query, GetIPs, GetRefused, GetFails, sdvars
<1>8. CASE Connect \/ Assign \/ SendStart \/ Subscribe \/ Ready \/ WarmUp \/ Reconnect
  BY <1>1, <1>8 DEF Connect, Assign, SendStart, Subscribe, Ready, WarmUp, Reconnect
<1>9. CASE DisconnectHandler \/ ReconnectHandler \/ RegisterHandler \/ UnregisterHandler
  BY <1>1, <1>9 DEF DisconnectHandler, ReconnectHandler, RegisterHandler, UnregisterHandler
<1>10. CASE Faults
  BY <1>1, <1>10 DEF Faults, Crash, Exit, ReconnectHandlerPanics, Restart, CloseSubscriber,
                     ShutdownTable, Disconnect
<1> QED
  BY <1>2, <1>3, <1>4, <1>5, <1>6, <1>7, <1>8, <1>9, <1>10 DEF Next, Bus, Emitters

Queries == [tries : 0..4, name : Names \cup {NoName}, code : {"none", "success"},
            ips : SUBSET IPs]

LEMMA ReplyIs ==
  ASSUME NEW code, NEW ips
  PROVE  Reply(code, ips) = [tries |-> 0, name |-> NoName, code |-> code, ips |-> ips]
<1>1. PICK a : a = [NoQuery EXCEPT !.code = code]
  OBVIOUS
<1>2. a = [tries |-> 0, name |-> NoName, code |-> code, ips |-> {}]
  BY <1>1 DEF NoQuery
<1>3. Reply(code, ips) = [a EXCEPT !.ips = ips]
  BY <1>1 DEF Reply
<1> QED
  BY <1>2, <1>3

LEMMA DnsNext ==
  ASSUME TableTypeOK, DnsTypes, [Next]_sdvars
  PROVE  DnsTypes'
<1>0. dns \in Queries /\ (dns.tries > 0 => dns.name \in Names)
  BY DEF DnsTypes, Queries
<1>1. CASE UNCHANGED dns
  BY <1>1 DEF DnsTypes
<1>2. ASSUME NEW r \in Queries, dns' = r, r.tries > 0 => r.name \in Names PROVE DnsTypes'
  BY <1>2 DEF DnsTypes, Queries
<1>3. NoQuery \in Queries /\ NoQuery.tries = 0
  BY DEF NoQuery, Queries
<1>4. ASSUME NEW ips \in SUBSET IPs
      PROVE  Reply("success", ips) \in Queries /\ Reply("success", ips).tries = 0
  BY ReplyIs DEF Queries
<1>5. ASSUME NEW name \in Names \cup {NoName}, NEW type \in {"A", "other"}, Query(name, type)
      PROVE  DnsTypes'
  <2>1. CASE type # "A"
    BY <1>2, <1>4, <1>5, <2>1 DEF Query
  <2>2. CASE type = "A" /\ name = NoName
    BY <1>2, <1>3, <1>5, <2>2 DEF Query
  <2>3. CASE type = "A" /\ name # NoName
    <3>1. PICK r : r = [NoQuery EXCEPT !.name = name, !.tries = 1]
      OBVIOUS
    <3>2. PICK a : a = [NoQuery EXCEPT !.name = name]
      OBVIOUS
    <3>3. a = [tries |-> 0, name |-> name, code |-> "none", ips |-> {}]
      BY <3>2 DEF NoQuery
    <3>4. r = [a EXCEPT !.tries = 1]
      BY <3>1, <3>2
    <3>5. r = [tries |-> 1, name |-> name, code |-> "none", ips |-> {}]
      BY <3>3, <3>4
    <3>6. r \in Queries /\ r.name \in Names
      BY <2>3, <3>5 DEF Queries
    <3>7. dns' = r
      BY <1>5, <2>3, <3>1 DEF Query
    <3> QED
      BY <1>2, <3>6, <3>7
  <2> QED
    BY <2>1, <2>2, <2>3
<1>6. CASE GetIPs
  <2>1. dns.name \in Names
    BY <1>0, <1>6 DEF GetIPs
  <2>2. Lookup(dns.name) \in SUBSET IPs
    <3>1. addresses[Fqdn[dns.name]] \in SUBSET Entry
      BY <2>1 DEF TableTypeOK
    <3>2. \A x \in Entry : x.ip \in IPs
      BY DEF Entry
    <3> QED
      BY <3>1, <3>2 DEF Lookup
  <2>3. PICK r : r = Reply("success", Lookup(dns.name))
    OBVIOUS
  <2>4. r \in Queries /\ r.tries = 0
    BY <1>4, <2>2, <2>3
  <2>5. dns' = r
    BY <1>6, <2>3 DEF GetIPs
  <2> QED
    BY <1>2, <2>4, <2>5
<1>7. CASE GetRefused
  <2>1. CASE dns.tries < 4
    <3>1. PICK r : r = [dns EXCEPT !.tries = dns.tries + 1]
      OBVIOUS
    <3>2. r \in Queries /\ r.name = dns.name
      BY <1>0, <2>1, <3>1 DEF Queries
    <3>3. dns' = r /\ dns.tries > 0
      BY <1>7, <2>1, <3>1 DEF GetRefused
    <3> QED
      BY <1>0, <1>2, <3>2, <3>3
  <2>2. CASE ~(dns.tries < 4)
    BY <1>2, <1>3, <1>7, <2>2 DEF GetRefused
  <2> QED
    BY <2>1, <2>2
<1>8. CASE GetFails
  BY <1>2, <1>3, <1>8 DEF GetFails
<1>9. CASE Tick \/ PruneStep \/ UNCHANGED sdvars
  BY <1>1, <1>9 DEF Tick, PruneStep, sdvars
<1>10. CASE Bus
  <2>1. CASE Connect \/ Assign \/ SendStart \/ Subscribe \/ Ready \/ WarmUp \/ Reconnect
    BY <1>1, <2>1 DEF Connect, Assign, SendStart, Subscribe, Ready, WarmUp, Reconnect
  <2>2. CASE DisconnectHandler \/ ReconnectHandler \/ RegisterHandler \/ UnregisterHandler \/ GreetHandler
    BY <1>1, <2>2 DEF DisconnectHandler, ReconnectHandler, RegisterHandler, UnregisterHandler,
                      GreetHandler
  <2> QED
    BY <1>10, <2>1, <2>2 DEF Bus
<1>11. CASE Faults
  BY <1>1, <1>11 DEF Faults, Crash, Exit, ReconnectHandlerPanics, Restart, CloseSubscriber,
                     ShutdownTable, Disconnect
<1>12. CASE Emitters
  BY <1>1, <1>12 DEF Emitters, HearStart, EmitterRestarts, Emit, Start, Stop, PublishMalformed
<1> QED
  BY <1>5, <1>6, <1>7, <1>8, <1>9, <1>10, <1>11, <1>12 DEF Next, Adapter

---------------------------------------------------------------------------
(* The connection and the handlers *)

LEMMA FollowsNext ==
  ASSUME BusTypes, Follows, [Next]_sdvars
  PROVE  Follows'
<1> DEFINE Kinds == {"disconnected", "reconnected"}
<1>0. /\ callbacks \in Seq(Kinds) /\ conn \in BOOLEAN
      /\ callbacks # <<>> =>
           /\ Tail(callbacks) # <<>> => Newest(Tail(callbacks)) = Newest(callbacks)
           /\ Tail(callbacks) = <<>> => Newest(callbacks) = Head(callbacks)
      /\ \A x \in Kinds : Append(callbacks, x) # <<>> /\ Newest(Append(callbacks, x)) = x
  <2>1. callbacks \in Seq(Kinds) /\ conn \in BOOLEAN /\ "disconnected" \in Kinds
    BY DEF BusTypes
  <2> HIDE DEF Kinds
  <2> QED
    BY <2>1, QueueFacts
<1> HIDE DEF Kinds
<1>1. CASE Quiet
  BY <1>1 DEF Quiet, Follows, Newest
<1>2. CASE Connect
  <2>1. callbacks' = <<>> /\ conn' = TRUE /\ paused' = FALSE /\ stage' = "assign"
    BY <1>2 DEF Connect, Follows, tablevars
  <2> QED
    BY <2>1 DEF Follows
<1>3. CASE Assign \/ SendStart \/ Subscribe \/ Ready \/ ShutdownTable
  <2>1. stage # "connect" /\ UNCHANGED <<callbacks, conn, paused>>
    BY <1>3 DEF Assign, SendStart, Subscribe, Ready, ShutdownTable, Shutdown, tablevars
  <2>2. stage' # "connect"
    BY <1>3, StageFacts DEF Assign, SendStart, Subscribe, Ready, ShutdownTable
  <2> QED
    BY <2>1, <2>2 DEF Follows, Newest
<1>4. CASE Restart
  BY <1>4 DEF Restart, Follows
<1>5. CASE CloseSubscriber
  <2>1. stage = "ready" /\ stage' = "closed" /\ conn' = FALSE /\ UNCHANGED paused
    BY <1>5 DEF CloseSubscriber, tablevars
  <2>2. CASE conn = TRUE
    <3>1. callbacks' = Append(callbacks, "disconnected")
      BY <1>5, <2>2 DEF CloseSubscriber
    <3>2. callbacks' # <<>> /\ Newest(callbacks') = "disconnected"
      BY <1>0, <3>1 DEF Kinds
    <3> QED
      BY <2>1, <3>2 DEF Follows, Newest
  <2>3. CASE conn = FALSE
    <3>1. callbacks' = callbacks
      BY <1>5, <2>3 DEF CloseSubscriber
    <3> QED
      BY <2>1, <2>3, <3>1 DEF Follows, Newest
  <2> QED
    BY <1>0, <2>2, <2>3
<1>6. CASE Disconnect
  <2>1. /\ conn = TRUE /\ conn' = FALSE /\ stage' = stage
        /\ callbacks' = Append(callbacks, "disconnected")
    BY <1>6 DEF Disconnect
  <2>2. callbacks' # <<>> /\ Newest(callbacks') = "disconnected"
    BY <1>0, <2>1 DEF Kinds
  <2>3. stage' # "connect"
    BY <2>1 DEF Follows
  <2> QED
    BY <2>1, <2>2, <2>3 DEF Follows, Newest
<1>7. CASE Reconnect
  <2>1. /\ conn' = TRUE /\ stage' = stage /\ stage # "connect"
        /\ callbacks' = Append(callbacks, "reconnected")
    BY <1>7 DEF Reconnect
  <2>2. callbacks' # <<>> /\ Newest(callbacks') = "reconnected"
    BY <1>0, <2>1 DEF Kinds
  <2> QED
    BY <2>1, <2>2 DEF Follows, Newest
<1>8. CASE DisconnectHandler
  <2>1. /\ callbacks # <<>> /\ Head(callbacks) = "disconnected" /\ callbacks' = Tail(callbacks)
        /\ paused' = TRUE /\ UNCHANGED <<stage, conn>>
    BY <1>8 DEF DisconnectHandler, NextCallback, PausePruning
  <2>2. stage' # "connect"
    BY <2>1 DEF Follows
  <2>3. CASE callbacks' = <<>>
    <3>1. conn' = FALSE
      BY <1>0, <2>1, <2>3 DEF Follows
    <3> QED
      BY <2>1, <2>2, <2>3, <3>1 DEF Follows
  <2>4. CASE callbacks' # <<>>
    <3>1. Newest(callbacks') = Newest(callbacks)
      BY <1>0, <2>1, <2>4
    <3> QED
      BY <2>1, <2>2, <2>4, <3>1 DEF Follows, Newest
  <2> QED
    BY <2>3, <2>4
<1>9. CASE ReconnectHandler
  <2>1. /\ callbacks # <<>> /\ Head(callbacks) = "reconnected" /\ callbacks' = Tail(callbacks)
        /\ paused' = FALSE /\ UNCHANGED <<stage, conn>>
    BY <1>9 DEF ReconnectHandler, NextCallback, ResumePruning
  <2>2. stage' # "connect"
    BY <2>1 DEF Follows
  <2>3. CASE callbacks' = <<>>
    <3>1. conn' = TRUE
      BY <1>0, <2>1, <2>3 DEF Follows
    <3> QED
      BY <2>1, <2>2, <2>3, <3>1 DEF Follows
  <2>4. CASE callbacks' # <<>>
    <3>1. Newest(callbacks') = Newest(callbacks)
      BY <1>0, <2>1, <2>4
    <3> QED
      BY <2>1, <2>2, <2>4, <3>1 DEF Follows, Newest
  <2> QED
    BY <2>3, <2>4
<1> QED
  BY <1>1, <1>2, <1>3, <1>4, <1>5, <1>6, <1>7, <1>8, <1>9, ConnectionCases

LEMMA InvInit == Init => Inv
<1> SUFFICES ASSUME Init PROVE Inv
  OBVIOUS
<1>1. TableTypeOK
  BY TableTypeInit DEF Init
<1>2. BusTypes
  <2>1. /\ <<>> \in Seq({"disconnected", "reconnected"}) /\ <<>> \in Seq(Messages)
        /\ 0 \in 0..(WarmDuration + 1)
    BY ServiceDiscoveryAssumption
  <2>2. conn \in BOOLEAN /\ starts \in BOOLEAN
    BY DEF Init
  <2> QED
    BY <2>1, <2>2 DEF Init, BusTypes, StageNames
<1>3. EmitTypes
  <2>1. told \in BOOLEAN
    BY DEF Init
  <2> QED
    BY <2>1 DEF Init, EmitTypes
<1>4. DnsTypes
  BY DEF Init, DnsTypes, NoQuery
<1>5. Follows
  BY DEF Init, TableInit, Follows
<1> QED
  BY <1>1, <1>2, <1>3, <1>4, <1>5 DEF Inv

LEMMA InvNext == Inv /\ [Next]_sdvars => Inv'
BY TableTypeNext, BusNext, EmitNext, DnsNext, FollowsNext DEF Inv

\* Once the handlers of the connection have run, pruning is paused exactly while
\* the connection is down, whatever the length of the handlers' queue, and
\* whatever crashes, panics and quick losses of the connection there are.
\* (With the types.)
THEOREM PausedWhileDisconnected == Spec => []PauseFollowsConnection
<1>1. Inv => PauseFollowsConnection
  <2> SUFFICES ASSUME Inv PROVE PauseFollowsConnection
    OBVIOUS
  <2>1. stage \in {Stages[i] : i \in 1..Len(Stages)}
    BY StageFacts DEF Inv, BusTypes
  <2>2. dns.tries \in 0..4 /\ dns.ips \subseteq IPs
    BY DEF Inv, DnsTypes
  <2>3. TypeOK
    BY <2>1, <2>2, Zenon DEF Inv, BusTypes, EmitTypes, Messages, TypeOK
  <2>4. callbacks = <<>> /\ stage # "connect" => (paused <=> ~conn)
    BY DEF Inv, Follows
  <2> QED
    BY <2>3, <2>4 DEF PauseFollowsConnection
<1> QED
  BY <1>1, InvInit, InvNext, PTL DEF Spec

---------------------------------------------------------------------------
(* What waits in the queues *)

Waits(m, q) == \E i \in 1..Len(q) : q[i] = m

LEMMA WaitsFacts ==
  ASSUME NEW S, NEW q \in Seq(S), NEW m \in S, NEW x
  PROVE  /\ ~Waits(x, <<>>)
         /\ Waits(x, Append(q, m)) <=> Waits(x, q) \/ x = m
         /\ q # <<>> => (Waits(x, q) <=> x = Head(q) \/ Waits(x, Tail(q)))
<1>1. ~Waits(x, <<>>)
  BY DEF Waits
<1>2. Waits(x, Append(q, m)) <=> Waits(x, q) \/ x = m
  <2>1. /\ Len(Append(q, m)) = Len(q) + 1 /\ Append(q, m)[Len(q) + 1] = m
        /\ \A i \in 1..Len(q) : Append(q, m)[i] = q[i]
        /\ Len(q) \in Nat
    BY AppendProperties
  <2>2. Waits(x, q) \/ x = m => Waits(x, Append(q, m))
    BY <2>1 DEF Waits
  <2>3. Waits(x, Append(q, m)) => Waits(x, q) \/ x = m
    BY <2>1 DEF Waits
  <2> QED
    BY <2>2, <2>3
<1>3. ASSUME q # <<>> PROVE Waits(x, q) <=> x = Head(q) \/ Waits(x, Tail(q))
  <2>1. /\ Head(q) = q[1] /\ Len(Tail(q)) = Len(q) - 1
        /\ \A i \in 1..Len(Tail(q)) : Tail(q)[i] = q[i + 1]
        /\ Len(q) \in Nat /\ Len(q) > 0
    BY <1>3, HeadTailProperties
  <2>2. ASSUME Waits(x, q) PROVE x = Head(q) \/ Waits(x, Tail(q))
    <3>1. PICK i \in 1..Len(q) : q[i] = x
      BY <2>2 DEF Waits
    <3>2. CASE i = 1
      BY <2>1, <3>1, <3>2
    <3>3. CASE i # 1
      <4>1. i - 1 \in 1..Len(Tail(q)) /\ Tail(q)[i - 1] = q[(i - 1) + 1] /\ (i - 1) + 1 = i
        BY <2>1, <3>3
      <4> QED
        BY <3>1, <4>1 DEF Waits
    <3> QED
      BY <3>2, <3>3
  <2>3. ASSUME x = Head(q) \/ Waits(x, Tail(q)) PROVE Waits(x, q)
    <3>1. CASE x = Head(q)
      BY <2>1, <3>1 DEF Waits
    <3>2. CASE Waits(x, Tail(q))
      <4>1. PICK i \in 1..Len(Tail(q)) : Tail(q)[i] = x
        BY <3>2 DEF Waits
      <4>2. i + 1 \in 1..Len(q) /\ q[i + 1] = x
        BY <2>1, <4>1
      <4> QED
        BY <4>2 DEF Waits
    <3> QED
      BY <2>3, <3>1, <3>2
  <2> QED
    BY <2>2, <2>3
<1> QED
  BY <1>1, <1>2, <1>3

---------------------------------------------------------------------------
(* The entries of an instance *)

\* No entry of the instance is older than a ticks.
Young(e, a) ==
  \A h \in FqdnsOf(e.names) : \A x \in addresses[h] : x.ip = e.ip => x.age <= a

\* A step that takes no time.
Instant == Bus \/ Faults \/ Emitters \/ PruneStep \/ Adapter \/ UNCHANGED sdvars

LEMMA InstantOrTick == [Next]_sdvars => Tick \/ Instant
BY DEF Next, Instant

LEMMA InstantEntries ==
  ASSUME Instant
  PROVE  \/ UNCHANGED addresses
         \/ RegisterHandler \/ UnregisterHandler \/ PruneDelete \/ Restart
<1>1. CASE Bus
  <2>1. CASE Connect \/ Assign \/ SendStart \/ Subscribe \/ Ready \/ Reconnect \/ GreetHandler
    BY <2>1 DEF Connect, Assign, SendStart, Subscribe, Ready, Reconnect, GreetHandler, tablevars
  <2>2. CASE WarmUp \/ DisconnectHandler \/ ReconnectHandler
    BY <2>2 DEF WarmUp, DisconnectHandler, ReconnectHandler, SetWarm,
                PausePruning, ResumePruning
  <2> QED
    BY <1>1, <2>1, <2>2 DEF Bus
<1>2. CASE Faults
  BY <1>2 DEF Faults, Crash, Exit, ReconnectHandlerPanics, CloseSubscriber, ShutdownTable,
              Disconnect, Shutdown, tablevars
<1>3. CASE Emitters
  BY <1>3 DEF Emitters, HearStart, EmitterRestarts, Emit, Start, Stop, PublishMalformed, tablevars
<1>4. CASE PruneStep
  BY <1>4 DEF PruneStep, Prune, PruneCheck, PruneScan
<1>5. CASE Adapter \/ UNCHANGED sdvars
  BY <1>5 DEF Adapter, Query, GetIPs, GetRefused, GetFails, sdvars, tablevars
<1> QED
  BY <1>1, <1>2, <1>3, <1>4, <1>5 DEF Instant

\* What a step that takes no time adds to the table is new, and comes from a
\* register message.
LEMMA InstantNew ==
  ASSUME TableTypeOK, BusTypes, Instant, NEW h \in Hosts, NEW x \in addresses'[h]
  PROVE  x \in addresses[h] \/ (x.age = 0 /\ RegisterHandler)
<1>1. CASE UNCHANGED addresses
  BY <1>1
<1>2. CASE RegisterHandler
  <2>1. PICK m : m = Head(registers)
    OBVIOUS
  <2>2. CASE UNCHANGED tablevars
    BY <2>2 DEF tablevars
  <2>3. CASE Add(m.names, m.ip)
    <3>1. PICK es, ip : es = addresses[h] /\ ip = m.ip
      OBVIOUS
    <3>2. x \in es \/ x \in Registered(es, ip)
      BY <2>3, <3>1 DEF Add
    <3>3. \A y \in es : y \in Entry
      BY <3>1 DEF TableTypeOK
    <3>4. ASSUME x \in Registered(es, ip) PROVE x \in es \/ x.age = 0
      <4>1. x \in es \/ x = [ip |-> ip, age |-> 0] \/ \E y \in es : x = [y EXCEPT !.age = 0]
        BY <3>4 DEF Registered
      <4>2. CASE x = [ip |-> ip, age |-> 0]
        BY <4>2
      <4>3. CASE \E y \in es : x = [y EXCEPT !.age = 0]
        BY <3>3, <4>3 DEF Entry
      <4> QED
        BY <4>1, <4>2, <4>3
    <3> QED
      BY <1>2, <3>1, <3>2, <3>4
  <2> QED
    BY <1>2, <2>1, <2>2, <2>3 DEF RegisterHandler
<1>3. CASE UnregisterHandler
  BY <1>3 DEF UnregisterHandler, Remove, Without, tablevars
<1>4. CASE PruneDelete
  BY <1>4 DEF PruneDelete, Pruned
<1>5. CASE Restart
  BY <1>5 DEF Restart
<1> QED
  BY <1>1, <1>2, <1>3, <1>4, <1>5, InstantEntries

LEMMA HostsOf ==
  ASSUME NEW e \in Endpoints
  PROVE  FqdnsOf(e.names) \subseteq Hosts
BY DEF FqdnsOf

LEMMA YoungInstant ==
  ASSUME TableTypeOK, BusTypes, Instant, NEW e \in Endpoints, NEW a \in Nat, Young(e, a)
  PROVE  Young(e, a)'
<1> SUFFICES ASSUME NEW h \in FqdnsOf(e.names), NEW x \in addresses'[h], x.ip = e.ip
             PROVE  x.age <= a
  BY DEF Young, FqdnsOf
<1>1. h \in Hosts
  BY HostsOf
<1>2. x \in addresses[h] \/ x.age = 0
  BY <1>1, InstantNew
<1> QED
  BY <1>2 DEF Young

LEMMA YoungTick ==
  ASSUME TableTypeOK, TableTick, NEW e \in Endpoints, NEW a \in Nat, a <= Threshold,
         Young(e, a)
  PROVE  Young(e, a + 1)'
<1> SUFFICES ASSUME NEW h \in FqdnsOf(e.names), NEW x \in addresses'[h], x.ip = e.ip
             PROVE  x.age <= a + 1
  BY DEF Young, FqdnsOf
<1>1. h \in Hosts
  BY HostsOf
<1>2. PICK y \in addresses[h] : x = Older(y)
  BY <1>1 DEF TableTick
<1>3. y \in Entry
  BY <1>1 DEF TableTypeOK
<1>4. x.ip = y.ip /\ (x.age = y.age + 1 \/ (x.age = y.age)) /\ y.age \in Nat
  BY <1>2, <1>3 DEF Older, Entry, Ages
<1>5. y.age <= a
  BY <1>4 DEF Young
<1> QED
  BY <1>4, <1>5

\* A message of the instance makes all its entries new.
LEMMA YoungRegistered ==
  ASSUME TableTypeOK, RegisterHandler, NEW e \in Endpoints, e = Head(registers)
  PROVE  Young(e, 0)'
<1>1. Add(e.names, e.ip)
  BY DEF RegisterHandler
<1> SUFFICES ASSUME NEW h \in FqdnsOf(e.names), NEW x \in addresses'[h], x.ip = e.ip
             PROVE  x.age <= 0
  BY DEF Young, FqdnsOf
<1>2. h \in Hosts
  BY HostsOf
<1>3. PICK es, ip : es = addresses[h] /\ ip = e.ip
  OBVIOUS
<1>4. x \in Registered(es, ip)
  BY <1>1, <1>2, <1>3 DEF Add
<1>5. \A y \in es : y \in Entry
  BY <1>2, <1>3 DEF TableTypeOK
<1>6. CASE \E y \in es : y.ip = ip
  <2>1. PICK y \in es : x = IF y.ip = ip THEN [y EXCEPT !.age = 0] ELSE y
    BY <1>4, <1>6 DEF Registered
  <2>2. y.ip = ip
    BY <1>3, <2>1
  <2>3. x = [y EXCEPT !.age = 0]
    BY <2>1, <2>2
  <2> QED
    BY <1>5, <2>3 DEF Entry
<1>7. CASE ~\E y \in es : y.ip = ip
  <2>1. x \in es \/ x = [ip |-> ip, age |-> 0]
    BY <1>4, <1>7 DEF Registered
  <2>2. x \notin es
    BY <1>3, <1>7
  <2>3. x = [ip |-> ip, age |-> 0]
    BY <2>1, <2>2
  <2> QED
    BY <2>3
<1> QED
  BY <1>6, <1>7

LEMMA YoungMonotone ==
  ASSUME TableTypeOK', NEW e \in Endpoints, NEW a \in Nat, NEW b \in Nat, a <= b, Young(e, a)'
  PROVE  Young(e, b)'
<1> SUFFICES ASSUME NEW h \in FqdnsOf(e.names), NEW x \in addresses'[h], x.ip = e.ip
             PROVE  x.age <= b
  BY DEF Young, FqdnsOf
<1>1. x \in Entry
  BY HostsOf DEF TableTypeOK
<1>2. x.age \in Nat /\ x.age <= a
  BY <1>1 DEF Young, Entry, Ages, FqdnsOf
<1> QED
  BY <1>2

---------------------------------------------------------------------------
(* Entries are renewed in time, or pruning is paused *)

Early == {"connect", "assign", "start", "greet", "register"}

\* The table is empty until the subscription for register messages exists.
Empty ==
  stage \in Early => registers = <<>> /\ \A h \in Hosts : addresses[h] = {}

Shut == stage \in {"connect", "closed", "shutdown"} => conn = FALSE

\* While the connection is up, no entry of an instance that runs is older than
\* its last registration, or something is on its way that will renew it: a
\* handler, a start message, a greeting, a registration that is due, or one
\* that waits.
Renewed(e) ==
  \/ Young(e, due[e]) \/ callbacks # <<>> \/ starts = TRUE \/ told = FALSE
  \/ due[e] = Interval \/ Waits(e, registers)

RenewedInTime == conn = TRUE => \A e \in live : Renewed(e)

\* When the pruning goroutine may prune, or has looked and is about to, no entry
\* of an instance that has run for a tick is stale.
PruneMode == (paused = FALSE /\ sinceResume > 0) \/ pc \in {"scan", "prune"}
SafeToPrune == PruneMode => \A e \in live : liveFor[e] > 0 => Young(e, Threshold)

PruneInv == Inv /\ Empty /\ Shut /\ RenewedInTime /\ SafeToPrune

LEMMA EarlyBefore ==
  ASSUME [Next]_sdvars, stage' \in Early
  PROVE  stage \in Early \/ Restart
<1>1. CASE Quiet \/ Connect \/ Assign \/ SendStart \/ Ready \/ CloseSubscriber \/ ShutdownTable
  BY <1>1 DEF Quiet, Connect, Assign, SendStart, Ready, CloseSubscriber, ShutdownTable, Early
<1>2. CASE Subscribe
  BY <1>2, StageFacts DEF Subscribe, Early
<1>3. CASE Disconnect \/ Reconnect \/ DisconnectHandler \/ ReconnectHandler
  BY <1>3 DEF Disconnect, Reconnect, DisconnectHandler, ReconnectHandler
<1> QED
  BY <1>1, <1>2, <1>3, ConnectionCases

\* What a step does to the queue of register messages.
LEMMA RegistersCases ==
  ASSUME [Next]_sdvars
  PROVE  \/ UNCHANGED registers
         \/ registers' = <<>> /\ conn' = FALSE
         \/ RegisterHandler
         \/ conn /\ Past("register") /\ \E m \in Messages : registers' = Append(registers, m)
<1>1. CASE Tick \/ PruneStep \/ Adapter \/ UNCHANGED sdvars
  BY <1>1 DEF Tick, PruneStep, Adapter, Query, GetIPs, GetRefused, GetFails, sdvars, busvars
<1>2. CASE Connect \/ Assign \/ SendStart \/ Subscribe \/ Ready \/ Reconnect \/ GreetHandler
  BY <1>2 DEF Connect, Assign, SendStart, Subscribe, Ready, Reconnect, GreetHandler, busvars
<1>3. CASE WarmUp \/ DisconnectHandler \/ ReconnectHandler \/ ShutdownTable \/ UnregisterHandler
  BY <1>3 DEF WarmUp, DisconnectHandler, ReconnectHandler, ShutdownTable, UnregisterHandler,
              busvars
<1>4. CASE Crash \/ Exit \/ ReconnectHandlerPanics
  BY <1>4 DEF Crash, Exit, ReconnectHandlerPanics, Restart
<1>5. CASE CloseSubscriber \/ Disconnect
  BY <1>5 DEF CloseSubscriber, Disconnect
<1>6. CASE Emitters
  <2>1. CASE HearStart \/ EmitterRestarts
    BY <2>1 DEF HearStart, EmitterRestarts, busvars
  <2>2. ASSUME NEW x \in Messages, registers' = Publish(registers, x, "register")
        PROVE  \/ UNCHANGED registers
               \/ conn /\ Past("register") /\ \E m \in Messages : registers' = Append(registers, m)
    BY <2>2 DEF Publish
  <2>3. ASSUME NEW x \in Endpoints, Emit(x) \/ Start(x) \/ Stop(x)
        PROVE  UNCHANGED registers \/ \E m \in Messages : registers' = Publish(registers, m, "register")
    BY <2>3 DEF Emit, Start, Stop, Messages
  <2>4. ASSUME NEW x \in Malformed, PublishMalformed(x)
        PROVE  UNCHANGED registers \/ \E m \in Messages : registers' = Publish(registers, m, "register")
    BY <2>4 DEF PublishMalformed, Messages
  <2> QED
    BY <1>6, <2>1, <2>2, <2>3, <2>4 DEF Emitters
<1> QED
  BY <1>1, <1>2, <1>3, <1>4, <1>5, <1>6 DEF Next, Bus, Faults

LEMMA EmptyNext ==
  ASSUME Inv, Empty, [Next]_sdvars
  PROVE  Empty'
<1>0. stage \in StageNames /\ TableTypeOK /\ BusTypes
  BY DEF Inv, BusTypes
<1> SUFFICES ASSUME stage' \in Early
             PROVE  registers' = <<>> /\ \A h \in Hosts : addresses'[h] = {}
  BY DEF Empty
<1>1. CASE Restart
  BY <1>1 DEF Restart
<1>2. CASE stage \in Early
  <2>1. registers = <<>> /\ \A h \in Hosts : addresses[h] = {}
    BY <1>2 DEF Empty
  <2>2. ~RegisterHandler
    BY <2>1 DEF RegisterHandler
  <2>3. ~Past("register")
    BY <1>0, <1>2, PastFacts DEF Early
  <2>4. registers' = <<>>
    BY <2>1, <2>2, <2>3, RegistersCases
  <2>5. CASE Instant
    <3>1. \A h \in Hosts : \A x \in addresses'[h] : x \in addresses[h]
      BY <1>0, <2>2, <2>5, InstantNew
    <3> QED
      BY <2>1, <2>4, <3>1
  <2>6. CASE Tick
    BY <2>1, <2>4, <2>6 DEF Tick, TableTick
  <2> QED
    BY <2>5, <2>6, InstantOrTick
<1> QED
  BY <1>1, <1>2, EarlyBefore

LEMMA ShutNext ==
  ASSUME Shut, [Next]_sdvars
  PROVE  Shut'
<1>1. CASE Quiet \/ Connect \/ Assign \/ SendStart \/ Ready \/ CloseSubscriber \/ ShutdownTable
  BY <1>1 DEF Quiet, Connect, Assign, SendStart, Ready, CloseSubscriber, ShutdownTable, Shut
<1>2. CASE Subscribe
  BY <1>2, StageFacts DEF Subscribe, Shut
<1>3. CASE Disconnect \/ Reconnect \/ DisconnectHandler \/ ReconnectHandler
  BY <1>3 DEF Disconnect, Reconnect, DisconnectHandler, ReconnectHandler, Shut
<1>4. CASE Restart
  BY <1>4 DEF Restart, Shut
<1> QED
  BY <1>1, <1>2, <1>3, <1>4, ConnectionCases

LEMMA YoungWhenEmpty ==
  ASSUME Empty, stage \in Early, NEW e \in Endpoints, NEW a
  PROVE  Young(e, a)
BY HostsOf DEF Empty, Young

\* When time may pass and the connection is up, every instance that runs has been
\* registered within the interval.
LEMMA YoungAfterTick ==
  ASSUME PruneInv, Tick, conn = TRUE, NEW e \in live
  PROVE  due'[e] \in Nat /\ due'[e] <= Interval /\ Young(e, due[e])'
<1>0. /\ Inv /\ TableTypeOK /\ stage \in StageNames /\ e \in Endpoints
      /\ due \in [Endpoints -> 0..Interval]
  BY DEF PruneInv, Inv, BusTypes, EmitTypes
<1>1. [Next]_sdvars
  BY DEF Next
<1>2. due'[e] = IF due[e] < Interval THEN due[e] + 1 ELSE due[e]
  BY <1>0 DEF Tick
<1>3. due'[e] \in Nat /\ due'[e] <= Interval
  BY <1>0, <1>2
<1>4. CASE stage \in Early
  <2>1. Empty' /\ stage' \in Early
    BY <1>1, <1>4, EmptyNext DEF PruneInv, Tick
  <2>2. \A h \in Hosts : addresses'[h] = {}
    BY <2>1 DEF Empty
  <2>3. Young(e, due[e])'
    BY <1>0, <2>2, HostsOf DEF Young, FqdnsOf
  <2> QED
    BY <1>3, <2>3
<1>5. CASE stage \notin Early
  <2>1. stage \in {"unregister", "warm", "ready"}
    BY <1>0, <1>5 DEF PruneInv, Shut, Early, StageNames
  <2>2. Past("greet")
    BY <1>0, <2>1, PastFacts
  <2>3. callbacks = <<>> /\ registers = <<>> /\ starts # TRUE /\ told # FALSE
    BY <2>2 DEF Tick, Prompt
  <2>4. told \in BOOLEAN
    BY DEF PruneInv, Inv, EmitTypes
  <2>5. due[e] # Interval
    BY <2>3, <2>4 DEF Tick, Prompt
  <2>6. ~Waits(e, registers)
    BY <2>3 DEF Waits
  <2>7. Young(e, due[e])
    BY <2>3, <2>5, <2>6 DEF PruneInv, RenewedInTime, Renewed
  <2>8. due[e] \in Nat /\ due[e] < Interval /\ due'[e] = due[e] + 1
    BY <1>0, <1>2, <2>5
  <2>9. TableTick /\ due[e] <= Threshold
    BY <2>8, TimingAssumption DEF Tick
  <2>10. PICK a \in Nat : a = due[e]
    BY <2>8
  <2>11. Young(e, a + 1)'
    BY <1>0, <2>7, <2>9, <2>10, YoungTick
  <2>12. Young(e, due[e])'
    BY <2>8, <2>10, <2>11 DEF Young
  <2> QED
    BY <1>3, <2>12
<1> QED
  BY <1>4, <1>5

\* A step that takes no time and does not touch what an instance waits for.
LEMMA RenewedKept ==
  ASSUME Inv, Instant, NEW e \in live, Renewed(e),
         callbacks' = callbacks \/ callbacks' # <<>>,
         starts' = starts \/ starts' = TRUE, told' = told \/ told' = FALSE, due'[e] = due[e],
         Waits(e, registers) => Waits(e, registers')
  PROVE  Renewed(e)'
<1>0. e \in Endpoints /\ due[e] \in Nat /\ TableTypeOK /\ BusTypes
  BY DEF Inv, EmitTypes
<1>1. CASE Young(e, due[e])
  <2>1. PICK a \in Nat : a = due[e]
    BY <1>0
  <2>2. Young(e, a)'
    BY <1>0, <1>1, <2>1, YoungInstant
  <2>3. Young(e, due[e])'
    BY <2>1, <2>2 DEF Young
  <2> QED
    BY <2>3 DEF Renewed
<1>2. CASE Waits(e, registers)
  <2>1. Waits(e, registers)'
    BY <1>2 DEF Waits
  <2> QED
    BY <2>1 DEF Renewed
<1>3. CASE callbacks # <<>> \/ starts = TRUE
  BY <1>3 DEF Renewed
<1>4. CASE told = FALSE \/ due[e] = Interval
  BY <1>4 DEF Renewed
<1> QED
  BY <1>1, <1>2, <1>3, <1>4 DEF Renewed

LEMMA WaitsPublished ==
  ASSUME NEW q \in Seq(Messages), NEW m \in Messages, NEW subject, NEW x
  PROVE  /\ Waits(x, q) => Waits(x, Publish(q, m, subject))
         /\ conn /\ Past(subject) => Waits(m, Publish(q, m, subject))
         /\ Waits(x, Publish(q, m, subject)) => Waits(x, q) \/ x = m
BY WaitsFacts DEF Publish

\* Steps of the process and of the connection.
LEMMA RenewedBus ==
  ASSUME PruneInv, Inv', Empty', Bus \/ Faults \/ PruneStep, conn' = TRUE, NEW e \in live'
  PROVE  Renewed(e)'
<1>0. /\ Inv /\ Inv' /\ BusTypes /\ e \in Endpoints /\ Follows /\ Follows'
      /\ registers \in Seq(Messages) /\ TableTypeOK
  BY DEF PruneInv, Inv, EmitTypes, BusTypes
<1>1. Instant
  BY DEF Instant
<1>2. CASE Connect \/ Reconnect
  <2>1. CASE Connect
    <3>1. stage' \in Early /\ Empty'
      BY <2>1 DEF Connect, Early
    <3>2. \A h \in Hosts : addresses'[h] = {}
      BY <3>1 DEF Empty
    <3>3. Young(e, due[e])'
      BY <1>0, <3>2, HostsOf DEF Young, FqdnsOf
    <3> QED
      BY <3>3 DEF Renewed
  <2>2. CASE Reconnect
    <3>1. callbacks' = Append(callbacks, "reconnected") /\ callbacks \in Seq({"disconnected", "reconnected"})
      BY <1>0, <2>2 DEF Reconnect, BusTypes
    <3>2. callbacks' # <<>>
      BY <3>1, QueueFacts
    <3> QED
      BY <3>2 DEF Renewed
  <2> QED
    BY <1>2, <2>1, <2>2
<1>3. CASE DisconnectHandler
  <2>1. callbacks # <<>> /\ paused' = TRUE /\ stage' = stage
    BY <1>3 DEF DisconnectHandler, NextCallback, PausePruning
  <2>2. stage' # "connect"
    BY <1>0, <2>1 DEF Follows
  <2>3. callbacks' # <<>>
    BY <1>0, <2>1, <2>2 DEF Follows
  <2> QED
    BY <2>3 DEF Renewed
<1>4. CASE ReconnectHandler
  BY <1>4 DEF ReconnectHandler, Renewed
<1>5. CASE GreetHandler
  BY <1>0, <1>5 DEF GreetHandler, Renewed
<1>6. CASE Crash \/ Exit \/ ReconnectHandlerPanics \/ CloseSubscriber \/ Disconnect
  BY <1>6 DEF Crash, Exit, ReconnectHandlerPanics, Restart, CloseSubscriber, Disconnect
<1>7. ASSUME UNCHANGED <<conn, callbacks, told, due, live, registers>>,
             starts' = starts \/ starts' = TRUE
      PROVE  Renewed(e)'
  <2>1. e \in live /\ Renewed(e)
    BY <1>7 DEF PruneInv, RenewedInTime
  <2> QED
    BY <1>0, <1>1, <1>7, <2>1, RenewedKept
<1>8. CASE Assign \/ SendStart \/ Subscribe \/ Ready \/ WarmUp
  BY <1>7, <1>8 DEF Assign, SendStart, Subscribe, Ready, WarmUp, emitvars, busvars
<1>9. CASE UnregisterHandler \/ ShutdownTable \/ PruneStep
  BY <1>7, <1>9 DEF UnregisterHandler, ShutdownTable, PruneStep, emitvars, busvars
<1>10. CASE RegisterHandler
  <2>1. /\ UNCHANGED <<conn, callbacks, told, due, live, starts>>
        /\ registers # <<>> /\ registers' = Tail(registers)
    BY <1>10 DEF RegisterHandler, emitvars
  <2>2. e \in live /\ Renewed(e)
    BY <2>1 DEF PruneInv, RenewedInTime
  <2>3. CASE e = Head(registers)
    <3>1. Young(e, 0)' /\ due'[e] \in Nat /\ TableTypeOK'
      BY <1>0, <1>10, <2>3, YoungRegistered DEF Inv, EmitTypes
    <3>2. PICK a \in Nat : a = due'[e]
      BY <3>1
    <3>3. Young(e, a)'
      BY <1>0, <3>1, <3>2, YoungMonotone
    <3>4. Young(e, due[e])'
      BY <3>2, <3>3 DEF Young
    <3> QED
      BY <3>4 DEF Renewed
  <2>4. CASE e # Head(registers)
    <3>1. e \in Messages
      BY <1>0 DEF Messages
    <3>2. Waits(e, registers) => Waits(e, registers')
      BY <1>0, <2>1, <2>4, <3>1, WaitsFacts
    <3> QED
      BY <1>0, <1>1, <2>1, <2>2, <3>2, RenewedKept
  <2> QED
    BY <2>3, <2>4
<1> QED
  BY <1>2, <1>3, <1>4, <1>5, <1>6, <1>8, <1>9, <1>10 DEF Bus, Faults

\* Steps of the emitters and of the adapter.
LEMMA RenewedEmitters ==
  ASSUME PruneInv, Empty', Emitters \/ Adapter \/ UNCHANGED sdvars,
         conn' = TRUE, NEW e \in live'
  PROVE  Renewed(e)'
<1>0. Inv /\ registers \in Seq(Messages) /\ due \in [Endpoints -> 0..Interval]
      /\ live \subseteq Endpoints /\ stage \in StageNames
  BY DEF PruneInv, Inv, EmitTypes, BusTypes
<1>1. Instant
  BY DEF Instant
<1>2. conn = TRUE /\ stage' = stage
  BY DEF Emitters, Adapter, HearStart, EmitterRestarts, Emit, Start, Stop, PublishMalformed, Query,
         GetIPs, GetRefused, GetFails, sdvars, busvars
<1>3. ASSUME NEW x \in live, UNCHANGED <<callbacks, starts>>, told' = told \/ told' = FALSE,
             due'[x] = due[x], Waits(x, registers) => Waits(x, registers')
      PROVE  Renewed(x)'
  <2>1. Renewed(x)
    BY <1>2 DEF PruneInv, RenewedInTime
  <2> QED
    BY <1>0, <1>1, <1>3, <2>1, RenewedKept
<1>4. CASE HearStart
  BY <1>0, <1>4 DEF HearStart, Renewed
<1>5. CASE EmitterRestarts \/ Adapter \/ UNCHANGED sdvars
  <2>1. UNCHANGED <<callbacks, starts, due, live, registers>> /\ (told' = told \/ told' = FALSE)
    BY <1>5 DEF EmitterRestarts, Adapter, Query, GetIPs, GetRefused, GetFails, sdvars, busvars, emitvars
  <2> QED
    BY <1>3, <2>1
<1>6. ASSUME NEW x \in Endpoints, Emit(x) \/ Start(x) PROVE Renewed(e)'
  <2>1. /\ UNCHANGED <<callbacks, starts, told>> /\ live' \subseteq live \cup {x}
        /\ registers' = Publish(registers, x, "register") /\ due' = [due EXCEPT ![x] = 0]
    BY <1>6 DEF Emit, Start
  <2>2. x \in Messages
    BY DEF Messages
  <2>3. CASE e # x
    <3>1. e \in live /\ due'[e] = due[e]
      BY <1>0, <2>1, <2>3
    <3>2. Waits(e, registers) => Waits(e, registers')
      BY <1>0, <2>1, <2>2, WaitsPublished
    <3> QED
      BY <1>3, <2>1, <3>1, <3>2
  <2>4. CASE e = x /\ Past("register")
    <3>1. Waits(e, registers')
      BY <1>0, <1>2, <2>1, <2>2, <2>4, WaitsPublished
    <3>2. Waits(e, registers)'
      BY <3>1 DEF Waits
    <3> QED
      BY <3>2 DEF Renewed
  <2>5. CASE e = x /\ ~Past("register")
    <3>1. stage' \in Early
      BY <1>0, <1>2, <2>5, PastFacts DEF PruneInv, Shut, Early, StageNames
    <3>2. \A h \in Hosts : addresses'[h] = {}
      BY <3>1 DEF Empty
    <3>3. Young(e, due[e])'
      BY <2>5, <3>2, HostsOf DEF Young, FqdnsOf
    <3> QED
      BY <3>3 DEF Renewed
  <2> QED
    BY <2>3, <2>4, <2>5
<1>7. ASSUME NEW x \in Endpoints, Stop(x) PROVE Renewed(e)'
  <2>1. UNCHANGED <<callbacks, starts, told, due, registers>> /\ live' \subseteq live
    BY <1>7 DEF Stop
  <2> QED
    BY <1>3, <2>1
<1>8. ASSUME NEW m \in Malformed, PublishMalformed(m) PROVE Renewed(e)'
  <2>1. /\ UNCHANGED <<callbacks, starts, told, due, live>>
        /\ registers' = registers \/ registers' = Publish(registers, m, "register")
    BY <1>8 DEF PublishMalformed, emitvars
  <2>2. m \in Messages
    BY DEF Messages
  <2>3. Waits(e, registers) => Waits(e, registers')
    BY <1>0, <2>1, <2>2, WaitsPublished
  <2> QED
    BY <1>3, <2>1, <2>3
<1> QED
  BY <1>4, <1>5, <1>6, <1>7, <1>8 DEF Emitters

LEMMA RenewedNext ==
  ASSUME PruneInv, [Next]_sdvars
  PROVE  RenewedInTime'
<1>0. Inv' /\ Empty' /\ Shut'
  BY InvNext, EmptyNext, ShutNext DEF PruneInv
<1> SUFFICES ASSUME conn' = TRUE, NEW e \in live' PROVE Renewed(e)'
  BY DEF RenewedInTime
<1>1. CASE Tick
  <2>1. conn = TRUE /\ e \in live
    BY <1>1 DEF Tick
  <2>2. Young(e, due[e])'
    BY <1>1, <2>1, YoungAfterTick
  <2> QED
    BY <2>2 DEF Renewed
<1>2. CASE Bus \/ Faults \/ PruneStep
  BY <1>0, <1>2, RenewedBus
<1>3. CASE Emitters \/ Adapter \/ UNCHANGED sdvars
  BY <1>0, <1>3, RenewedEmitters
<1> QED
  BY <1>1, <1>2, <1>3, InstantOrTick DEF Instant

\* A step that takes no time lets the goroutine prune only if it might before.
LEMMA PruneModeBefore ==
  ASSUME TableTypeOK, Instant, PruneMode'
  PROVE  Restart \/ PruneMode
<1>0. sinceResume \in Nat /\ pc \in {"wait", "scan", "prune"}
  BY DEF TableTypeOK
<1>1. ASSUME UNCHANGED <<paused, sinceResume, pc>> PROVE PruneMode
  BY <1>1 DEF PruneMode
<1>2. CASE PruneStep
  <2>1. CASE PruneCheck
    <3>1. UNCHANGED <<paused, sinceResume>> /\ pc = "wait"
      BY <2>1 DEF PruneCheck
    <3>2. pc' # "wait" => paused = FALSE /\ sinceResume >= ResumeDelay
      BY <2>1 DEF PruneCheck, MayPrune
    <3> QED
      BY <1>0, <3>1, <3>2, TimingAssumption DEF PruneMode
  <2>2. CASE PruneScan
    BY <2>2 DEF PruneScan, PruneMode
  <2>3. CASE PruneDelete
    BY <2>3 DEF PruneDelete, PruneMode
  <2> QED
    BY <1>2, <2>1, <2>2, <2>3 DEF PruneStep, Prune
<1>3. CASE Bus
  <2>1. CASE Connect \/ Assign \/ SendStart \/ Subscribe \/ Ready \/ Reconnect \/ GreetHandler
    BY <1>1, <2>1 DEF Connect, Assign, SendStart, Subscribe, Ready, Reconnect, GreetHandler, tablevars
  <2>2. CASE WarmUp \/ RegisterHandler \/ UnregisterHandler
    BY <1>1, <2>2 DEF WarmUp, RegisterHandler, UnregisterHandler, SetWarm, Add,
                      Remove, tablevars
  <2>3. CASE DisconnectHandler \/ ReconnectHandler
    <3>1. (paused' = TRUE \/ sinceResume' = 0) /\ pc' = pc
      BY <2>3 DEF DisconnectHandler, ReconnectHandler, PausePruning, ResumePruning
    <3> QED
      BY <3>1 DEF PruneMode
  <2> QED
    BY <1>3, <2>1, <2>2, <2>3 DEF Bus
<1>4. CASE Faults
  <2>1. CASE Crash \/ Exit \/ ReconnectHandlerPanics
    BY <2>1 DEF Crash, Exit, ReconnectHandlerPanics
  <2>2. CASE CloseSubscriber \/ ShutdownTable \/ Disconnect
    BY <1>1, <2>2 DEF CloseSubscriber, ShutdownTable, Disconnect, Shutdown, tablevars
  <2> QED
    BY <1>4, <2>1, <2>2 DEF Faults
<1>5. CASE Emitters
  BY <1>1, <1>5 DEF Emitters, HearStart, EmitterRestarts, Emit, Start, Stop, PublishMalformed, tablevars
<1>6. CASE Adapter \/ UNCHANGED sdvars
  BY <1>1, <1>6 DEF Adapter, Query, GetIPs, GetRefused, GetFails, sdvars, tablevars
<1> QED
  BY <1>2, <1>3, <1>4, <1>5, <1>6 DEF Instant

\* An instance that has run for a while did so before a step that takes no time.
LEMMA LiveBefore ==
  ASSUME EmitTypes, Instant, NEW e \in live', liveFor'[e] > 0
  PROVE  e \in live /\ liveFor'[e] = liveFor[e]
<1>0. live \subseteq Endpoints /\ liveFor \in [Endpoints -> 0..(Interval + 1)]
  BY DEF EmitTypes
<1>1. CASE UNCHANGED emitvars
  BY <1>1 DEF emitvars
<1>2. CASE GreetHandler \/ HearStart \/ EmitterRestarts
  BY <1>2 DEF GreetHandler, HearStart, EmitterRestarts
<1>3. ASSUME NEW x \in Endpoints, Emit(x) \/ Stop(x) PROVE e \in live /\ liveFor'[e] = liveFor[e]
  BY <1>3 DEF Emit, Stop
<1>4. ASSUME NEW x \in Endpoints, Start(x) PROVE e \in live /\ liveFor'[e] = liveFor[e]
  <2>1. live' = live \cup {x} /\ liveFor' = [liveFor EXCEPT ![x] = 0]
    BY <1>4 DEF Start
  <2>2. e # x
    BY <1>0, <2>1
  <2> QED
    BY <1>0, <2>1, <2>2
<1>5. CASE \E m \in Malformed : PublishMalformed(m)
  BY <1>1, <1>5 DEF PublishMalformed
<1>6. CASE PruneStep \/ Adapter \/ UNCHANGED sdvars
  BY <1>1, <1>6 DEF PruneStep, Adapter, Query, GetIPs, GetRefused, GetFails, sdvars
<1>7. CASE Connect \/ Assign \/ SendStart \/ Subscribe \/ Ready \/ WarmUp \/ Reconnect
  BY <1>1, <1>7 DEF Connect, Assign, SendStart, Subscribe, Ready, WarmUp, Reconnect
<1>8. CASE DisconnectHandler \/ ReconnectHandler \/ RegisterHandler \/ UnregisterHandler
  BY <1>1, <1>8 DEF DisconnectHandler, ReconnectHandler, RegisterHandler, UnregisterHandler
<1>9. CASE Faults
  BY <1>1, <1>9 DEF Faults, Crash, Exit, ReconnectHandlerPanics, Restart, CloseSubscriber,
                    ShutdownTable, Disconnect
<1> QED
  BY <1>2, <1>3, <1>4, <1>5, <1>6, <1>7, <1>8, <1>9 DEF Instant, Bus, Emitters

LEMMA SafeNext ==
  ASSUME PruneInv, [Next]_sdvars
  PROVE  SafeToPrune'
<1>0. /\ Inv' /\ Empty' /\ Inv /\ TableTypeOK /\ TableTypeOK' /\ BusTypes /\ EmitTypes /\ Follows
      /\ Interval < Threshold /\ Interval \in Nat /\ Threshold \in Nat
  BY InvNext, EmptyNext, TimingAssumption DEF PruneInv, Inv
<1> SUFFICES ASSUME PruneMode', NEW e \in live', liveFor'[e] > 0
             PROVE  Young(e, Threshold)'
  BY DEF SafeToPrune, Young
<1>1. e \in Endpoints
  BY <1>0 DEF Inv, EmitTypes
<1>2. ASSUME stage' \in Early PROVE Young(e, Threshold)'
  <2>1. \A h \in Hosts : addresses'[h] = {}
    BY <1>0, <1>2 DEF Empty
  <2> QED
    BY <1>1, <2>1, HostsOf DEF Young, FqdnsOf
<1>3. CASE Tick
  <2>1. /\ e \in live /\ stage' = stage /\ callbacks = <<>> /\ pc = "wait" /\ pc' = pc
        /\ paused' = paused
    BY <1>3 DEF Tick, Prompt, TableTick
  <2>2. paused = FALSE
    BY <2>1 DEF PruneMode
  <2>3. CASE stage = "connect"
    BY <1>2, <2>1, <2>3 DEF Early
  <2>4. CASE stage # "connect"
    <3>1. conn = TRUE
      BY <1>0, <2>1, <2>2, <2>4 DEF Follows
    <3>2. due'[e] \in Nat /\ due'[e] <= Interval /\ Young(e, due[e])'
      BY <1>3, <2>1, <3>1, YoungAfterTick
    <3>3. PICK a \in Nat : a = due'[e]
      BY <3>2
    <3>4. Young(e, a)' /\ a <= Threshold
      BY <1>0, <3>2, <3>3 DEF Young
    <3> QED
      BY <1>0, <1>1, <3>4, YoungMonotone
  <2> QED
    BY <2>3, <2>4
<1>4. CASE Instant
  <2>1. CASE Restart
    BY <1>2, <2>1 DEF Restart, Early
  <2>2. CASE PruneMode
    <3>1. e \in live /\ liveFor[e] > 0
      BY <1>0, <1>4, LiveBefore
    <3>2. Young(e, Threshold)
      BY <2>2, <3>1 DEF PruneInv, SafeToPrune
    <3> QED
      BY <1>0, <1>1, <1>4, <3>2, YoungInstant
  <2> QED
    BY <1>0, <1>4, <2>1, <2>2, PruneModeBefore
<1> QED
  BY <1>3, <1>4, InstantOrTick

LEMMA PruneInvInit == Init => PruneInv
<1> SUFFICES ASSUME Init PROVE PruneInv
  OBVIOUS
<1>1. Inv
  BY InvInit
<1>2. Empty
  BY DEF Init, TableInit, Empty
<1>3. Shut /\ RenewedInTime /\ SafeToPrune
  BY DEF Init, Shut, RenewedInTime, SafeToPrune
<1> QED
  BY <1>1, <1>2, <1>3 DEF PruneInv

LEMMA PruneInvNext == PruneInv /\ [Next]_sdvars => PruneInv'
<1> SUFFICES ASSUME PruneInv, [Next]_sdvars PROVE PruneInv'
  OBVIOUS
<1>1. Inv' /\ Empty' /\ Shut'
  BY InvNext, EmptyNext, ShutNext DEF PruneInv
<1>2. RenewedInTime' /\ SafeToPrune'
  BY RenewedNext, SafeNext
<1> QED
  BY <1>1, <1>2 DEF PruneInv

\* Pruning keeps the fresh entries of an instance.
LEMMA PruneKeepsListed ==
  ASSUME TableTypeOK, PruneDelete, NEW e \in Endpoints, Young(e, Threshold), Listed(e)
  PROVE  Listed(e)'
<1> SUFFICES ASSUME NEW n \in e.names PROVE e.ip \in {x.ip : x \in addresses'[Fqdn[n]]}
  BY DEF Listed, Lookup
<1>1. PICK h \in Hosts : h = Fqdn[n]
  OBVIOUS
<1>2. PICK x \in addresses[h] : x.ip = e.ip
  BY <1>1 DEF Listed, Lookup
<1>3. x.age <= Threshold /\ x \in Entry
  BY <1>1, <1>2 DEF Young, FqdnsOf, TableTypeOK
<1>4. ~Stale(x)
  BY <1>3 DEF Stale, Entry, Ages
<1>5. x \in addresses'[h]
  BY <1>2, <1>4 DEF PruneDelete, Pruned
<1> QED
  BY <1>1, <1>2, <1>5

\* Pruning never takes an instance that has run for a tick, however many apps,
\* instances and hostnames there are, and through every loss of the connection,
\* restart of an emitter or of the controller, and loss of messages.
THEOREM LiveInstancesStay == Spec => LiveNotPruned
<1>1. ASSUME PruneInv, [Next]_sdvars
      PROVE  [PruneDelete =>
                \A e \in live : liveFor[e] > 0 /\ Listed(e) => Listed(e)']_sdvars
  <2> SUFFICES ASSUME PruneDelete, NEW e \in live, liveFor[e] > 0, Listed(e)
               PROVE  Listed(e)'
    OBVIOUS
  <2>1. TableTypeOK /\ e \in Endpoints
    BY <1>1 DEF PruneInv, Inv, EmitTypes
  <2>2. PruneMode
    BY DEF PruneDelete, PruneMode
  <2>3. Young(e, Threshold)
    BY <1>1, <2>2 DEF PruneInv, SafeToPrune
  <2> QED
    BY <2>1, <2>3, PruneKeepsListed
<1> QED
  BY <1>1, PruneInvInit, PruneInvNext, PTL DEF Spec, LiveNotPruned

---------------------------------------------------------------------------
(* Answers are complete *)

\* Instances that share an ip share no hostname: an unregister message of one
\* takes no entry of another.
OwnAddresses ==
  \A e, f \in Endpoints :
    e # f /\ e.ip = f.ip => FqdnsOf(e.names) \cap FqdnsOf(f.names) = {}

Steady ==
  /\ calm \in BOOLEAN
  /\ calm = TRUE /\ stage \notin {"connect", "closed", "shutdown"} => conn = TRUE

\* The table gets warm WarmDuration after RunOnce, and not before.
WarmLast ==
  /\ warm = TRUE => stage \in {"ready", "closed", "shutdown"} /\ (stage = "ready" => readyFor >= WarmDuration)
  /\ stage \notin {"ready", "closed", "shutdown"} => readyFor = 0

Named == dns.tries = 0 => dns.name = NoName

\* An instance whose unregister message waits does not run, or has just started
\* again.
Gone ==
  \A e \in Endpoints : Waits(e, unregisters) => e \notin live \/ liveFor[e] = 0

\* The instance has started, or warming has begun, within the last a ticks.
Late(e, a) == liveFor[e] <= a \/ readyFor <= a

\* The instance is in the table; or it is too early to miss it, and its next
\* registration waits or will be in time.
Known(e) == Listed(e) \/ (Late(e, Interval) /\ (Waits(e, registers) \/ Late(e, due[e])))

AllKnown == calm = TRUE /\ stage \notin {"closed", "shutdown"} => \A e \in live : Known(e)

AnswerInv == PruneInv /\ Steady /\ WarmLast /\ Named /\ Gone /\ AllKnown

LEMMA CalmCases ==
  ASSUME [Next]_sdvars
  PROVE  UNCHANGED calm \/ Disconnect \/ Restart
<1>1. CASE Tick \/ PruneStep \/ Adapter \/ UNCHANGED sdvars
  BY <1>1 DEF Tick, PruneStep, Adapter, Query, GetIPs, GetRefused, GetFails, sdvars, busvars
<1>2. CASE Connect \/ Assign \/ SendStart \/ Subscribe \/ Ready \/ Reconnect \/ GreetHandler
  BY <1>2 DEF Connect, Assign, SendStart, Subscribe, Ready, Reconnect, GreetHandler, busvars
<1>3. CASE WarmUp \/ DisconnectHandler \/ ReconnectHandler \/ RegisterHandler \/ UnregisterHandler
  BY <1>3 DEF WarmUp, DisconnectHandler, ReconnectHandler, RegisterHandler, UnregisterHandler,
              busvars
<1>4. CASE Crash \/ Exit \/ ReconnectHandlerPanics \/ CloseSubscriber \/ ShutdownTable
  BY <1>4 DEF Crash, Exit, ReconnectHandlerPanics, CloseSubscriber, ShutdownTable
<1>5. CASE Emitters
  BY <1>5 DEF Emitters, HearStart, EmitterRestarts, Emit, Start, Stop, PublishMalformed, busvars
<1> QED
  BY <1>1, <1>2, <1>3, <1>4, <1>5 DEF Next, Bus, Faults

LEMMA SteadyNext ==
  ASSUME Steady, [Next]_sdvars
  PROVE  Steady'
<1>1. CASE Restart \/ Disconnect
  BY <1>1 DEF Restart, Disconnect, Steady
<1>2. CASE UNCHANGED calm
  <2>1. CASE Quiet \/ Connect \/ Assign \/ SendStart \/ Ready \/ CloseSubscriber \/ ShutdownTable
    BY <1>2, <2>1 DEF Quiet, Connect, Assign, SendStart, Ready, CloseSubscriber, ShutdownTable, Steady
  <2>2. CASE Subscribe
    BY <1>2, <2>2 DEF Subscribe, Steady
  <2>3. CASE Reconnect \/ DisconnectHandler \/ ReconnectHandler
    BY <1>2, <2>3 DEF Reconnect, DisconnectHandler, ReconnectHandler, Steady
  <2> QED
    BY <1>1, <2>1, <2>2, <2>3, ConnectionCases
<1> QED
  BY <1>1, <1>2, CalmCases

LEMMA WarmInstant ==
  ASSUME Instant
  PROVE  UNCHANGED <<warm, readyFor>> \/ WarmUp \/ Restart
<1>1. CASE PruneStep
  BY <1>1 DEF PruneStep, Prune, PruneCheck, PruneScan, PruneDelete, busvars
<1>2. CASE Adapter \/ UNCHANGED sdvars
  BY <1>2 DEF Adapter, Query, GetIPs, GetRefused, GetFails, sdvars, busvars, tablevars
<1>3. CASE Connect \/ Assign \/ SendStart \/ Subscribe \/ Ready \/ Reconnect \/ GreetHandler
  BY <1>3 DEF Connect, Assign, SendStart, Subscribe, Ready, Reconnect, GreetHandler, busvars, tablevars
<1>4. CASE DisconnectHandler \/ ReconnectHandler
  BY <1>4 DEF DisconnectHandler, ReconnectHandler, PausePruning, ResumePruning
<1>5. CASE RegisterHandler \/ UnregisterHandler
  BY <1>5 DEF RegisterHandler, UnregisterHandler, Add, Remove, tablevars
<1>6. CASE Crash \/ Exit \/ ReconnectHandlerPanics
  BY <1>6 DEF Crash, Exit, ReconnectHandlerPanics
<1>7. CASE CloseSubscriber \/ ShutdownTable \/ Disconnect
  BY <1>7 DEF CloseSubscriber, ShutdownTable, Disconnect, Shutdown, tablevars
<1>8. CASE Emitters
  BY <1>8 DEF Emitters, HearStart, EmitterRestarts, Emit, Start, Stop, PublishMalformed, busvars,
              tablevars
<1> QED
  BY <1>1, <1>2, <1>3, <1>4, <1>5, <1>6, <1>7, <1>8 DEF Instant, Bus, Faults

LEMMA WarmCases ==
  ASSUME [Next]_sdvars
  PROVE  UNCHANGED <<warm, readyFor>> \/ Tick \/ WarmUp \/ Restart
BY WarmInstant, InstantOrTick

LEMMA WarmNext ==
  ASSUME BusTypes, WarmLast, [Next]_sdvars
  PROVE  WarmLast'
<1>1. CASE Restart
  <2>1. warm' = FALSE /\ readyFor' = 0
    BY <1>1 DEF Restart
  <2> QED
    BY <2>1 DEF WarmLast
<1>2. CASE Tick
  <2>1. /\ UNCHANGED <<stage, warm>> /\ (stage # "ready" => readyFor' = readyFor)
        /\ (readyFor >= WarmDuration => readyFor' >= WarmDuration)
    BY <1>2, ServiceDiscoveryAssumption DEF Tick, TableTick, BusTypes
  <2> QED
    BY <2>1 DEF WarmLast
<1>3. CASE WarmUp
  <2>1. UNCHANGED <<stage, readyFor>> /\ stage = "ready" /\ readyFor >= WarmDuration
    BY <1>3 DEF WarmUp, Warmed, busvars
  <2> QED
    BY <2>1 DEF WarmLast
<1>4. CASE UNCHANGED <<warm, readyFor>>
  <2>1. CASE UNCHANGED stage
    BY <1>4, <2>1 DEF WarmLast
  <2>2. CASE Connect \/ Assign \/ SendStart \/ Ready \/ CloseSubscriber \/ ShutdownTable
    BY <1>4, <2>2 DEF Connect, Assign, SendStart, Ready, CloseSubscriber, ShutdownTable, WarmLast
  <2>3. CASE Subscribe
    BY <1>4, <2>3, StageFacts DEF Subscribe, WarmLast
  <2>4. CASE Quiet \/ Disconnect \/ Reconnect \/ DisconnectHandler \/ ReconnectHandler
    BY <2>1, <2>4 DEF Quiet, Disconnect, Reconnect, DisconnectHandler, ReconnectHandler
  <2> QED
    BY <1>1, <2>2, <2>3, <2>4, ConnectionCases
<1> QED
  BY <1>1, <1>2, <1>3, <1>4, WarmCases

LEMMA DnsCases ==
  ASSUME [Next]_sdvars
  PROVE  UNCHANGED dns \/ Adapter
<1>1. CASE Tick \/ PruneStep \/ UNCHANGED sdvars
  BY <1>1 DEF Tick, PruneStep, sdvars
<1>2. CASE Connect \/ Assign \/ SendStart \/ Subscribe \/ Ready \/ WarmUp \/ Reconnect
  BY <1>2 DEF Connect, Assign, SendStart, Subscribe, Ready, WarmUp, Reconnect
<1>3. CASE DisconnectHandler \/ ReconnectHandler \/ RegisterHandler \/ UnregisterHandler \/ GreetHandler
  BY <1>3 DEF DisconnectHandler, ReconnectHandler, RegisterHandler, UnregisterHandler, GreetHandler
<1>4. CASE Faults
  BY <1>4 DEF Faults, Crash, Exit, ReconnectHandlerPanics, Restart, CloseSubscriber, ShutdownTable,
              Disconnect
<1>5. CASE Emitters
  BY <1>5 DEF Emitters, HearStart, EmitterRestarts, Emit, Start, Stop, PublishMalformed
<1> QED
  BY <1>1, <1>2, <1>3, <1>4, <1>5 DEF Next, Bus

LEMMA NamedNext ==
  ASSUME DnsTypes, Named, [Next]_sdvars
  PROVE  Named'
<1>1. CASE UNCHANGED dns
  BY <1>1 DEF Named
<1>2. CASE dns' = NoQuery
  BY <1>2 DEF Named, NoQuery
<1>3. ASSUME NEW ips, dns' = Reply("success", ips) PROVE Named'
  BY <1>3, ReplyIs DEF Named
<1>4. CASE GetRefused
  <2>1. CASE dns' = NoQuery
    BY <1>2, <2>1
  <2>2. CASE dns' # NoQuery
    <3>1. dns' = [dns EXCEPT !.tries = @ + 1] /\ dns.tries > 0
      BY <1>4, <2>2 DEF GetRefused
    <3>2. dns'.tries = dns.tries + 1 /\ dns.tries \in Nat
      BY <3>1 DEF DnsTypes
    <3> QED
      BY <3>1, <3>2 DEF Named
  <2> QED
    BY <2>1, <2>2
<1>5. CASE GetIPs \/ GetFails
  BY <1>2, <1>3, <1>5 DEF GetIPs, GetFails
<1>6. ASSUME NEW name, NEW type, Query(name, type) PROVE Named'
  <2>1. CASE dns' = NoQuery \/ dns' = Reply("success", {})
    BY <1>2, <1>3, <2>1
  <2>2. CASE dns' = [NoQuery EXCEPT !.name = name, !.tries = 1]
    BY <2>2 DEF NoQuery, Named
  <2> QED
    BY <1>6, <2>1, <2>2 DEF Query
<1> QED
  BY <1>1, <1>4, <1>5, <1>6, DnsCases DEF Adapter

\* An unregister message of an instance is published when the instance stops.
LEMMA UnregistersBefore ==
  ASSUME BusTypes, [Next]_sdvars, NEW e \in Endpoints, Waits(e, unregisters')
  PROVE  Waits(e, unregisters) \/ Stop(e)
<1>0. unregisters \in Seq(Messages) /\ e \in Messages
  BY DEF BusTypes, Messages
<1>1. CASE UNCHANGED unregisters
  BY <1>1
<1>2. CASE unregisters' = <<>>
  BY <1>2 DEF Waits
<1>3. CASE UnregisterHandler
  BY <1>0, <1>3, WaitsFacts DEF UnregisterHandler
<1>4. ASSUME NEW x \in Endpoints, Stop(x) PROVE Waits(e, unregisters) \/ Stop(e)
  <2>1. unregisters' = Publish(unregisters, x, "unregister") /\ x \in Messages
    BY <1>4 DEF Stop, Messages
  <2>2. Waits(e, unregisters) \/ e = x
    BY <1>0, <2>1, WaitsPublished
  <2> QED
    BY <1>4, <2>2
<1>5. ASSUME NEW m \in Malformed, PublishMalformed(m) PROVE Waits(e, unregisters)
  <2>1. e # m /\ m \in Messages
    BY DEF Messages
  <2>2. unregisters' = unregisters \/ unregisters' = Publish(unregisters, m, "unregister")
    BY <1>5 DEF PublishMalformed
  <2> QED
    BY <1>0, <2>1, <2>2, WaitsPublished
<1>6. CASE Tick \/ PruneStep \/ Adapter \/ UNCHANGED sdvars
  BY <1>1, <1>6 DEF Tick, PruneStep, Adapter, Query, GetIPs, GetRefused, GetFails, sdvars, busvars
<1>7. CASE Connect \/ Assign \/ SendStart \/ Subscribe \/ Ready \/ Reconnect \/ GreetHandler
  BY <1>1, <1>7 DEF Connect, Assign, SendStart, Subscribe, Ready, Reconnect, GreetHandler, busvars
<1>8. CASE WarmUp \/ DisconnectHandler \/ ReconnectHandler \/ ShutdownTable \/ RegisterHandler
  BY <1>1, <1>8 DEF WarmUp, DisconnectHandler, ReconnectHandler, ShutdownTable, RegisterHandler,
                    busvars
<1>9. CASE Crash \/ Exit \/ ReconnectHandlerPanics \/ CloseSubscriber \/ Disconnect
  BY <1>2, <1>9 DEF Crash, Exit, ReconnectHandlerPanics, Restart, CloseSubscriber, Disconnect
<1>10. CASE HearStart \/ EmitterRestarts \/ \E x \in Endpoints : Emit(x) \/ Start(x)
  BY <1>1, <1>10 DEF HearStart, EmitterRestarts, Emit, Start, busvars
<1> QED
  BY <1>3, <1>4, <1>5, <1>6, <1>7, <1>8, <1>9, <1>10 DEF Next, Bus, Faults, Emitters

LEMMA GoneNext ==
  ASSUME Inv, Inv', Gone, [Next]_sdvars
  PROVE  Gone'
<1>0. BusTypes /\ EmitTypes /\ EmitTypes'
  BY DEF Inv
<1> SUFFICES ASSUME NEW e \in Endpoints, Waits(e, unregisters'), e \in live', liveFor'[e] # 0
             PROVE  FALSE
  BY DEF Gone, Waits
<1>1. liveFor'[e] > 0
  BY <1>0 DEF EmitTypes
<1>2. CASE Tick
  BY <1>2 DEF Tick, Prompt, Waits
<1>3. CASE Instant
  <2>1. e \in live /\ liveFor[e] > 0
    BY <1>0, <1>1, <1>3, LiveBefore
  <2>2. ~Waits(e, unregisters)
    BY <2>1 DEF Gone
  <2>3. ~Stop(e)
    BY DEF Stop
  <2> QED
    BY <1>0, <2>2, <2>3, UnregistersBefore
<1> QED
  BY <1>2, <1>3, InstantOrTick

---------------------------------------------------------------------------
(* Which steps keep an instance in the table *)

LEMMA ListedIff ==
  ASSUME NEW e \in Endpoints
  PROVE  /\ Listed(e) <=> \A h \in FqdnsOf(e.names) : \E x \in addresses[h] : x.ip = e.ip
         /\ Listed(e)' <=> \A h \in FqdnsOf(e.names) : \E x \in addresses'[h] : x.ip = e.ip
BY DEF Listed, Lookup, FqdnsOf

LEMMA ListedTick ==
  ASSUME TableTypeOK, TableTick, NEW e \in Endpoints, Listed(e)
  PROVE  Listed(e)'
<1> SUFFICES ASSUME NEW h \in FqdnsOf(e.names) PROVE \E x \in addresses'[h] : x.ip = e.ip
  BY ListedIff
<1>1. PICK x \in addresses[h] : x.ip = e.ip
  BY ListedIff
<1>2. h \in Hosts /\ x \in Entry
  BY HostsOf DEF TableTypeOK
<1>3. Older(x) \in addresses'[h]
  BY <1>2 DEF TableTick
<1>4. Older(x).ip = x.ip
  BY <1>2 DEF Older, Entry
<1> QED
  BY <1>1, <1>3, <1>4

LEMMA RegisteredIps ==
  ASSUME NEW es \in SUBSET Entry, NEW ip
  PROVE  /\ \E x \in Registered(es, ip) : x.ip = ip
         /\ \A y \in es : \E x \in Registered(es, ip) : x.ip = y.ip
<1>1. CASE \E y \in es : y.ip = ip
  <2>1. ASSUME NEW y \in es PROVE \E x \in Registered(es, ip) : x.ip = y.ip
    <3>1. PICK x : x = IF y.ip = ip THEN [y EXCEPT !.age = 0] ELSE y
      OBVIOUS
    <3>2. x \in Registered(es, ip)
      BY <1>1, <3>1 DEF Registered
    <3>3. x.ip = y.ip
      BY <3>1 DEF Entry
    <3> QED
      BY <3>2, <3>3
  <2> QED
    BY <1>1, <2>1
<1>2. CASE ~\E y \in es : y.ip = ip
  <2>1. PICK n : n = [ip |-> ip, age |-> 0]
    OBVIOUS
  <2>2. Registered(es, ip) = es \cup {n} /\ n.ip = ip
    BY <1>2, <2>1 DEF Registered
  <2> QED
    BY <2>2
<1> QED
  BY <1>1, <1>2

LEMMA ListedRegister ==
  ASSUME TableTypeOK, RegisterHandler, NEW e \in Endpoints, Listed(e) \/ e = Head(registers)
  PROVE  Listed(e)'
<1>1. PICK m : m = Head(registers)
  OBVIOUS
<1>2. CASE UNCHANGED tablevars /\ Listed(e)
  BY <1>2, ListedIff DEF tablevars
<1>3. CASE Add(m.names, m.ip)
  <2> SUFFICES ASSUME NEW h \in FqdnsOf(e.names) PROVE \E x \in addresses'[h] : x.ip = e.ip
    BY ListedIff
  <2>1. h \in Hosts
    BY HostsOf
  <2>2. PICK es \in SUBSET Entry : es = addresses[h]
    BY <2>1 DEF TableTypeOK
  <2>3. addresses'[h] = IF h \in FqdnsOf(m.names) THEN Registered(es, m.ip) ELSE es
    BY <1>3, <2>1, <2>2 DEF Add
  <2>4. CASE Listed(e)
    <3>1. PICK y \in es : y.ip = e.ip
      BY <2>2, <2>4, ListedIff
    <3>2. \E x \in Registered(es, m.ip) : x.ip = y.ip
      BY RegisteredIps
    <3> QED
      BY <2>3, <3>1, <3>2
  <2>5. CASE e = m
    BY <2>3, <2>5, RegisteredIps
  <2> QED
    BY <1>1, <2>4, <2>5
<1>4. e = m => e.ip \in IPs /\ e.names # {}
  OBVIOUS
<1>5. UNCHANGED tablevars \/ Add(m.names, m.ip)
  BY <1>1 DEF RegisterHandler
<1>6. e = m => Add(m.names, m.ip)
  BY <1>1, <1>4 DEF RegisterHandler
<1> QED
  BY <1>1, <1>2, <1>3, <1>5, <1>6

LEMMA ListedUnregister ==
  ASSUME OwnAddresses, BusTypes, TableTypeOK, UnregisterHandler, NEW e \in Endpoints, Listed(e),
         ~Waits(e, unregisters)
  PROVE  Listed(e)'
<1>0. unregisters \in Seq(Messages) /\ unregisters # <<>> /\ e \in Messages
  BY DEF BusTypes, UnregisterHandler, Messages
<1>1. PICK m : m = Head(unregisters)
  OBVIOUS
<1>2. m \in Messages /\ Waits(m, unregisters)
  BY <1>0, <1>1, QueueFacts, WaitsFacts
<1>3. m # e
  BY <1>2
<1>4. CASE UNCHANGED tablevars
  BY <1>4, ListedIff DEF tablevars
<1>5. CASE Remove(m.names, m.ip)
  <2> SUFFICES ASSUME NEW h \in FqdnsOf(e.names) PROVE \E x \in addresses'[h] : x.ip = e.ip
    BY ListedIff
  <2>1. h \in Hosts
    BY HostsOf
  <2>2. PICK x \in addresses[h] : x.ip = e.ip
    BY ListedIff
  <2>3. h \notin FqdnsOf(m.names) \/ m.ip # e.ip
    <3>1. CASE m \in Malformed
      BY <3>1
    <3>2. CASE m \in Endpoints
      BY <1>3, <3>2 DEF OwnAddresses
    <3> QED
      BY <1>2, <3>1, <3>2 DEF Messages
  <2>4. x \in addresses'[h]
    BY <1>5, <2>1, <2>2, <2>3 DEF Remove, Without
  <2> QED
    BY <2>2, <2>4
<1> QED
  BY <1>1, <1>4, <1>5 DEF UnregisterHandler

LEMMA ListedInstant ==
  ASSUME OwnAddresses, AnswerInv, Instant, ~Restart, NEW e \in live, liveFor[e] > 0, Listed(e)
  PROVE  Listed(e)'
<1>0. TableTypeOK /\ BusTypes /\ e \in Endpoints
  BY DEF AnswerInv, PruneInv, Inv, EmitTypes
<1>1. CASE UNCHANGED addresses
  BY <1>0, <1>1, ListedIff
<1>2. CASE RegisterHandler
  BY <1>0, <1>2, ListedRegister
<1>3. CASE UnregisterHandler
  <2>1. ~Waits(e, unregisters)
    BY <1>0 DEF AnswerInv, Gone
  <2> QED
    BY <1>0, <1>3, <2>1, ListedUnregister
<1>4. CASE PruneDelete
  <2>1. PruneMode
    BY <1>4 DEF PruneDelete, PruneMode
  <2>2. Young(e, Threshold)
    BY <2>1 DEF AnswerInv, PruneInv, SafeToPrune
  <2> QED
    BY <1>0, <1>4, <2>2, PruneKeepsListed
<1> QED
  BY <1>1, <1>2, <1>3, <1>4, InstantEntries

---------------------------------------------------------------------------
(* Every instance is known in time *)

LEMMA DueCases ==
  ASSUME EmitTypes, Instant, NEW e \in Endpoints
  PROVE  due'[e] = due[e] \/ due'[e] = Interval \/ Emit(e) \/ Start(e)
<1>0. due \in [Endpoints -> 0..Interval]
  BY DEF EmitTypes
<1>1. CASE UNCHANGED due
  BY <1>1
<1>2. CASE GreetHandler \/ HearStart
  BY <1>2 DEF GreetHandler, HearStart
<1>3. ASSUME NEW x \in Endpoints, Emit(x) \/ Start(x)
      PROVE  due'[e] = due[e] \/ Emit(e) \/ Start(e)
  <2>1. due' = [due EXCEPT ![x] = 0]
    BY <1>3 DEF Emit, Start
  <2>2. CASE x = e
    BY <1>3, <2>2
  <2>3. CASE x # e
    BY <1>0, <2>1, <2>3
  <2> QED
    BY <2>2, <2>3
<1>4. CASE EmitterRestarts \/ \E x \in Endpoints : Stop(x)
  BY <1>1, <1>4 DEF EmitterRestarts, Stop
<1>5. CASE \E m \in Malformed : PublishMalformed(m)
  BY <1>1, <1>5 DEF PublishMalformed, emitvars
<1>6. CASE PruneStep \/ Adapter \/ UNCHANGED sdvars
  BY <1>1, <1>6 DEF PruneStep, Adapter, Query, GetIPs, GetRefused, GetFails, sdvars, emitvars
<1>7. CASE Connect \/ Assign \/ SendStart \/ Subscribe \/ Ready \/ WarmUp \/ Reconnect
  BY <1>1, <1>7 DEF Connect, Assign, SendStart, Subscribe, Ready, WarmUp, Reconnect, emitvars
<1>8. CASE DisconnectHandler \/ ReconnectHandler \/ RegisterHandler \/ UnregisterHandler
  BY <1>1, <1>8 DEF DisconnectHandler, ReconnectHandler, RegisterHandler, UnregisterHandler, emitvars
<1>9. CASE Faults
  BY <1>1, <1>9 DEF Faults, Crash, Exit, ReconnectHandlerPanics, Restart, CloseSubscriber,
                    ShutdownTable, Disconnect, emitvars
<1> QED
  BY <1>2, <1>3, <1>4, <1>5, <1>6, <1>7, <1>8, <1>9 DEF Instant, Bus, Emitters

LEMMA ReadyBefore ==
  ASSUME [Next]_sdvars, stage' = "ready"
  PROVE  Ready \/ stage = "ready"
<1>1. CASE Quiet \/ Connect \/ Assign \/ SendStart \/ CloseSubscriber \/ ShutdownTable \/ Restart
  BY <1>1 DEF Quiet, Connect, Assign, SendStart, CloseSubscriber, ShutdownTable, Restart
<1>2. CASE Subscribe
  BY <1>2, StageFacts DEF Subscribe
<1>3. CASE Disconnect \/ Reconnect \/ DisconnectHandler \/ ReconnectHandler
  BY <1>3 DEF Disconnect, Reconnect, DisconnectHandler, ReconnectHandler
<1> QED
  BY <1>1, <1>2, <1>3, ConnectionCases

\* Time passes: the next registration is a tick nearer.
LEMMA KnownTick ==
  ASSUME AnswerInv, Tick, stage = "ready", calm = TRUE, NEW e \in live
  PROVE  Known(e)'
<1>0. /\ TableTypeOK /\ BusTypes /\ EmitTypes /\ e \in Endpoints /\ stage \in StageNames
      /\ Interval \in Nat /\ readyFor \in Nat
      /\ due[e] \in 0..Interval /\ liveFor[e] \in Nat
  BY DEF AnswerInv, PruneInv, Inv, EmitTypes, BusTypes
<1>1. conn = TRUE /\ Known(e)
  BY DEF AnswerInv, Steady, AllKnown
<1>2. Past("greet")
  BY <1>0, PastFacts
<1>3. registers = <<>> /\ told # FALSE
  BY <1>1, <1>2 DEF Tick, Prompt
<1>4. told \in BOOLEAN
  BY <1>0 DEF EmitTypes
<1>5. due[e] # Interval
  BY <1>3, <1>4 DEF Tick, Prompt
<1>5a. ~Waits(e, registers)
  BY <1>3 DEF Waits
<1>6. CASE Listed(e)
  <2>1. TableTick
    BY DEF Tick
  <2>2. Listed(e)'
    BY <1>0, <1>6, <2>1, ListedTick
  <2> QED
    BY <2>2 DEF Known
<1>7. CASE ~Listed(e)
  <2>1. liveFor[e] <= due[e] \/ readyFor <= due[e]
    BY <1>1, <1>5a, <1>7 DEF Known, Late
  <2>2. due'[e] = due[e] + 1 /\ due'[e] <= Interval
    <3>1. due' = [x \in Endpoints |-> IF due[x] < Interval THEN due[x] + 1 ELSE due[x]]
      BY DEF Tick
    <3> QED
      BY <1>0, <1>5, <3>1
  <2>3. liveFor'[e] \in Nat /\ liveFor'[e] <= liveFor[e] + 1
    <3>1. liveFor' = [x \in Endpoints |-> IF x \in live /\ liveFor[x] <= Interval
                                          THEN liveFor[x] + 1 ELSE liveFor[x]]
      BY DEF Tick
    <3> QED
      BY <1>0, <3>1
  <2>4. readyFor' \in Nat /\ readyFor' <= readyFor + 1
    <3>1. readyFor' = readyFor \/ readyFor' = readyFor + 1
      BY DEF Tick
    <3> QED
      BY <1>0, <3>1
  <2>5. ASSUME NEW l \in Nat, NEW d \in Nat, NEW w \in Nat, NEW l1 \in Nat, NEW d1 \in Nat,
               NEW w1 \in Nat, l <= d \/ w <= d,
               l1 <= l + 1, d1 = d + 1, w1 <= w + 1, d1 <= Interval
        PROVE  /\ l1 <= d1 \/ w1 <= d1
               /\ l1 <= Interval \/ w1 <= Interval
    BY <2>5
  <2>6. /\ liveFor'[e] <= due'[e] \/ readyFor' <= due'[e]
        /\ liveFor'[e] <= Interval \/ readyFor' <= Interval
    <3>1. due[e] \in Nat /\ due'[e] \in Nat
      BY <1>0, <2>2
    <3> QED
      BY <1>0, <2>1, <2>2, <2>3, <2>4, <2>5, <3>1
  <2> QED
    BY <2>6 DEF Known, Late
<1> QED
  BY <1>6, <1>7

\* A step that takes no time, of a subscriber that is ready.
LEMMA KnownInstant ==
  ASSUME OwnAddresses, AnswerInv, Inv', Instant, ~Restart, stage = "ready", calm = TRUE,
         conn' = TRUE, NEW e \in live'
  PROVE  Known(e)'
<1>0. /\ TableTypeOK /\ BusTypes /\ EmitTypes /\ EmitTypes' /\ stage \in StageNames
      /\ registers \in Seq(Messages)
      /\ Interval \in Nat /\ readyFor \in Nat
  BY DEF AnswerInv, PruneInv, Inv, BusTypes
<1>1. [Next]_sdvars
  BY DEF Instant, Next
<1>2. /\ e \in Endpoints /\ liveFor'[e] \in Nat /\ due'[e] \in Nat /\ readyFor' \in Nat
      /\ e \in Messages
  BY <1>0 DEF Inv, EmitTypes, BusTypes, Messages
<1>3. CASE liveFor'[e] = 0
  BY <1>0, <1>2, <1>3 DEF Known, Late
<1>4. CASE liveFor'[e] # 0
  <2>1. e \in live /\ liveFor'[e] = liveFor[e] /\ liveFor[e] > 0
    BY <1>0, <1>2, <1>4, LiveBefore
  <2>2. Known(e) /\ conn = TRUE
    BY <2>1 DEF AnswerInv, AllKnown, Steady
  <2>3. CASE Listed(e)
    BY <2>1, <2>3, ListedInstant DEF Known
  <2>4. CASE ~Listed(e)
    <3>1. liveFor[e] <= Interval \/ readyFor <= Interval
      BY <2>2, <2>4 DEF Known, Late
    <3>2. readyFor' = readyFor
      BY WarmInstant DEF WarmUp, busvars
    <3>3. Late(e, Interval)'
      BY <2>1, <3>1, <3>2 DEF Late
    <3>4. CASE Waits(e, registers)
      <4>1. CASE RegisterHandler /\ e = Head(registers)
        BY <1>0, <1>2, <4>1, ListedRegister DEF Known
      <4>2. CASE RegisterHandler /\ e # Head(registers)
        <5>1. Waits(e, registers')
          BY <1>0, <1>2, <3>4, <4>2, WaitsFacts DEF RegisterHandler
        <5>2. Waits(e, registers)'
          BY <5>1 DEF Waits
        <5> QED
          BY <3>3, <5>2 DEF Known
      <4>3. CASE ~RegisterHandler
        <5>1. UNCHANGED registers \/ \E m \in Messages : registers' = Append(registers, m)
          BY <1>1, <4>3, RegistersCases
        <5>2. \A m \in Messages : Waits(e, Append(registers, m))
          BY <1>0, <3>4, WaitsFacts
        <5>3. Waits(e, registers')
          BY <3>4, <5>1, <5>2
        <5>4. Waits(e, registers)'
          BY <5>3 DEF Waits
        <5> QED
          BY <3>3, <5>4 DEF Known
      <4> QED
        BY <4>1, <4>2, <4>3
    <3>5. CASE Late(e, due[e])
      <4>1. CASE due'[e] = due[e]
        <5>1. Late(e, due[e])'
          BY <2>1, <3>2, <3>5, <4>1 DEF Late
        <5> QED
          BY <3>3, <5>1 DEF Known
      <4>2. CASE due'[e] = Interval
        <5>1. Late(e, due[e])'
          BY <3>3, <4>2 DEF Late
        <5> QED
          BY <3>3, <5>1 DEF Known
      <4>3. CASE Emit(e)
        <5>1. Past("register")
          BY <1>0, PastFacts
        <5>2. Waits(e, registers')
          BY <1>0, <1>2, <2>2, <4>3, <5>1, WaitsPublished DEF Emit
        <5>3. Waits(e, registers)'
          BY <5>2 DEF Waits
        <5> QED
          BY <3>3, <5>3 DEF Known
      <4>4. ~Start(e)
        BY <2>1 DEF Start
      <4> QED
        BY <1>0, <1>2, <4>1, <4>2, <4>3, <4>4, DueCases
    <3> QED
      BY <2>2, <2>4, <3>4, <3>5 DEF Known
  <2> QED
    BY <2>3, <2>4
<1> QED
  BY <1>3, <1>4

LEMMA AllKnownNext ==
  ASSUME OwnAddresses, AnswerInv, Inv', Steady', WarmLast', [Next]_sdvars
  PROVE  AllKnown'
<1> SUFFICES ASSUME calm' = TRUE, stage' \notin {"closed", "shutdown"}, NEW e \in live'
             PROVE  Known(e)'
  BY DEF AllKnown
<1>1. /\ liveFor'[e] \in Nat /\ due'[e] \in Nat /\ Interval \in Nat /\ readyFor' \in Nat
  BY DEF Inv, EmitTypes, BusTypes
<1>2. ASSUME readyFor' = 0 PROVE Known(e)'
  BY <1>1, <1>2 DEF Known, Late
<1>3. CASE stage' # "ready"
  BY <1>2, <1>3 DEF WarmLast
<1>4. CASE Ready
  <2>1. readyFor' = readyFor /\ readyFor = 0
    BY <1>4 DEF Ready, AnswerInv, WarmLast
  <2> QED
    BY <1>2, <2>1
<1>5. CASE stage' = "ready" /\ stage = "ready"
  <2>1. ~Restart /\ ~Disconnect
    BY <1>5 DEF Restart, Disconnect
  <2>2. calm = TRUE /\ conn' = TRUE
    BY <1>5, <2>1, CalmCases DEF Steady
  <2>3. CASE Tick
    <3>1. e \in live
      BY <2>3 DEF Tick
    <3> QED
      BY <1>5, <2>2, <2>3, <3>1, KnownTick
  <2>4. CASE Instant
    BY <1>5, <2>1, <2>2, <2>4, KnownInstant
  <2> QED
    BY <2>3, <2>4, InstantOrTick
<1> QED
  BY <1>3, <1>4, <1>5, ReadyBefore

LEMMA AnswerInvInit == Init => AnswerInv
<1> SUFFICES ASSUME Init PROVE AnswerInv
  OBVIOUS
<1>1. PruneInv
  BY PruneInvInit
<1>2. Steady /\ WarmLast
  BY DEF Init, TableInit, Steady, WarmLast
<1>3. Named
  BY DEF Init, Named, NoQuery
<1>4. Gone /\ AllKnown
  BY DEF Init, Gone, Waits, AllKnown
<1> QED
  BY <1>1, <1>2, <1>3, <1>4 DEF AnswerInv

LEMMA AnswerInvNext ==
  ASSUME OwnAddresses, AnswerInv, [Next]_sdvars
  PROVE  AnswerInv'
<1>1. PruneInv'
  BY PruneInvNext DEF AnswerInv
<1>2. Inv /\ Inv' /\ BusTypes /\ DnsTypes
  BY <1>1 DEF AnswerInv, PruneInv, Inv
<1>3. Steady' /\ WarmLast'
  BY <1>2, SteadyNext, WarmNext DEF AnswerInv
<1>4. Named' /\ Gone'
  BY <1>2, NamedNext, GoneNext DEF AnswerInv
<1>5. AllKnown'
  BY <1>2, <1>3, AllKnownNext
<1> QED
  BY <1>1, <1>3, <1>4, <1>5 DEF AnswerInv

\* A query that is answered with success had no name, or is answered from the
\* table by GetIPs.
LEMMA Answered ==
  ASSUME DnsTypes, [Next]_sdvars, dns'.code = "success", dns'.code # dns.code
  PROVE  GetIPs \/ dns.tries = 0
<1>1. CASE UNCHANGED dns
  BY <1>1
<1>2. dns' # NoQuery
  BY DEF NoQuery
<1>3. ~GetFails
  BY <1>2 DEF GetFails
<1>4. ASSUME GetRefused PROVE FALSE
  <2>1. dns' = [dns EXCEPT !.tries = @ + 1]
    BY <1>2, <1>4 DEF GetRefused
  <2>2. dns'.code = dns.code
    BY <2>1 DEF DnsTypes
  <2> QED
    BY <2>2
<1>5. \A name, type : Query(name, type) => dns.tries = 0
  BY DEF Query
<1> QED
  BY <1>1, <1>3, <1>4, <1>5, DnsCases DEF Adapter

\* A DNS query is never answered without an instance that has run for longer than
\* the interval, unless the connection was lost since the controller started or
\* the table is just getting warm and the instance's registration is on its way,
\* for any apps, instances, hostnames and queues, with the template's warming
\* time: if no two instances share both an ip and a hostname.
THEOREM AnswersAreComplete ==
  ASSUME OwnAddresses
  PROVE  Spec => AnswersComplete
<1>1. ASSUME AnswerInv, [Next]_sdvars
      PROVE  [\A e \in live :
                /\ dns'.code = "success" /\ dns'.code # dns.code
                /\ calm /\ dns.name \in e.names /\ liveFor[e] > Interval
                /\ ~(readyFor <= Interval /\ OnItsWay(e))
                => e.ip \in dns'.ips]_sdvars
  <2> SUFFICES ASSUME NEW e \in live, dns'.code = "success", dns'.code # dns.code,
                      calm, dns.name \in e.names, liveFor[e] > Interval,
                      ~(readyFor <= Interval /\ OnItsWay(e))
               PROVE  e.ip \in dns'.ips
    OBVIOUS
  <2>1. /\ Inv /\ DnsTypes /\ e \in Endpoints /\ stage \in StageNames /\ calm = TRUE
        /\ liveFor[e] \in Nat /\ Interval \in Nat /\ WarmDuration = Interval
        /\ due[e] \in 0..Interval /\ readyFor \in Nat
    BY <1>1, ServiceDiscoveryAssumption, TimingAssumption DEF AnswerInv, PruneInv, Inv, EmitTypes, BusTypes, Steady
  <2>2. dns.name # NoName
    BY <2>1
  <2>3. dns.tries # 0
    BY <1>1, <2>2 DEF AnswerInv, Named
  <2>4. GetIPs
    BY <1>1, <2>1, <2>3, Answered
  <2>5. stage = "ready" /\ warm = TRUE
    <3>1. warm \in BOOLEAN
      BY <2>1 DEF Inv, TableTypeOK
    <3> QED
      BY <2>1, <2>4, <3>1, PastFacts DEF GetIPs
  <2>6. readyFor >= Interval /\ Known(e)
    BY <1>1, <2>1, <2>5 DEF AnswerInv, WarmLast, AllKnown
  <2>7. Late(e, Interval) => readyFor <= Interval /\ ~OnItsWay(e)
    BY <2>1 DEF Late
  <2>8. Listed(e)
    <3>1. ASSUME Late(e, due[e]) PROVE OnItsWay(e)
      BY <2>1, <2>6, <3>1 DEF Late, OnItsWay
    <3>2. ASSUME Waits(e, registers) PROVE OnItsWay(e)
      BY <3>2 DEF Waits, OnItsWay
    <3> QED
      BY <2>6, <2>7, <3>1, <3>2 DEF Known
  <2>9. dns'.ips = Lookup(dns.name)
    BY <2>4, ReplyIs DEF GetIPs
  <2> QED
    BY <2>8, <2>9 DEF Listed
<1>2. AnswerInv /\ [Next]_sdvars => AnswerInv'
  BY AnswerInvNext
<1> QED
  BY <1>1, <1>2, AnswerInvInit, PTL DEF Spec, AnswersComplete

=============================================================================
