-------------------------- MODULE ServiceDiscovery --------------------------
(***************************************************************************)
(* Service discovery end to end.  Route emitters announce the instances of *)
(* apps on NATS, the subscriber of the service-discovery-controller puts   *)
(* them into the address table, the routes server answers from the table,  *)
(* and the bosh-dns-adapter asks the routes server for each DNS query.     *)
(*                                                                         *)
(* The emitters and NATS are external.  An emitter registers an instance   *)
(* when it starts and then once every Interval, the interval it is told by *)
(* a start message or by the reply to its greeting, and unregisters it     *)
(* when it stops.  NATS delivers each subscription in order by a goroutine *)
(* of its own, keeps no message for a subscriber that is not connected,    *)
(* and calls the disconnect and reconnect handlers one after the other     *)
(* from a queue.                                                           *)
(***************************************************************************)
EXTENDS AddressTable, Sequences

CONSTANTS
  Endpoints,      \* instances of apps: [names : SUBSET Names, ip : IPs]
  Malformed,      \* other messages that come on the two subjects
  Interval,       \* MinimumRegisterIntervalInSeconds, in clock ticks
  WarmDuration,   \* warmingDuration, in clock ticks
  NoName,         \* a query that has no name
  MaxQueue,       \* bound: messages waiting for one subscription
  MaxCallbacks    \* bound: handlers of the connection waiting to be called

ASSUME ServiceDiscoveryAssumption ==
  /\ Interval \in Nat /\ WarmDuration \in Nat
  /\ MaxQueue \in Nat \ {0} /\ MaxCallbacks \in Nat \ {0}
  /\ NoName \notin Names
  /\ \A e \in Endpoints : e.names \subseteq Names /\ e.names # {} /\ e.ip \in IPs
  /\ \A m \in Malformed : m.names \subseteq Names /\ m.ip \notin IPs

\* The job's template: the emitters are told the delay after which pruning
\* resumes as their interval, which is also the warming time; it is not zero,
\* and the threshold is longer.
ASSUME TimingAssumption ==
  /\ Interval = ResumeDelay /\ WarmDuration = Interval
  /\ 0 < Interval /\ Interval < Threshold

VARIABLES
  stage,       \* how far RunOnce, or the way out of the process, has got
  conn,        \* connected to NATS
  callbacks,   \* handlers of the connection that wait to be called
  starts,      \* a start message is on its way to the emitters
  registers, unregisters,  \* messages that wait for the two subscriptions
  readyFor,    \* ticks since RunOnce started the warming goroutine
  told,        \* the emitters know the interval
  live,        \* the instances that run
  due,         \* per instance: ticks since the emitter last registered it
  liveFor,     \* history, per instance: ticks since it started
  calm,        \* history: the connection has not been lost since RunOnce
  dns          \* the query that the bosh-dns-adapter works on

busvars == <<stage, conn, callbacks, starts, registers, unregisters, readyFor, calm>>
emitvars == <<told, live, due, liveFor>>
sdvars == <<tablevars, busvars, emitvars, dns>>

\* The stages of RunOnce, of the running subscriber, and of the way out.
Stages == <<"connect", "assign", "start", "greet", "register", "unregister",
            "warm", "ready", "closed", "shutdown">>
Rank(s) == CHOOSE i \in 1..Len(Stages) : Stages[i] = s
Past(s) == Rank(stage) > Rank(s) /\ stage \notin {"closed", "shutdown"}

NoQuery == [tries |-> 0, name |-> NoName, code |-> "none", ips |-> {}]

Init ==
  /\ TableInit
  /\ stage = "connect" /\ conn = FALSE /\ callbacks = <<>> /\ starts = FALSE
  /\ registers = <<>> /\ unregisters = <<>>
  /\ readyFor = 0 /\ calm = TRUE
  /\ told = FALSE /\ live = {}
  /\ due = [e \in Endpoints |-> 0] /\ liveFor = [e \in Endpoints |-> 0]
  /\ dns = NoQuery

---------------------------------------------------------------------------
(* The subscriber: RunOnce *)

Connect ==
  /\ stage = "connect"
  /\ stage' = "assign" /\ conn' = TRUE
  /\ UNCHANGED <<tablevars, callbacks, starts, registers, unregisters, readyFor,
                 calm, emitvars, dns>>

\* s.natsClient is set only after the connection and its handlers exist.
Assign ==
  /\ stage = "assign" /\ stage' = "start"
  /\ UNCHANGED <<tablevars, conn, callbacks, starts, registers, unregisters,
                 readyFor, calm, emitvars, dns>>

\* A message published while the connection is down is sent on reconnection.
SendStart ==
  /\ stage = "start" /\ stage' = "greet"
  /\ starts' = TRUE
  /\ UNCHANGED <<tablevars, conn, callbacks, registers, unregisters, readyFor,
                 calm, emitvars, dns>>

\* The three subscriptions, one after the other.
Subscribe ==
  /\ stage \in {"greet", "register", "unregister"} /\ conn
  /\ stage' = Stages[Rank(stage) + 1]
  /\ UNCHANGED <<tablevars, conn, callbacks, starts, registers, unregisters,
                 readyFor, calm, emitvars, dns>>

\* The warming goroutine starts, Run closes ready, and the routes server,
\* the last member of the ordered group, starts as well.
Ready ==
  /\ stage = "warm" /\ stage' = "ready"
  /\ UNCHANGED <<tablevars, conn, callbacks, starts, registers, unregisters,
                 readyFor, calm, emitvars, dns>>

\* Mutant: the table is warm at once.
Warmed_AtOnce == stage = "ready"

Warmed == stage = "ready" /\ readyFor >= WarmDuration

WarmUp ==
  /\ Warmed /\ ~warm /\ SetWarm
  /\ UNCHANGED <<busvars, emitvars, dns>>

\* The process ends and is started again, with an empty table.
Restart ==
  /\ keys' = {} /\ addresses' = [h \in Hosts |-> {}]
  /\ paused' = FALSE /\ sinceResume' = ResumeDelay
  /\ warm' = FALSE /\ stopped' = FALSE /\ pc' = "wait" /\ candidates' = {}
  /\ stage' = "connect" /\ conn' = FALSE /\ callbacks' = <<>> /\ starts' = FALSE
  /\ registers' = <<>> /\ unregisters' = <<>>
  /\ readyFor' = 0 /\ calm' = TRUE
  /\ UNCHANGED <<emitvars, dns>>

\* RunOnce fails, or the routes server cannot listen, and main exits with the
\* group's error; or the process is killed.
Crash == stage # "connect" /\ Restart

\* On a signal main closes the subscriber, ...
CloseSubscriber ==
  /\ stage = "ready" /\ stage' = "closed"
  /\ conn' = FALSE /\ registers' = <<>> /\ unregisters' = <<>> /\ starts' = FALSE
  /\ callbacks' = IF conn THEN Append(callbacks, "disconnected") ELSE callbacks
  /\ UNCHANGED <<tablevars, readyFor, calm, emitvars, dns>>

\* ... stops the table's ticker, ...
ShutdownTable ==
  /\ stage = "closed" /\ stage' = "shutdown"
  /\ Shutdown
  /\ UNCHANGED <<conn, callbacks, starts, registers, unregisters, readyFor, calm,
                 emitvars, dns>>

\* ... and returns without waiting for the group.
Exit == stage = "shutdown" /\ Restart

---------------------------------------------------------------------------
(* The connection and its handlers *)

\* What is on its way is lost, a start message perhaps.
Disconnect ==
  /\ conn /\ Rank(stage) > Rank("connect")
  /\ Len(callbacks) < MaxCallbacks
  /\ conn' = FALSE /\ calm' = FALSE
  /\ registers' = <<>> /\ unregisters' = <<>> /\ starts' \in {starts, FALSE}
  /\ callbacks' = Append(callbacks, "disconnected")
  /\ UNCHANGED <<tablevars, stage, readyFor, emitvars, dns>>

\* MaxReconnects(-1): the client never gives up.  It subscribes again itself.
Reconnect ==
  /\ ~conn /\ stage \notin {"connect", "closed", "shutdown"}
  /\ Len(callbacks) < MaxCallbacks
  /\ conn' = TRUE
  /\ callbacks' = Append(callbacks, "reconnected")
  /\ UNCHANGED <<tablevars, stage, starts, registers, unregisters, readyFor, calm,
                 emitvars, dns>>

NextCallback(kind) ==
  /\ callbacks # <<>> /\ Head(callbacks) = kind
  /\ callbacks' = Tail(callbacks)

DisconnectHandler ==
  /\ NextCallback("disconnected")
  /\ PausePruning
  /\ UNCHANGED <<stage, conn, starts, registers, unregisters, readyFor, calm,
                 emitvars, dns>>

\* Mutant: the handler only resumes pruning.
ReconnectHandler_NoStart ==
  /\ NextCallback("reconnected") /\ stage # "assign"
  /\ ResumePruning
  /\ UNCHANGED <<stage, conn, starts, registers, unregisters, readyFor, calm,
                 emitvars, dns>>

\* Mutant: the handler returns early until RunOnce has returned.
ReconnectHandler_WhenReady ==
  /\ NextCallback("reconnected") /\ stage # "assign"
  /\ IF stage = "ready" THEN ResumePruning ELSE UNCHANGED tablevars
  /\ starts' = (starts \/ stage = "ready")
  /\ UNCHANGED <<stage, conn, registers, unregisters, readyFor, calm, emitvars, dns>>

\* Pruning resumes, and a start message asks for all registrations.
ReconnectHandler ==
  /\ NextCallback("reconnected") /\ stage # "assign"
  /\ ResumePruning
  /\ starts' = TRUE
  /\ UNCHANGED <<stage, conn, registers, unregisters, readyFor, calm, emitvars, dns>>

\* Called before s.natsClient is set, sendStartMessage panics.
ReconnectHandlerPanics ==
  /\ stage = "assign" /\ callbacks # <<>> /\ Head(callbacks) = "reconnected"
  /\ Restart

---------------------------------------------------------------------------
(* The message handlers *)

\* A register message without an ip or without names is dropped.
RegisterHandler ==
  /\ registers # <<>> /\ registers' = Tail(registers)
  /\ LET m == Head(registers) IN
       IF m.ip \notin IPs \/ m.names = {} THEN UNCHANGED tablevars
                                          ELSE Add(m.names, m.ip)
  /\ UNCHANGED <<stage, conn, callbacks, starts, unregisters, readyFor, calm,
                 emitvars, dns>>

\* An unregister message without names is dropped; one without an ip removes
\* nothing.
UnregisterHandler ==
  /\ unregisters # <<>> /\ unregisters' = Tail(unregisters)
  /\ LET m == Head(unregisters) IN
       IF m.names = {} THEN UNCHANGED tablevars ELSE Remove(m.names, m.ip)
  /\ UNCHANGED <<stage, conn, callbacks, starts, registers, readyFor, calm,
                 emitvars, dns>>

\* The reply to a greeting holds what a start message holds.
GreetHandler ==
  /\ ~told /\ conn /\ Past("greet")
  /\ told' = TRUE /\ due' = [e \in Endpoints |-> Interval]
  /\ UNCHANGED <<tablevars, busvars, live, liveFor, dns>>

---------------------------------------------------------------------------
(* External: the emitters *)

Publish(queue, m, subject) ==
  IF conn /\ Past(subject) THEN Append(queue, m) ELSE queue

HasRoom(queue) == Len(queue) < MaxQueue

\* A start message makes every registration due.
HearStart ==
  /\ starts /\ conn
  /\ starts' = FALSE /\ told' = TRUE
  /\ due' = [e \in Endpoints |-> Interval]
  /\ UNCHANGED <<tablevars, stage, conn, callbacks, registers, unregisters,
                 readyFor, calm, live, liveFor, dns>>

Emit(e) ==
  /\ e \in live /\ told /\ due[e] = Interval /\ HasRoom(registers)
  /\ registers' = Publish(registers, e, "register")
  /\ due' = [due EXCEPT ![e] = 0]
  /\ UNCHANGED <<tablevars, stage, conn, callbacks, starts, unregisters, readyFor,
                 calm, told, live, liveFor, dns>>

Start(e) ==
  /\ e \notin live /\ HasRoom(registers)
  /\ live' = live \cup {e} /\ liveFor' = [liveFor EXCEPT ![e] = 0]
  /\ registers' = Publish(registers, e, "register")
  /\ due' = [due EXCEPT ![e] = 0]
  /\ UNCHANGED <<tablevars, stage, conn, callbacks, starts, unregisters, readyFor,
                 calm, told, dns>>

Stop(e) ==
  /\ e \in live /\ HasRoom(unregisters)
  /\ live' = live \ {e}
  /\ unregisters' = Publish(unregisters, e, "unregister")
  /\ UNCHANGED <<tablevars, stage, conn, callbacks, starts, registers, readyFor,
                 calm, told, due, liveFor, dns>>

\* An emitter that is restarted has to greet again.
EmitterRestarts ==
  /\ told /\ told' = FALSE
  /\ UNCHANGED <<tablevars, busvars, live, due, liveFor, dns>>

PublishMalformed(m) ==
  /\ HasRoom(registers) /\ HasRoom(unregisters)
  /\ \/ /\ registers' = Publish(registers, m, "register")
        /\ UNCHANGED unregisters
     \/ /\ unregisters' = Publish(unregisters, m, "unregister")
        /\ UNCHANGED registers
  /\ UNCHANGED <<tablevars, stage, conn, callbacks, starts, readyFor, calm,
                 emitvars, dns>>

---------------------------------------------------------------------------
(* The bosh-dns-adapter, its client, and the routes server *)

\* The answer of the adapter, which lists the ips it was given.
Reply(code, ips) == [NoQuery EXCEPT !.code = code, !.ips = ips]

\* A query of another type is answered at once and empty, one without a name
\* is refused at once.
Query(name, type) ==
  /\ dns.tries = 0
  /\ dns' = IF type # "A" THEN Reply("success", {})
            ELSE IF name = NoName THEN NoQuery
            ELSE [NoQuery EXCEPT !.name = name, !.tries = 1]
  /\ UNCHANGED <<tablevars, busvars, emitvars>>

\* handleRegistrationRequest answers; the client shuffles the ips.
GetIPs ==
  /\ dns.tries > 0 /\ Past("warm") /\ warm
  /\ dns' = Reply("success", Lookup(dns.name))
  /\ UNCHANGED <<tablevars, busvars, emitvars>>

\* The table is not warm: at most four requests, then the query fails.
GetRefused ==
  /\ dns.tries > 0 /\ Past("warm") /\ ~warm
  /\ dns' = IF dns.tries < 4 THEN [dns EXCEPT !.tries = @ + 1]
                             ELSE NoQuery
  /\ UNCHANGED <<tablevars, busvars, emitvars>>

\* An error of the transport is not tried again.
GetFails ==
  /\ dns.tries > 0
  /\ dns' = NoQuery
  /\ UNCHANGED <<tablevars, busvars, emitvars>>

---------------------------------------------------------------------------
PruneStep == Prune /\ UNCHANGED <<busvars, emitvars, dns>>

\* Assumption on time: messages, handlers and pruning cycles take less than a
\* tick, and emitters are in time.
Prompt ==
  /\ callbacks = <<>> /\ registers = <<>> /\ unregisters = <<>> /\ pc = "wait"
  /\ ~(starts /\ conn)
  /\ ~(~told /\ conn /\ Past("greet"))
  /\ ~\E e \in live : told /\ due[e] = Interval

Tick ==
  /\ Prompt
  /\ TableTick
  /\ readyFor' = IF stage = "ready" /\ readyFor <= WarmDuration THEN readyFor + 1
                                                             ELSE readyFor
  /\ due' = [e \in Endpoints |-> IF due[e] < Interval THEN due[e] + 1 ELSE due[e]]
  /\ liveFor' = [e \in Endpoints |->
                   IF e \in live /\ liveFor[e] <= Interval THEN liveFor[e] + 1
                                                           ELSE liveFor[e]]
  /\ UNCHANGED <<stage, conn, callbacks, starts, registers, unregisters, calm,
                 told, live, dns>>

Bus ==
  \/ Connect \/ Assign \/ SendStart \/ Subscribe \/ Ready \/ WarmUp
  \/ Reconnect \/ DisconnectHandler \/ ReconnectHandler \/ RegisterHandler
  \/ UnregisterHandler \/ GreetHandler

Faults ==
  \/ Crash \/ CloseSubscriber \/ ShutdownTable \/ Exit \/ Disconnect
  \/ ReconnectHandlerPanics

Emitters ==
  \/ HearStart \/ EmitterRestarts
  \/ \E e \in Endpoints : Emit(e) \/ Start(e) \/ Stop(e)
  \/ \E m \in Malformed : PublishMalformed(m)

Adapter ==
  \/ \E name \in Names \cup {NoName}, type \in {"A", "other"} : Query(name, type)
  \/ GetIPs \/ GetRefused \/ GetFails

Next == Tick \/ Bus \/ Faults \/ Emitters \/ PruneStep \/ Adapter

Spec == Init /\ [][Next]_sdvars

---------------------------------------------------------------------------
(* Properties *)

Listed(e) == \A n \in e.names : e.ip \in Lookup(n)

\* Type correctness; what a message does not name well never gets into the
\* table.
TypeOK ==
  /\ TableTypeOK
  /\ stage \in {Stages[i] : i \in 1..Len(Stages)} /\ conn \in BOOLEAN
  /\ callbacks \in Seq({"disconnected", "reconnected"}) /\ starts \in BOOLEAN
  /\ registers \in Seq(Endpoints \cup Malformed)
  /\ unregisters \in Seq(Endpoints \cup Malformed)
  /\ readyFor \in 0..(WarmDuration + 1) /\ told \in BOOLEAN /\ live \subseteq Endpoints
  /\ due \in [Endpoints -> 0..Interval] /\ liveFor \in [Endpoints -> 0..(Interval + 1)]
  /\ dns.tries \in 0..4 /\ dns.ips \subseteq IPs

\* Pruning never takes an instance that has run for a tick, through every
\* outage of NATS, restart of an emitter and loss of messages: the table is
\* paused while nobody can register, and the start message of ReconnectHandler
\* brings the registrations before pruning resumes.
LiveNotPruned ==
  [][PruneDelete =>
       \A e \in live : liveFor[e] > 0 /\ Listed(e) => Listed(e)']_sdvars

\* The registration of an instance is due, or waits for the subscriber.
OnItsWay(e) ==
  due[e] = Interval \/ \E i \in 1..Len(registers) : registers[i] = e

\* A DNS query is never answered without an instance that has run for longer
\* than the interval, unless the connection was lost since the controller
\* started: the controller refuses queries while it warms up, and the
\* adapter reports the refusal as a failure.  One window is left open, because
\* the start message goes out before the subscription to registrations and the
\* warming time is no longer than the interval: an emitter that answers the
\* start message too early registers again when the table is just getting
\* warm.  The exception is that instant, and only for an instance whose
\* registration is on its way.
AnswersComplete ==
  [][\A e \in live :
       /\ dns'.code = "success" /\ dns'.code # dns.code
       /\ calm /\ dns.name \in e.names /\ liveFor[e] > Interval
       /\ ~(readyFor <= Interval /\ OnItsWay(e))
       => e.ip \in dns'.ips]_sdvars

\* Once the handlers have run, pruning is paused exactly while the connection
\* is down: no outage leaves it paused for ever, and none is missed, however
\* quickly the connection comes and goes.  (With the types.)
PauseFollowsConnection ==
  /\ TypeOK
  /\ callbacks = <<>> /\ stage # "connect" => (paused <=> ~conn)
=============================================================================
