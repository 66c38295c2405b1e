-------------------------- MODULE NetworkerDaemon --------------------------
(***************************************************************************)
(* The garden-external-networker as a daemon: it listens on a unix socket  *)
(* and handles one connection after the other.  A client sends the         *)
(* container's network namespace as a file descriptor and then a message   *)
(* (up or down, the handle, the inputs), and gets an answer or finds the   *)
(* connection closed.  An up ends by adding the proxy redirect rule inside *)
(* the container, under the iptables lock that other processes of the cell *)
(* use as well.                                                            *)
(*                                                                         *)
(* The clients (Garden's netplugin shim), the CNI plugins and monit are    *)
(* external.  Ports and mounts are the subject of GardenNetworker; here an *)
(* up or a down of the manager is a step that works or fails.              *)
(***************************************************************************)
EXTENDS LockedIPTables, FiniteSets

CONSTANTS
  Clients,      \* connections, each for one request
  Handles,      \* containers
  Properties,   \* the metadata that Garden gives for each container, or NONE
  NONE,
  Daemon,       \* the daemon as a caller of LockedIPTables
  AgentCalls,   \* per other process of the cell: the calls it makes
  Redirects,    \* proxy_redirect_cidr is set
  RedirectRule,
  MaxChain,     \* bound: length of the chain that the other processes change
  MaxFDs,       \* file descriptors the daemon may receive
  MaxStops      \* bound: signals to the daemon, and panics

Agents == Callers \ {Daemon}

\* What NetworkConfigList.Plugins may hold besides the operator's configuration.
Configs == [metadata : {Properties[h] : h \in Handles} \cup {NONE},
            runtimeConfig : Handles \cup {NONE}]

ASSUME NetworkerDaemonAssumption ==
  /\ Daemon \in Callers /\ Handles \subseteq Spaces
  /\ NONE \notin Handles \cup Clients \cup Configs
  /\ \A c \in Agents : \A r \in AgentCalls[c] : r = Request(r.op, r.space, r.rules, r.pos)
  /\ Redirects \in BOOLEAN
  /\ MaxFDs \in Nat /\ MaxStops \in Nat

VARIABLES
  pc,         \* "stopped", or where the daemon is in its loop
  serving,    \* the connection handleOne has accepted
  socket,     \* the socket file exists
  conn,       \* per client: "none", "open", then "answered" or "closed"
  request,    \* the message that handleOne has decoded
  asked,      \* containers that Garden has asked to be connected
  fds,        \* file descriptors that the daemon has received
  plugins,    \* NetworkConfigList.Plugins: metadata and runtimeConfig in it
  network,    \* per container: what the CNI plugins were given, or NONE
  panicked,   \* history: the daemon ended without closing its listener
  stops

ndvars == <<pc, serving, socket, conn, request, asked, fds, plugins, network, panicked, stops>>
vars == <<ipvars, ndvars>>

Messages == [action : {"up", "down"}, handle : Handles]
NoMessage == [action |-> "none", handle |-> NONE]

Fresh == [metadata |-> NONE, runtimeConfig |-> NONE]

Init ==
  /\ TableInit
  /\ pc = "stopped" /\ serving = NONE /\ socket = FALSE
  /\ conn = [k \in Clients |-> "none"]
  /\ request = NoMessage /\ asked = {}
  /\ fds = 0 /\ plugins = Fresh
  /\ network = [h \in Handles |-> NONE]
  /\ panicked = FALSE /\ stops = 0

---------------------------------------------------------------------------
(* Clients *)

\* A client gets through to the listener and waits in its backlog.
Dial(k) ==
  /\ conn[k] = "none" /\ pc # "stopped"
  /\ conn' = [conn EXCEPT ![k] = "open"]
  /\ UNCHANGED <<ipvars, pc, serving, socket, request, asked, fds, plugins, network, panicked, stops>>

\* The message of a client: Garden asks once that a container be connected.
Send(m) ==
  /\ m \in Messages
  /\ m.action = "up" => m.handle \notin asked
  /\ request' = m
  /\ asked' = IF m.action = "up" THEN asked \cup {m.handle} ELSE asked

---------------------------------------------------------------------------
(* The daemon *)

\* main and HandleWithSocket: listen fails as long as the socket file is there,
\* and the process exits.
Listen ==
  /\ pc = "stopped" /\ ~socket
  /\ pc' = "accept" /\ socket' = TRUE
  /\ fds' = 0 /\ plugins' = Fresh
  /\ UNCHANGED <<ipvars, request, serving, conn, asked, network, panicked, stops>>

\* handleOne: Accept.  It fails, again and again, when no descriptor is left.
Accept(k) ==
  /\ pc = "accept" /\ conn[k] = "open"
  /\ fds < MaxFDs
  /\ pc' = "fd" /\ serving' = k
  /\ UNCHANGED <<ipvars, request, socket, conn, asked, fds, plugins, network, panicked, stops>>

\* Mutant: the connection is not closed on the way out.
HandledOne_LeftOpen(ok) ==
  /\ pc' = "accept" /\ serving' = NONE /\ request' = NoMessage
  /\ conn' = [conn EXCEPT ![serving] = IF ok THEN "answered" ELSE "left"]

\* handleOne returns; its connection is closed, after an answer or without.
HandledOne(ok) ==
  /\ pc' = "accept" /\ serving' = NONE /\ request' = NoMessage
  /\ conn' = [conn EXCEPT ![serving] = IF ok THEN "answered" ELSE "closed"]

\* readNsFileDescriptor blocks until the client sends a descriptor, which
\* nothing closes, or something else, or hangs up.
ReceiveFD ==
  /\ pc = "fd"
  /\ \/ /\ fds' = fds + 1 /\ pc' = "message"
        /\ UNCHANGED <<serving, conn, request>>
     \/ HandledOne(FALSE) /\ UNCHANGED fds
  /\ UNCHANGED <<ipvars, socket, asked, plugins, network, panicked, stops>>

\* decodeMsg, and the switch of handle: the end of the connection, a message
\* that cannot be decoded and an unknown action are errors.
Decode ==
  /\ pc = "message"
  /\ \/ /\ \E m \in Messages : Send(m) /\ pc' = m.action
        /\ UNCHANGED <<serving, conn>>
     \/ HandledOne(FALSE) /\ UNCHANGED asked
  /\ UNCHANGED <<ipvars, socket, fds, plugins, network, panicked, stops>>

\* Mutant: keys that the config has already are kept.
InjectConf_Keep(config, metadata, runtimeConfig) ==
  [metadata |-> IF config.metadata = NONE THEN metadata ELSE config.metadata,
   runtimeConfig |-> IF config.runtimeConfig = NONE THEN runtimeConfig
                     ELSE config.runtimeConfig]

\* CNIController.Up injects what it is given into the plugins' config and
\* stores the config for the calls to come; empty metadata injects nothing.
InjectConf(config, metadata, runtimeConfig) ==
  [metadata |-> IF metadata = NONE THEN config.metadata ELSE metadata,
   runtimeConfig |-> runtimeConfig]

\* Manager.Up until CNI has added the network.  Its ports and rules stand for
\* the handle they were requested for.
ManagerUp ==
  /\ pc = "up"
  /\ LET h == request.handle
     IN  /\ plugins' = InjectConf(plugins, Properties[h], h)
         /\ network' = [network EXCEPT ![h] = plugins']
  /\ pc' = "redirect"
  /\ UNCHANGED <<ipvars, request, serving, socket, conn, asked, fds, panicked, stops>>

\* Manager.Up or Manager.Down fails; CNI may have been given its config.
ManagerFails ==
  /\ pc \in {"up", "down"} /\ Fault
  /\ IF pc = "up"
     THEN plugins' \in {plugins, InjectConf(plugins, Properties[request.handle], request.handle)}
     ELSE UNCHANGED plugins
  /\ HandledOne(FALSE)
  /\ UNCHANGED <<asked, chain, holder, call, failed, orphanvars, socket, fds, network, panicked, stops>>

\* Redirect.Apply: without a CIDR there is nothing to do, else it calls
\* BulkAppend inside the container's namespace ...
Apply ==
  /\ pc = "redirect"
  /\ IF Redirects
     THEN /\ Begin(Daemon, Request("BulkAppend", request.handle, <<RedirectRule>>, 0))
          /\ pc' = "applying"
          /\ UNCHANGED <<request, serving, conn>>
     ELSE HandledOne(TRUE) /\ UNCHANGED ipvars
  /\ UNCHANGED <<socket, asked, fds, plugins, network, panicked, stops>>

\* Mutant: the error of Apply is only logged.
Applied_ErrorLogged ==
  /\ pc = "applying" /\ call[Daemon] = NoCall
  /\ HandledOne(TRUE)
  /\ UNCHANGED <<ipvars, asked, socket, fds, plugins, network, panicked, stops>>

\* ... and its error is the error of up, or else the outputs are the answer.
Applied ==
  /\ pc = "applying" /\ call[Daemon] = NoCall
  /\ HandledOne(~failed[Daemon])
  /\ UNCHANGED <<ipvars, asked, socket, fds, plugins, network, panicked, stops>>

\* Manager.Down, and the answer {}.
ManagerDown ==
  /\ pc = "down"
  /\ network' = [network EXCEPT ![request.handle] = NONE]
  /\ HandledOne(TRUE)
  /\ UNCHANGED <<ipvars, asked, socket, fds, plugins, panicked, stops>>

DaemonStep ==
  \/ \E k \in Clients : Accept(k)
  \/ ReceiveFD \/ Decode \/ ManagerUp \/ ManagerDown
  \/ Apply \/ Applied

---------------------------------------------------------------------------
(* The end of the process *)

\* Whatever it was doing, the kernel closes its connections, also those that
\* it had not accepted.
Ends ==
  /\ pc' = "stopped" /\ serving' = NONE
  /\ Dies(Daemon) /\ UNCHANGED faults
  /\ conn' = [k \in Clients |-> IF conn[k] = "open" THEN "closed" ELSE conn[k]]
  /\ request' = NoMessage
  /\ stops < MaxStops /\ stops' = stops + 1
  /\ UNCHANGED <<asked, fds, plugins, network>>

\* Mutant: the listener, and so the socket file, is left to the kernel.
CloseOnKill_NoClose ==
  /\ pc # "stopped" /\ Ends
  /\ UNCHANGED <<socket, panicked>>

\* closeOnKill: SIGTERM or SIGINT closes the listener, which removes the socket
\* file, and exits at once.
CloseOnKill ==
  /\ pc # "stopped" /\ Ends
  /\ socket' = FALSE /\ UNCHANGED panicked

\* Apply does not look at the error of GetNS, and a namespace that cannot be
\* opened ends in a panic, with the socket file left behind.
GetNSPanics ==
  /\ pc = "redirect" /\ Redirects /\ Ends
  /\ panicked' = TRUE /\ UNCHANGED socket

---------------------------------------------------------------------------
(* The other processes of the cell, and the specification *)

AgentBegin(c) ==
  /\ \E r \in AgentCalls[c] :
       /\ chain[r.space] # Absent => Len(chain[r.space]) + Len(r.rules) <= MaxChain
       /\ Begin(c, r)
  /\ UNCHANGED ndvars

AgentDies(c) == call[c] # NoCall /\ Fault /\ Dies(c) /\ UNCHANGED ndvars

Calls(c) == CallStep(c) /\ UNCHANGED ndvars

Next ==
  \/ Listen \/ DaemonStep \/ ManagerFails \/ CloseOnKill \/ GetNSPanics
  \/ \E k \in Clients : Dial(k)
  \/ \E c \in Agents : AgentBegin(c) \/ AgentDies(c)
  \/ \E c \in Callers : Calls(c) \/ (CallFault(c) /\ UNCHANGED ndvars)
  \/ OrphanStep /\ UNCHANGED ndvars

Spec == Init /\ [][Next]_vars

\* monit starts the daemon again; it goes on with the connection it serves, for
\* a client sends its request or hangs up (there is no timeout); who holds the
\* file lock goes on, and the daemon gets it when it is free again and again.
FairSpec ==
  /\ Spec
  /\ WF_vars(Listen) /\ WF_vars(DaemonStep)
  /\ SF_vars(Calls(Daemon)) /\ \A c \in Agents : WF_vars(Calls(c))

---------------------------------------------------------------------------
(* Properties *)

\* Type correctness; handleOne has a connection exactly while it is past
\* Accept, and the daemon calls iptables only at the end of an up.
TypeOK ==
  /\ pc \in {"stopped", "accept", "fd", "message", "up", "down", "redirect", "applying"}
  /\ serving \in Clients \cup {NONE} /\ holder \in Callers \cup {NoCaller}
  /\ fds \in 0..MaxFDs
  /\ pc \in {"stopped", "accept"} <=> serving = NONE
  /\ call[Daemon] # NoCall => pc = "applying"

\* Although the config is kept from one request to the next, the plugins add a
\* container with its own ports and rules, and with its own metadata if it has
\* any.  (A container without metadata is added with that of an earlier one.)
\* (With the types.)
AddGetsOwnConfig ==
  /\ TypeOK
  /\ \A h \in Handles :
       network[h] # NONE =>
         /\ network[h].runtimeConfig = h
         /\ Properties[h] # NONE => network[h].metadata = Properties[h]

\* A client that is told that its up worked has a container with a network and,
\* if traffic is redirected, with the rule in place, once.
AnsweredMeansDone ==
  [][\A k \in Clients :
       conn[k] = "open" /\ conn'[k] = "answered" /\ request.action = "up" =>
         /\ network[request.handle] # NONE
         /\ Redirects => Cardinality({i \in DOMAIN chain[request.handle] :
                                        chain[request.handle][i] = RedirectRule}) = 1]_vars

\* Every connection is answered or closed, also when the clients before it fail,
\* hang up or send garbage and when other processes use the lock, as long as
\* the daemon has descriptors left.
EveryConnectionEnds ==
  \A k \in Clients : conn[k] = "open" ~> conn[k] \in {"answered", "closed"} \/ fds = MaxFDs

\* A daemon that is stopped by a signal, at whatever point, listens again: its
\* socket file is gone and the iptables lock is free.
ListensAgain == pc = "stopped" /\ ~panicked ~> pc # "stopped"
=============================================================================
