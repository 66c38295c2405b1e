--------------------------- MODULE RoutePopulator ---------------------------
(***************************************************************************)
(* The route_populator: a runner splits a range of routes among as many    *)
(* goroutines as there are CPUs; each publishes its routes on NATS and     *)
(* publishes them again at every heartbeat, until the runner is stopped by *)
(* a signal or by a publisher that failed.                                 *)
(*                                                                         *)
(* Stop reads and writes its flag without a lock, so each is a step.  A    *)
(* second close of the quit channel panics and ends the process before     *)
(* Wait can return an error.                                               *)
(***************************************************************************)
EXTENDS Integers, FiniteSets

CONSTANTS
  NumCPU,
  RouteCounts,    \* the values of -numRoutes
  FewRoutes,      \* below this number of routes one goroutine does (1000)
  MaxErrors       \* bound: publishers that fail by themselves

ASSUME RoutePopulatorAssumption ==
  /\ RouteCounts \subseteq Nat \ {0} /\ NumCPU \in Nat \ {0} /\ FewRoutes \in Nat
  /\ \A n \in RouteCounts : n >= FewRoutes => n \div NumCPU > 0
  /\ MaxErrors \in Nat

VARIABLES
  numRoutes,  \* the flag -numRoutes
  stopped,    \* Runner.stopped
  closed,     \* quitChan is closed
  pc,         \* per goroutine, the one that waits for a signal included
  pos,        \* per publisher: the route it publishes next
  errs,       \* errsChan: how many errors it holds
  published,  \* the routes published since the last heartbeat of their publisher
  main,       \* "start", "wait", "ok", "error" or "panic"
  failed,     \* history: the publishers that failed
  raced       \* history: two goroutines were past the check of Stop at once

rpvars == <<numRoutes, stopped, closed, pc, pos, errs, published, main, failed, raced>>

NumGoRoutines == IF numRoutes < FewRoutes THEN 1 ELSE NumCPU
GoRoutines == 0..(NumCPU - 1)
Publishers == 0..(NumGoRoutines - 1)
Signal == NumCPU            \* the goroutine that waits for a signal

---------------------------------------------------------------------------
\* Mutant: the remainder is left out.
PartitionRange_NoRest(start, end, size) ==
  [i \in 1..((end - start) \div size + 1) |-> start + (i - 1) * size]

\* The bounds of the parts.  The last bound is moved to the end if the size
\* does not divide the range.
PartitionRange(start, end, size) ==
  LET n == (end - start) \div size + 1
  IN  IF size = end - start THEN <<start, end>>
      ELSE [i \in 1..n |-> IF i = n /\ (end - start) % size > 0
                           THEN end ELSE start + (i - 1) * size]

Ranges == PartitionRange(0, numRoutes, numRoutes \div NumGoRoutines)

\* The routes of a publisher: Initialize prepares one message for each.
First(g) == Ranges[g + 1]
Last(g) == Ranges[g + 2]

---------------------------------------------------------------------------
Init ==
  /\ numRoutes \in RouteCounts
  /\ stopped = FALSE /\ closed = FALSE
  /\ pc = [g \in GoRoutines \cup {Signal} |-> IF g = Signal THEN "signal" ELSE "none"]
  /\ pos = [g \in GoRoutines |-> 0]
  /\ errs = 0 /\ published = {} /\ main = "start" /\ failed = {} /\ raced = FALSE

Goto(g, label) == pc' = [pc EXCEPT ![g] = label]

Running == main \in {"start", "wait"}

\* Start refuses after Stop, or else starts the goroutines.
Start ==
  /\ main = "start"
  /\ IF stopped
     THEN main' = "error" /\ UNCHANGED pc
     ELSE /\ main' = "wait"
          /\ pc' = [g \in GoRoutines \cup {Signal} |->
                      IF g \in Publishers THEN "init" ELSE pc[g]]
  /\ UNCHANGED <<numRoutes, stopped, closed, pos, errs, published, failed, raced>>

\* Publisher.Initialize: the job is valid, and NATS connects.
Initialize(g) ==
  /\ Running /\ pc[g] = "init"
  /\ Goto(g, "publish") /\ pos' = [pos EXCEPT ![g] = First(g)]
  /\ UNCHANGED <<numRoutes, stopped, closed, errs, published, main, failed, raced>>

\* PublishRouteRegistrations: both messages of a route.
Publish(g) ==
  /\ Running /\ pc[g] = "publish" /\ pos[g] < Last(g)
  /\ published' = published \cup {pos[g]}
  /\ pos' = [pos EXCEPT ![g] = @ + 1]
  /\ UNCHANGED <<numRoutes, stopped, closed, pc, errs, main, failed, raced>>

Published(g) ==
  /\ Running /\ pc[g] = "publish" /\ pos[g] = Last(g)
  /\ Goto(g, "select")
  /\ UNCHANGED <<numRoutes, stopped, closed, pos, errs, published, main, failed, raced>>

\* The heartbeat interval is over.
Heartbeat(g) ==
  /\ Running /\ pc[g] = "select"
  /\ Goto(g, "publish") /\ pos' = [pos EXCEPT ![g] = First(g)]
  /\ published' = {r \in published : r < First(g) \/ r >= Last(g)}
  /\ UNCHANGED <<numRoutes, stopped, closed, errs, main, failed, raced>>

\* The quit channel is closed.
Quit(g) ==
  /\ Running /\ pc[g] = "select" /\ closed
  /\ Goto(g, "done")
  /\ UNCHANGED <<numRoutes, stopped, closed, pos, errs, published, main, failed, raced>>

\* Mutant: the errors share one place.
ErrsRoom_One == errs < 1

\* errsChan has a place for every publisher.
ErrsRoom == errs < NumGoRoutines

\* The error goes into the channel, and the publisher stops the runner.
Fail(g) ==
  /\ Running /\ Cardinality(failed) < MaxErrors
  /\ Goto(g, "report") /\ failed' = failed \cup {g}
  /\ UNCHANGED <<numRoutes, stopped, closed, pos, errs, published, main, raced>>

\* NATS cannot be reached.
InitializeFails(g) == pc[g] = "init" /\ Fail(g)

PublishFails(g) == pc[g] = "publish" /\ pos[g] < Last(g) /\ Fail(g)

Report(g) ==
  /\ Running /\ pc[g] = "report" /\ ErrsRoom
  /\ errs' = errs + 1 /\ Goto(g, "stop")
  /\ UNCHANGED <<numRoutes, stopped, closed, pos, published, main, failed, raced>>

\* Stop: is it stopped already?
StopCheck(g) ==
  /\ Running /\ pc[g] \in {"stop", "signal"}
  /\ Goto(g, IF stopped THEN "done" ELSE "close")
  /\ raced' = (raced \/ (~stopped /\ \E o \in DOMAIN pc : pc[o] = "close"))
  /\ UNCHANGED <<numRoutes, stopped, closed, pos, errs, published, main, failed>>

\* Stop: set the flag and close the channel.
StopClose(g) ==
  /\ Running /\ pc[g] = "close"
  /\ stopped' = TRUE /\ closed' = TRUE
  /\ main' = IF closed THEN "panic" ELSE main
  /\ Goto(g, "done")
  /\ UNCHANGED <<numRoutes, pos, errs, published, failed, raced>>

\* Wait: all publishers are done, and an error is returned if there is one.
Wait ==
  /\ main = "wait" /\ \A g \in Publishers : pc[g] = "done"
  /\ main' = IF errs > 0 THEN "error" ELSE "ok"
  /\ UNCHANGED <<numRoutes, stopped, closed, pc, pos, errs, published, failed, raced>>

Step(g) ==
  \/ Initialize(g) \/ Publish(g) \/ Published(g) \/ Report(g)
  \/ pc[g] = "stop" /\ StopCheck(g)
  \/ StopClose(g)

Next ==
  \/ Start \/ Wait
  \/ \E g \in GoRoutines : Step(g) \/ Heartbeat(g) \/ Quit(g)
                           \/ InitializeFails(g) \/ PublishFails(g)
  \/ StopCheck(Signal) \/ StopClose(Signal)

Spec == Init /\ [][Next]_rpvars

\* Goroutines run; a timer fires again and again, and select, which has just
\* started a new timer, some time sees the closed channel first.
FairSpec ==
  /\ Spec
  /\ WF_rpvars(Start) /\ WF_rpvars(Wait) /\ WF_rpvars(StopClose(Signal))
  /\ \A g \in GoRoutines : WF_rpvars(Step(g)) /\ WF_rpvars(Heartbeat(g)) /\ SF_rpvars(Quit(g))

---------------------------------------------------------------------------
(* Properties *)

\* Once it is stopped, by a signal or by an error, the runner ends and Wait
\* returns an error if a publisher failed: none waits for the channel of
\* errors or misses the closed channel.  The one exception are two Stops at
\* once, when neither has set the flag that the other one checks.
StopEnds ==
  stopped ~> raced \/ main = "error" \/ (main = "ok" /\ failed = {})

\* The routes no goroutine gets: with a remainder of the size of a part or more
\* there are more parts than goroutines.
Unassigned ==
  LET size == numRoutes \div NumGoRoutines
  IN  IF numRoutes % NumGoRoutines < size THEN {}
      ELSE (NumGoRoutines * size)..(numRoutes - 1)

Routes == UNION {0..(n - 1) : n \in RouteCounts}

Ended == stopped \/ main = "panic" \/ failed # {}

\* Every route that a goroutine gets is published, and again after every
\* heartbeat, unless the runner is stopped.  The others never are: with a
\* remainder of the size of a part or more the last routes of the range are
\* lost, although the runner's tests expect a message for each.
AllRoutesPublished ==
  /\ \A r \in Routes :
       []<>(r \in published \/ r >= numRoutes \/ r \in Unassigned \/ Ended)
  /\ [](published \cap Unassigned = {})
=============================================================================
