------------------------------ MODULE CfPusher ------------------------------
(***************************************************************************)
(* cf-pusher: one run sets up an org with its quota and security group,    *)
(* pushes the apps that are missing, waits until they all run and reports  *)
(* success.  Whatever fails ends the run or is left to the last check, and *)
(* the operator runs it again: each run starts from what the runs before   *)
(* it have left behind.                                                    *)
(*                                                                         *)
(* The cf command and the platform are external.  The adapter kills most   *)
(* of its commands after two minutes, which is an error whether or not the *)
(* platform has done what was asked for.  It runs those whose output it    *)
(* reads, and cf push, without a timeout: they may hang for ever.          *)
(***************************************************************************)
EXTENDS Naturals, Sequences, FiniteSets

CONSTANTS
  Groups,        \* the apps of each AppPusher, in order: registry, tick, proxy
  Desired,       \* per app: the instances it should have
  Absent,        \* the app is not there
  Concurrency,   \* of Push and CheckApps
  MaxRetries,    \* checks after the first
  MaxInstances,  \* bound: instances that an older configuration left running
  MaxFaults      \* bound: commands, apps and runs that fail by themselves

Applications == Groups[1] \o Groups[2] \o Groups[3]
Apps == {Applications[i] : i \in DOMAIN Applications}

ASSUME CfPusherAssumption ==
  /\ Groups \in Seq(Seq(Apps)) /\ Len(Groups) = 3
  /\ Cardinality(Apps) = Len(Applications) /\ Absent \notin Apps
  /\ MaxInstances \in Nat /\ Desired \in [Apps -> 1..MaxInstances]
  /\ Concurrency \in Nat \ {0} /\ MaxRetries \in Nat /\ MaxFaults \in Nat

VARIABLES
  stage,     \* where main is; "stopped" between two runs
  at,        \* the next command of the stage
  outcome,   \* how the last run ended
  cf,        \* the platform: org, space, target, quota, security group, and
             \* how many apps the org has that the configuration does not name
  apps,      \* per app of the configuration: Absent or its instances
  group,     \* the group that is pushed
  todo,      \* apps for which no goroutine has been started yet
  work,      \* per app: what its goroutine does next
  err,       \* errs has an error
  retries,
  down,      \* history: apps that crashed since the last count
  skipped,   \* history: this run found the group as expected but not bound
  faults

vars == <<stage, at, outcome, cf, apps, group, todo, work, err, retries,
          down, skipped, faults>>

Idle == [a \in Apps |-> "none"]
Busy == {a \in Apps : work[a] # "none"}
Fault == faults < MaxFaults /\ faults' = faults + 1

Init ==
  /\ stage = "stopped" /\ at = 1 /\ outcome = "none"
  /\ cf = [org |-> FALSE, space |-> FALSE, target |-> "none", quota |-> FALSE,
           quotaSet |-> FALSE, asg |-> "none", bound |-> FALSE, others |-> 0]
  /\ apps = [a \in Apps |-> Absent]
  /\ group = 1 /\ todo = <<>> /\ work = Idle /\ err = FALSE
  /\ retries = 0 /\ down = {} /\ skipped = FALSE /\ faults = 0

---------------------------------------------------------------------------
(* The commands of the adapter *)

\* What the platform refuses.  Creating what is there, and deleting what is
\* not, is no error.
Possible(cmd) ==
  CASE cmd \in {"target-org", "create-space"} -> cf.org
    [] cmd = "target-space" -> cf.target # "none" /\ cf.space
    [] cmd = "set-quota" -> cf.org /\ cf.quota
    [] cmd = "bind-asg" -> cf.space /\ cf.asg # "none"
    [] OTHER -> TRUE

\* Targeting an org also targets its space when there is only one.
Effect(cmd) ==
  CASE cmd = "create-org" -> [cf EXCEPT !.org = TRUE]
    [] cmd = "target-org" -> [cf EXCEPT !.target = IF cf.space THEN "space" ELSE "org"]
    [] cmd = "create-space" -> [cf EXCEPT !.space = TRUE]
    [] cmd = "target-space" -> [cf EXCEPT !.target = "space"]
    [] cmd = "create-quota" -> [cf EXCEPT !.quota = TRUE]
    [] cmd = "set-quota" -> [cf EXCEPT !.quotaSet = TRUE]
    [] cmd = "delete-asg" -> [cf EXCEPT !.asg = "none", !.bound = FALSE]
    [] cmd = "create-asg" -> [cf EXCEPT !.asg = IF @ = "none" THEN "expected" ELSE @]
    [] cmd = "bind-asg" -> [cf EXCEPT !.bound = TRUE]
    [] cmd = "delete-org" -> [cf EXCEPT !.org = FALSE, !.space = FALSE, !.bound = FALSE,
                                        !.target = "none", !.quotaSet = FALSE, !.others = 0]
    [] cmd = "delete-quota" -> [cf EXCEPT !.quota = FALSE]
    [] OTHER -> cf

\* An org takes its apps with it.
AppsAfter(cmd) == IF cmd = "delete-org" THEN [a \in Apps |-> Absent] ELSE apps

Connect == <<"api", "auth">>
CheckOrgExists == <<"target-org">>
Delete == <<"delete-org", "delete-quota">>

Create == <<"create-org", "target-org", "create-space", "target-space",
            "create-quota", "set-quota">>

InstallASG == <<"delete-asg", "create-asg", "bind-asg">>

Script ==
  [connect |-> Connect,
   target |-> <<"target-org", "target-space">>,
   checkorg |-> CheckOrgExists,
   create |-> Create,
   install |-> InstallASG,
   delete |-> Delete]

After ==
  [connect |-> "target", target |-> "checkorg", checkorg |-> "checkasg",
   create |-> "checkasg", install |-> "push", delete |-> "stopped"]

---------------------------------------------------------------------------
(* A run *)

Enter(s) ==
  /\ stage' = s /\ at' = 1
  /\ IF s = "push" THEN group' = 1 /\ todo' = Groups[1] /\ err' = FALSE
     ELSE UNCHANGED <<group, todo, err>>

Advance ==
  IF at < Len(Script[stage])
  THEN at' = at + 1 /\ UNCHANGED <<stage, group, todo, err>>
  ELSE Enter(After[stage])

\* log.Fatal, success, or a signal: goroutines and commands end with the process.
Exit(o) ==
  /\ stage' = "stopped" /\ at' = 1 /\ outcome' = o
  /\ group' = 1 /\ todo' = <<>> /\ work' = Idle /\ err' = FALSE /\ retries' = 0

\* The operator starts a run, unless one has succeeded.
Start ==
  /\ stage = "stopped" /\ outcome # "success"
  /\ Enter("connect") /\ outcome' = "none" /\ skipped' = FALSE
  /\ UNCHANGED <<cf, apps, work, retries, down, faults>>

\* OrgDeleter.Delete, between two runs.
TearDown ==
  /\ stage = "stopped" /\ cf.org /\ Fault
  /\ Enter("delete") /\ outcome' = "none"
  /\ UNCHANGED <<cf, apps, work, retries, down, skipped>>

\* The org may also hold apps of an older configuration: some that this one
\* names too,
OlderApp(a) ==
  /\ stage = "stopped" /\ cf.space /\ apps[a] = Absent /\ Fault
  /\ \E n \in 1..MaxInstances :
       apps' = [apps EXCEPT ![a] = [instances |-> n, running |-> n]]
  /\ UNCHANGED <<stage, at, outcome, cf, group, todo, work, err, retries, down, skipped>>

\* and others, of a larger one or of another space.
OtherApp ==
  /\ stage = "stopped" /\ cf.org /\ Fault
  /\ cf' = [cf EXCEPT !.others = @ + 1]
  /\ UNCHANGED <<stage, at, outcome, apps, group, todo, work, err, retries, down, skipped>>

CommandRuns ==
  /\ stage \in DOMAIN Script
  /\ LET cmd == Script[stage][at]
     IN  Possible(cmd) /\ cf' = Effect(cmd) /\ apps' = AppsAfter(cmd)
  /\ Advance
  /\ UNCHANGED <<outcome, work, retries, down, skipped, faults>>

\* A command fails, or times out.  The errors of the first targeting are
\* ignored, CheckOrgExists takes any error for a missing org, and all others
\* are fatal.
CommandFails ==
  /\ stage \in DOMAIN Script
  /\ LET cmd == Script[stage][at]
     IN  \/ ~Possible(cmd) /\ UNCHANGED <<cf, apps, faults>>
         \/ /\ Possible(cmd) /\ Fault
            /\ \/ UNCHANGED <<cf, apps>>
               \/ cf' = Effect(cmd) /\ apps' = AppsAfter(cmd)
  /\ CASE stage = "target" -> Advance /\ UNCHANGED <<outcome, work, retries>>
       [] stage = "checkorg" -> Enter("create") /\ UNCHANGED <<outcome, work, retries>>
       [] OTHER -> Exit("fatal")
  /\ UNCHANGED <<down, skipped>>

\* CheckASG: a group with the expected rules is taken as installed; any error
\* installs it.
CheckASG ==
  /\ stage = "checkasg"
  /\ \/ cf.asg = "expected" /\ Enter("push") /\ skipped' = ~cf.bound /\ UNCHANGED faults
     \/ cf.asg # "expected" /\ Enter("install") /\ UNCHANGED <<skipped, faults>>
     \/ Fault /\ Enter("install") /\ UNCHANGED skipped
  /\ UNCHANGED <<outcome, cf, apps, work, retries, down>>

---------------------------------------------------------------------------
(* Push and CheckApps: one goroutine per app, Concurrency of them at a time *)

StartWorker ==
  /\ stage \in {"push", "check"} /\ todo # <<>> /\ Cardinality(Busy) < Concurrency
  /\ work' = [work EXCEPT ![Head(todo)] = "look"]
  /\ todo' = Tail(todo)
  /\ UNCHANGED <<stage, at, outcome, cf, apps, group, err, retries, down, skipped, faults>>

\* Mutant: an app that is there is never pushed again.
shouldPushApp_IfAbsent(a) == cf.target # "space" \/ apps[a] = Absent

\* AppGuid needs the space; what cannot be read is pushed.
shouldPushApp(a) ==
  cf.target # "space" \/ apps[a] = Absent \/ apps[a].running < Desired[a]

LookBeforePush(a) ==
  /\ stage = "push" /\ work[a] = "look"
  /\ \/ /\ work' = [work EXCEPT ![a] = IF shouldPushApp(a) THEN "push" ELSE "none"]
        /\ UNCHANGED faults
     \/ Fault /\ work' = [work EXCEPT ![a] = "push"]
  /\ UNCHANGED <<stage, at, outcome, cf, apps, group, todo, err, retries, down, skipped>>

\* cf push waits for one instance; the others are still starting.
PushApp(a) ==
  /\ stage = "push" /\ work[a] = "push" /\ cf.target = "space"
  /\ \E n \in 1..Desired[a] :
       apps' = [apps EXCEPT ![a] = [instances |-> Desired[a], running |-> n]]
  /\ work' = [work EXCEPT ![a] = "none"]
  /\ UNCHANGED <<stage, at, outcome, cf, group, todo, err, retries, down, skipped, faults>>

\* Mutant: a goroutine that fails does not give its place back.
PushFails_KeepsPlace(a) ==
  /\ stage = "push" /\ work[a] = "push"
  /\ \/ cf.target # "space" /\ UNCHANGED <<apps, faults>>
     \/ /\ cf.target = "space" /\ Fault
        /\ \/ UNCHANGED apps
           \/ apps' = [apps EXCEPT ![a] = [instances |-> Desired[a], running |-> 0]]
  /\ work' = [work EXCEPT ![a] = "failed"] /\ err' = TRUE
  /\ UNCHANGED <<stage, at, outcome, cf, group, todo, retries, down, skipped>>

\* Without a space, or when the app does not start, there is an error.
PushFails(a) ==
  /\ stage = "push" /\ work[a] = "push"
  /\ \/ cf.target # "space" /\ UNCHANGED <<apps, faults>>
     \/ /\ cf.target = "space" /\ Fault
        /\ \/ UNCHANGED apps
           \/ apps' = [apps EXCEPT ![a] = [instances |-> Desired[a], running |-> 0]]
  /\ work' = [work EXCEPT ![a] = "none"] /\ err' = TRUE
  /\ UNCHANGED <<stage, at, outcome, cf, group, todo, retries, down, skipped>>

\* The places of the goroutines are all free again: they have ended.
Ended == todo = <<>> /\ Busy = {}

\* Push returns; an error is only logged.
Pushed ==
  /\ stage = "push" /\ Ended
  /\ err' = FALSE
  /\ IF group < 3 THEN group' = group + 1 /\ todo' = Groups[group + 1] /\ UNCHANGED stage
     ELSE stage' = "count" /\ UNCHANGED <<group, todo>>
  /\ UNCHANGED <<at, outcome, cf, apps, work, retries, down, skipped, faults>>

\* CheckApps fails: the apps have half a minute, in which those that can start
\* do, and there is a last try.
CheckFailed ==
  IF retries = MaxRetries
  THEN Exit("fatal") /\ UNCHANGED apps
  ELSE /\ retries' = retries + 1 /\ stage' = "count" /\ err' = FALSE
       /\ apps' = [a \in Apps |->
                     IF apps[a] = Absent THEN Absent
                     ELSE [apps[a] EXCEPT !.running = apps[a].instances]]
       /\ UNCHANGED <<at, outcome, group, todo, work>>

\* All apps of the org are counted.
AppCount == Cardinality({a \in Apps : apps[a] # Absent}) + cf.others

\* CheckApps: OrgGuid and AppCount.
CountApps ==
  /\ stage = "count"
  /\ \/ /\ cf.org /\ AppCount = Len(Applications)
        /\ stage' = "check" /\ todo' = Applications /\ err' = FALSE
        /\ UNCHANGED <<at, outcome, apps, group, work, retries, faults>>
     \/ /\ ~cf.org \/ AppCount # Len(Applications)
        /\ CheckFailed /\ UNCHANGED faults
     \/ Fault /\ CheckFailed
  /\ down' = {}
  /\ UNCHANGED <<cf, skipped>>

\* One goroutine: the summary has instances, all running, as many as desired.
Healthy(a) ==
  /\ cf.target = "space" /\ apps[a] # Absent
  /\ apps[a].instances > 0 /\ apps[a].running = apps[a].instances
  /\ apps[a].running = Desired[a]

CheckApp(a) ==
  /\ stage = "check" /\ work[a] = "look"
  /\ work' = [work EXCEPT ![a] = "none"]
  /\ \/ err' = (err \/ ~Healthy(a)) /\ UNCHANGED faults
     \/ Fault /\ err' = TRUE
  /\ UNCHANGED <<stage, at, outcome, cf, apps, group, todo, retries, down, skipped>>

\* Mutant: the last goroutines are not waited for.
Checked_NotAll ==
  /\ stage = "check" /\ todo = <<>>
  /\ IF err THEN CheckFailed ELSE Exit("success") /\ UNCHANGED apps
  /\ UNCHANGED <<cf, down, skipped, faults>>

Checked ==
  /\ stage = "check" /\ Ended
  /\ IF err THEN CheckFailed ELSE Exit("success") /\ UNCHANGED apps
  /\ UNCHANGED <<cf, down, skipped, faults>>

---------------------------------------------------------------------------
(* Faults and the specification *)

\* An instance of an app crashes.
AppCrashes(a) ==
  /\ apps[a] # Absent /\ Fault
  /\ apps[a].running > 0
  /\ apps' = [apps EXCEPT ![a].running = @ - 1]
  /\ down' = down \cup {a}
  /\ UNCHANGED <<stage, at, outcome, cf, group, todo, work, err, retries, skipped>>

\* SecurityGroup, OrgGuid or AppCount never returns.
Hangs ==
  /\ stage \in {"checkasg", "count"} /\ Fault
  /\ stage' = "hung"
  /\ UNCHANGED <<at, outcome, cf, apps, group, todo, work, err, retries, down, skipped>>

\* AppGuid, CheckApp or Push never returns; the app may have been pushed.
WorkerHangs(a) ==
  /\ stage \in {"push", "check"} /\ work[a] \in {"look", "push"} /\ Fault
  /\ work' = [work EXCEPT ![a] = "hung"]
  /\ \/ UNCHANGED apps
     \/ /\ work[a] = "push" /\ cf.target = "space"
        /\ apps' = [apps EXCEPT ![a] = [instances |-> Desired[a], running |-> 0]]
  /\ UNCHANGED <<stage, at, outcome, cf, group, todo, err, retries, down, skipped>>

\* The run is killed.
Killed ==
  /\ stage # "stopped" /\ Fault
  /\ Exit("fatal")
  /\ UNCHANGED <<cf, apps, down, skipped>>

Worker(a) == LookBeforePush(a) \/ PushApp(a) \/ PushFails(a) \/ CheckApp(a)

Run ==
  \/ CommandRuns \/ CommandFails \/ CheckASG \/ StartWorker \/ Pushed
  \/ CountApps \/ Checked

Next ==
  \/ Start \/ Run \/ TearDown \/ Killed \/ OtherApp \/ Hangs
  \/ \E a \in Apps : Worker(a) \/ AppCrashes(a) \/ OlderApp(a) \/ WorkerHangs(a)

Spec == Init /\ [][Next]_vars

\* Commands end unless they hang, the goroutines are scheduled, and the operator
\* tries again.  Nobody need kill a run that hangs.
FairSpec ==
  /\ Spec
  /\ WF_vars(Start) /\ WF_vars(Run)
  /\ \A a \in Apps : WF_vars(Worker(a))

---------------------------------------------------------------------------
(* Properties *)

\* Type correctness; goroutines run only inside Push and CheckApps, and no more
\* of them than Concurrency.
TypeOK ==
  /\ stage \in DOMAIN Script \cup {"stopped", "checkasg", "push", "count", "check", "hung"}
  /\ outcome \in {"none", "fatal", "success"}
  /\ group \in 1..3 /\ err \in BOOLEAN /\ retries \in 0..MaxRetries
  /\ \A a \in Apps : apps[a] = Absent \/ apps[a].running <= apps[a].instances
  /\ Busy # {} => stage \in {"push", "check"}
  /\ Cardinality(Busy) <= Concurrency

\* Success is reported only when every app runs with the desired instances,
\* but for one that crashed after the last check had begun, and the security
\* group has the expected rules and is bound, unless the run found the group
\* of an earlier run that had not been bound.  (With the types.)
SuccessMeansReady ==
  /\ TypeOK
  /\ outcome = "success" =>
       /\ \A a \in Apps : a \in down \/ (apps[a] # Absent /\ apps[a].running = Desired[a])
       /\ cf.asg = "expected" /\ (cf.bound \/ skipped)

\* A command that has no timeout does not return.
Hung == stage = "hung" \/ \E a \in Apps : work[a] = "hung"

\* Every run ends, whatever fails in it, unless a command without a timeout
\* hangs: those that have one, failed pushes and failed checks all lead on.
RunEnds == stage # "stopped" ~> stage = "stopped" \/ Hung

\* Runs repeat until one succeeds, and one does, unless one hangs, with three
\* exceptions: an org without its space, for Create is skipped once the org is
\* there; an app with more instances than desired, which is never pushed again;
\* and apps in the org that the configuration does not name, which spoil the
\* count of every run.
RerunsConverge ==
  \/ <>(outcome = "success")
  \/ <>[]Hung
  \/ <>[](\/ cf.org /\ ~cf.space
          \/ cf.others > 0
          \/ \E a \in Apps : apps[a] # Absent /\ apps[a].instances > Desired[a])
=============================================================================
