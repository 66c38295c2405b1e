--------------------------- MODULE CfPusherProofs ---------------------------
(***************************************************************************)
(* Proofs about CfPusher, for any apps, instances, concurrency, retries    *)
(* and number of faults.                                                   *)
(***************************************************************************)
EXTENDS CfPusher, FiniteSetTheorems, SequenceTheorems, TLAPS

---------------------------------------------------------------------------
(* The inductive invariant *)

Platforms ==
  [org : BOOLEAN, space : BOOLEAN, target : {"none", "org", "space"}, quota : BOOLEAN,
   quotaSet : BOOLEAN, asg : {"none", "expected"}, bound : BOOLEAN,
   others : Nat]

AppState(s) == s = Absent \/ (s \in [instances : Nat, running : Nat] /\ s.running <= s.instances)

Stages == {"connect", "target", "checkorg", "create", "install", "delete",
           "stopped", "checkasg", "push", "count", "check", "hung"}

PlatformInv ==
  /\ cf \in Platforms
  /\ apps = [a \in Apps |-> apps[a]] /\ \A a \in Apps : AppState(apps[a])

WorkInv ==
  /\ todo \in Seq(Apps) /\ work \in [Apps -> {"none", "look", "push", "hung"}]
  /\ Cardinality(Busy) <= Concurrency

RunInv ==
  /\ stage \in Stages /\ outcome \in {"none", "fatal", "success"}
  /\ group \in 1..3 /\ err \in BOOLEAN /\ retries \in 0..MaxRetries
  /\ outcome = "success" => stage = "stopped"
  /\ stage \notin {"push", "check"} => Busy = {}

Shape == PlatformInv /\ WorkInv /\ RunInv

\* Between the second and the third command of InstallASG, and from Push on,
\* the group has the expected rules.
GroupOK == cf.asg = "expected" /\ (cf.bound \/ skipped)

GroupInv ==
  /\ stage = "install" => at \in 1..3 /\ (at = 3 => cf.asg = "expected")
  /\ stage \in {"push", "count", "check"} => GroupOK

\* An app the check has found no error with is still to be looked at, runs as
\* desired, or has crashed since.
Ready(a) == apps[a] # Absent /\ apps[a].running = Desired[a]
Waiting(a) == work[a] # "none" \/ \E i \in DOMAIN todo : todo[i] = a

CheckInv == stage = "check" /\ ~err => \A a \in Apps : a \in down \/ Waiting(a) \/ Ready(a)

ReadyInv == outcome = "success" => GroupOK /\ \A a \in Apps : a \in down \/ Ready(a)

PusherInv == Shape /\ GroupInv /\ CheckInv /\ ReadyInv

---------------------------------------------------------------------------
(* The apps *)

LEMMA GroupsFacts ==
  /\ Groups[1] \in Seq(Apps) /\ Groups[2] \in Seq(Apps) /\ Groups[3] \in Seq(Apps)
  /\ \A g \in 1..3 : Groups[g] \in Seq(Apps)
<1>1. Groups \in Seq(Seq(Apps)) /\ Len(Groups) = 3  BY CfPusherAssumption
<1>2. \A g \in 1..Len(Groups) : Groups[g] \in Seq(Apps)
  <2>1. PICK T, f : T = Seq(Apps) /\ f = Groups  OBVIOUS
  <2>2. f \in Seq(T)  BY <1>1, <2>1
  <2>3. \A g \in 1..Len(f) : f[g] \in T  BY <2>2
  <2>. QED  BY <2>1, <2>3
<1>3. \A g \in 1..3 : Groups[g] \in Seq(Apps)  BY <1>1, <1>2
<1>. QED  BY <1>3

LEMMA ApplicationsFacts ==
  /\ Applications \in Seq(Apps)
  /\ \A a \in Apps : \E i \in DOMAIN Applications : Applications[i] = a
  /\ IsFiniteSet(Apps)
<1>1. PICK x, y, z : x = Groups[1] /\ y = Groups[2] /\ z = Groups[3]  OBVIOUS
<1>2. x \in Seq(Apps) /\ y \in Seq(Apps) /\ z \in Seq(Apps)  BY <1>1, GroupsFacts
<1>3. (x \o y) \o z \in Seq(Apps)  BY <1>2
<1>4. Applications \in Seq(Apps)  BY <1>1, <1>3 DEF Applications
<1>5. \A a \in Apps : \E i \in DOMAIN Applications : Applications[i] = a  BY DEF Apps
<1>6. IsFiniteSet(Apps)
  <2>1. PICK f : f = Applications  OBVIOUS
  <2>2. f \in [1..Len(f) -> Apps] /\ Len(f) \in Int /\ DOMAIN f = 1..Len(f)  BY <1>4, <2>1
  <2>3. f \in Surjection(1..Len(f), Apps)  BY <1>5, <2>1, <2>2 DEF Surjection
  <2>4. IsFiniteSet(1..Len(f))
    <3>1. 1 \in Int  OBVIOUS
    <3>. QED  BY <2>2, <3>1, FS_Interval
  <2>. QED  BY <2>3, <2>4, FS_Surjection
<1>. QED  BY <1>4, <1>5, <1>6

LEMMA IdleNoneBusy ==
  ASSUME work' = Idle
  PROVE  /\ work' \in [Apps -> {"none", "look", "push", "hung"}] /\ Busy' = {}
         /\ Cardinality(Busy') <= Concurrency
<1>1. work' \in [Apps -> {"none", "look", "push", "hung"}]  BY DEF Idle
<1>2. Busy' = {}  BY DEF Idle, Busy
<1>3. Cardinality({}) = 0  BY FS_EmptySet
<1>. QED  BY <1>1, <1>2, <1>3, CfPusherAssumption

\* A goroutine that goes on or ends takes no new place.
LEMMA FewerBusy ==
  ASSUME WorkInv, NEW a \in Apps, work[a] # "none", NEW w \in {"none", "push", "hung"},
         work' = [work EXCEPT ![a] = w]
  PROVE  /\ work' \in [Apps -> {"none", "look", "push", "hung"}] /\ Busy' \subseteq Busy
         /\ Cardinality(Busy') <= Concurrency
         /\ \A b \in Apps \ {a} : work'[b] = work[b]
<1>1. work' \in [Apps -> {"none", "look", "push", "hung"}]  BY DEF WorkInv
<1>2. \A b \in Apps \ {a} : work'[b] = work[b]  BY DEF WorkInv
<1>3. Busy' \subseteq Busy  BY <1>2 DEF Busy
<1>4. Busy \subseteq Apps  BY DEF Busy
<1>5. PICK B, C : B = Busy /\ C = Busy'  OBVIOUS
<1>6. IsFiniteSet(B)  BY <1>4, <1>5, ApplicationsFacts, FS_Subset
<1>7. C \in SUBSET B  BY <1>3, <1>5
<1>8. IsFiniteSet(C) /\ Cardinality(C) <= Cardinality(B)  BY <1>6, <1>7, FS_Subset
<1>9. Cardinality(C) \in Nat /\ Cardinality(B) \in Nat  BY <1>6, <1>8, FS_CardinalityType
<1>10. Cardinality(B) <= Concurrency  BY <1>5 DEF WorkInv
<1>11. Cardinality(C) <= Concurrency  BY <1>8, <1>9, <1>10, CfPusherAssumption
<1>. QED  BY <1>1, <1>2, <1>3, <1>5, <1>11

---------------------------------------------------------------------------
(* The platform *)

LEMMA EffectFacts ==
  ASSUME cf \in Platforms, NEW cmd
  PROVE  /\ Effect(cmd) \in Platforms
         /\ cmd = "create-asg" => Effect(cmd).asg = "expected"
         /\ cmd = "bind-asg" => Effect(cmd).asg = cf.asg /\ Effect(cmd).bound = TRUE
<1>1. PICK r \in Platforms : r = cf  OBVIOUS
<1>2. CASE cmd = "create-org"  BY <1>1, <1>2 DEF Effect, Platforms
<1>3. CASE cmd = "target-org"  BY <1>1, <1>3 DEF Effect, Platforms
<1>4. CASE cmd = "create-space"  BY <1>1, <1>4 DEF Effect, Platforms
<1>5. CASE cmd = "target-space"  BY <1>1, <1>5 DEF Effect, Platforms
<1>6. CASE cmd = "create-quota"  BY <1>1, <1>6 DEF Effect, Platforms
<1>7. CASE cmd = "set-quota"  BY <1>1, <1>7 DEF Effect, Platforms
<1>8. CASE cmd = "delete-asg"  BY <1>1, <1>8 DEF Effect, Platforms
<1>9. CASE cmd = "create-asg"  BY <1>1, <1>9 DEF Effect, Platforms
<1>10. CASE cmd = "bind-asg"  BY <1>1, <1>10 DEF Effect, Platforms
<1>11. CASE cmd = "delete-org"  BY <1>1, <1>11 DEF Effect, Platforms
<1>12. CASE cmd = "delete-quota"  BY <1>1, <1>12 DEF Effect, Platforms
<1>13. CASE cmd \notin {"create-org", "target-org", "create-space", "target-space", "create-quota",
                        "set-quota", "delete-asg", "create-asg", "bind-asg", "delete-org", "delete-quota"}
  BY <1>13 DEF Effect
<1>. QED  BY <1>2, <1>3, <1>4, <1>5, <1>6, <1>7, <1>8, <1>9, <1>10, <1>11, <1>12, <1>13

LEMMA PlatformKept ==
  ASSUME PlatformInv, NEW cmd,
         \/ cf' = cf /\ apps' = apps
         \/ cf' = Effect(cmd) /\ apps' = AppsAfter(cmd)
  PROVE  PlatformInv'
<1>1. CASE cf' = cf /\ apps' = apps  BY <1>1 DEF PlatformInv
<1>2. CASE cf' = Effect(cmd) /\ apps' = AppsAfter(cmd)
  <2>1. cf' \in Platforms  BY <1>2, EffectFacts DEF PlatformInv
  <2>2. apps' = [a \in Apps |-> apps'[a]] /\ \A a \in Apps : AppState(apps'[a])
    <3>1. CASE cmd = "delete-org"
      <4>1. apps' = [a \in Apps |-> Absent]  BY <1>2, <3>1 DEF AppsAfter
      <4>. QED  BY <4>1 DEF AppState
    <3>2. CASE cmd # "delete-org"
      <4>1. apps' = apps  BY <1>2, <3>2 DEF AppsAfter
      <4>. QED  BY <4>1 DEF PlatformInv
    <3>. QED  BY <3>1, <3>2
  <2>. QED  BY <2>1, <2>2 DEF PlatformInv
<1>. QED  BY <1>1, <1>2

\* One app changes.
LEMMA AppKept ==
  ASSUME PlatformInv, NEW a \in Apps, NEW s, AppState(s), cf' = cf, apps' = [apps EXCEPT ![a] = s]
  PROVE  PlatformInv' /\ apps'[a] = s /\ \A b \in Apps \ {a} : apps'[b] = apps[b]
<1>1. apps = [b \in Apps |-> apps[b]]  BY DEF PlatformInv
<1>2. apps'[a] = s /\ \A b \in Apps \ {a} : apps'[b] = apps[b]  BY <1>1
<1>3. apps' = [b \in Apps |-> apps'[b]]  BY <1>1
<1>4. \A b \in Apps : AppState(apps'[b])  BY <1>2 DEF PlatformInv
<1>. QED  BY <1>2, <1>3, <1>4 DEF PlatformInv

---------------------------------------------------------------------------
(* Steps outside Push and CheckApps *)

\* Before Push and after a run that failed there is nothing to show but the shape.
LEMMA Quiet ==
  ASSUME Shape', stage' \notin {"push", "count", "check"}, outcome' # "success",
         stage' = "install" => at' = 1
  PROVE  PusherInv'
<1>1. GroupInv'  BY DEF GroupInv
<1>2. CheckInv' /\ ReadyInv'  BY DEF CheckInv, ReadyInv
<1>. QED  BY <1>1, <1>2 DEF PusherInv

LEMMA WorkUnchanged ==
  ASSUME WorkInv, work' = work, todo' \in Seq(Apps)
  PROVE  WorkInv' /\ Busy' = Busy
<1>1. Busy' = Busy  BY DEF Busy
<1>. QED  BY <1>1 DEF WorkInv

\* Going to a stage in which no goroutine runs.
LEMMA Entered ==
  ASSUME Shape, Busy = {}, PlatformInv', work' = work, retries' = retries,
         NEW s \in Stages \ {"push", "count", "check"}, Enter(s),
         outcome' \in {"none", "fatal"}
  PROVE  PusherInv'
<1>1. stage' = s /\ at' = 1 /\ group' = group /\ todo' = todo /\ err' = err  BY DEF Enter
<1>2. WorkInv' /\ Busy' = Busy  BY <1>1, WorkUnchanged DEF Shape, WorkInv
<1>3. RunInv'  BY <1>1, <1>2 DEF Shape, RunInv
<1>4. Shape'  BY <1>2, <1>3 DEF Shape
<1>. QED  BY <1>1, <1>4, Quiet

LEMMA EnteredPush ==
  ASSUME Shape, Busy = {}, PlatformInv', work' = work, retries' = retries, Enter("push"),
         outcome' \in {"none", "fatal"}, GroupOK'
  PROVE  PusherInv'
<1>1. stage' = "push" /\ group' = 1 /\ todo' = Groups[1] /\ err' = FALSE  BY DEF Enter
<1>2. WorkInv' /\ Busy' = Busy  BY <1>1, GroupsFacts, WorkUnchanged DEF Shape
<1>3. RunInv'
  <2>1. err' \in BOOLEAN  BY <1>1
  <2>2. stage' \in Stages /\ stage' = "push"  BY <1>1 DEF Stages
  <2>3. group' \in 1..3 /\ retries' \in 0..MaxRetries  BY <1>1 DEF Shape, RunInv
  <2>. QED  BY <2>1, <2>2, <2>3 DEF RunInv
<1>4. Shape'  BY <1>2, <1>3 DEF Shape
<1>5. GroupInv'  BY <1>1 DEF GroupInv
<1>6. CheckInv' /\ ReadyInv'  BY <1>1 DEF CheckInv, ReadyInv
<1>. QED  BY <1>4, <1>5, <1>6 DEF PusherInv

LEMMA ExitShape ==
  ASSUME PlatformInv', NEW o \in {"fatal", "success"}, Exit(o)
  PROVE  Shape' /\ stage' = "stopped" /\ outcome' = o
<1>1. /\ stage' = "stopped" /\ outcome' = o /\ group' = 1 /\ todo' = <<>>
      /\ work' = Idle /\ err' = FALSE /\ retries' = 0
  BY DEF Exit
<1>2. /\ work' \in [Apps -> {"none", "look", "push", "hung"}] /\ Busy' = {}
      /\ Cardinality(Busy') <= Concurrency
  BY <1>1, IdleNoneBusy
<1>3. todo' \in Seq(Apps)  BY <1>1
<1>4. WorkInv'  BY <1>2, <1>3 DEF WorkInv
<1>5. RunInv'
  <2>1. err' \in BOOLEAN  BY <1>1
  <2>2. stage' \in Stages /\ stage' = "stopped" /\ outcome' \in {"none", "fatal", "success"}
    BY <1>1 DEF Stages
  <2>3. group' \in 1..3 /\ retries' \in 0..MaxRetries  BY <1>1, CfPusherAssumption
  <2>. QED  BY <1>2, <2>1, <2>2, <2>3 DEF RunInv
<1>. QED  BY <1>1, <1>4, <1>5 DEF Shape

LEMMA ExitFatal ==
  ASSUME PlatformInv', Exit("fatal")
  PROVE  PusherInv'
<1>1. PICK o \in {"fatal", "success"} : o = "fatal"  OBVIOUS
<1>2. Shape' /\ stage' = "stopped" /\ outcome' = o  BY <1>1, ExitShape
<1>. QED  BY <1>1, <1>2, Quiet

LEMMA InitHolds == Init => PusherInv
<1>. SUFFICES ASSUME Init PROVE PusherInv  OBVIOUS
<1>1. PlatformInv  BY DEF Init, PlatformInv, Platforms, AppState
<1>2. work \in [Apps -> {"none", "look", "push", "hung"}] /\ Busy = {}  BY DEF Init, Idle, Busy
<1>3. Cardinality(Busy) <= Concurrency  BY <1>2, FS_EmptySet, CfPusherAssumption
<1>4. WorkInv  BY <1>2, <1>3 DEF Init, WorkInv
<1>5. RunInv
  <2>1. err \in BOOLEAN  BY DEF Init
  <2>2. stage \in Stages /\ stage = "stopped" /\ outcome \in {"none", "fatal", "success"}
    BY DEF Init, Stages
  <2>3. group \in 1..3 /\ retries \in 0..MaxRetries  BY CfPusherAssumption DEF Init
  <2>. QED  BY <1>2, <2>1, <2>2, <2>3 DEF RunInv
<1>6. GroupInv  BY DEF Init, GroupInv
<1>7. CheckInv /\ ReadyInv  BY DEF Init, CheckInv, ReadyInv
<1>. QED  BY <1>1, <1>4, <1>5, <1>6, <1>7 DEF PusherInv, Shape

LEMMA NoneBusy ==
  ASSUME Shape, stage \notin {"push", "check"}
  PROVE  Busy = {}
BY DEF Shape, RunInv

LEMMA StartKeeps ==
  ASSUME PusherInv, Start
  PROVE  PusherInv'
<1>1. /\ stage = "stopped" /\ Enter("connect") /\ outcome' = "none" /\ cf' = cf /\ apps' = apps
      /\ work' = work /\ retries' = retries
  BY DEF Start
<1>2. Shape  BY DEF PusherInv
<1>3. Busy = {}  BY <1>1, <1>2, NoneBusy
<1>4. PlatformInv'  BY <1>1, <1>2 DEF Shape, PlatformInv
<1>5. PICK s \in Stages \ {"push", "count", "check"} : s = "connect"  BY DEF Stages
<1>. QED  BY <1>1, <1>2, <1>3, <1>4, <1>5, Entered

LEMMA TearDownKeeps ==
  ASSUME PusherInv, TearDown
  PROVE  PusherInv'
<1>1. /\ stage = "stopped" /\ Enter("delete") /\ outcome' = "none" /\ cf' = cf /\ apps' = apps
      /\ work' = work /\ retries' = retries
  BY DEF TearDown
<1>2. Shape  BY DEF PusherInv
<1>3. Busy = {}  BY <1>1, <1>2, NoneBusy
<1>4. PlatformInv'  BY <1>1, <1>2 DEF Shape, PlatformInv
<1>5. PICK s \in Stages \ {"push", "count", "check"} : s = "delete"  BY DEF Stages
<1>. QED  BY <1>1, <1>2, <1>3, <1>4, <1>5, Entered

LEMMA KilledKeeps ==
  ASSUME PusherInv, Killed
  PROVE  PusherInv'
<1>1. Exit("fatal") /\ cf' = cf /\ apps' = apps  BY DEF Killed
<1>2. PlatformInv'  BY <1>1 DEF PusherInv, Shape, PlatformInv
<1>. QED  BY <1>1, <1>2, ExitFatal

LEMMA ScriptFacts ==
  /\ DOMAIN Script = {"connect", "target", "checkorg", "create", "install", "delete"}
  /\ Script["install"] = InstallASG /\ Len(InstallASG) = 3
  /\ InstallASG[2] = "create-asg" /\ InstallASG[3] = "bind-asg"
  /\ After["install"] = "push"
  /\ \A s \in DOMAIN Script \ {"install"} : After[s] \in {"target", "checkorg", "checkasg", "stopped"}
<1>1. DOMAIN Script = {"connect", "target", "checkorg", "create", "install", "delete"}  BY DEF Script
<1>2. Script["install"] = InstallASG /\ Len(InstallASG) = 3  BY DEF Script, InstallASG
<1>3. InstallASG[2] = "create-asg" /\ InstallASG[3] = "bind-asg"  BY DEF InstallASG
<1>4. After["install"] = "push"  BY DEF After
<1>5. \A s \in DOMAIN Script \ {"install"} : After[s] \in {"target", "checkorg", "checkasg", "stopped"}
  BY <1>1 DEF After
<1>. QED  BY <1>1, <1>2, <1>3, <1>4, <1>5

\* A run that goes on has not succeeded.
LEMMA GoingOn ==
  ASSUME Shape, stage # "stopped"
  PROVE  outcome \in {"none", "fatal"} /\ outcome # "success"
BY DEF Shape, RunInv

LEMMA AdvanceKeeps ==
  ASSUME PusherInv, stage \in DOMAIN Script \ {"install"}, PlatformInv', Advance,
         outcome' = outcome, work' = work, retries' = retries
  PROVE  PusherInv'
<1>1. Shape  BY DEF PusherInv
<1>2. stage \in {"connect", "target", "checkorg", "create", "delete"}  BY ScriptFacts
<1>3. Busy = {}  BY <1>1, <1>2, NoneBusy
<1>4. outcome' \in {"none", "fatal"} /\ outcome' # "success"  BY <1>1, <1>2, GoingOn
<1>5. CASE at < Len(Script[stage])
  <2>1. stage' = stage /\ group' = group /\ todo' = todo /\ err' = err  BY <1>5 DEF Advance
  <2>2. WorkInv' /\ Busy' = Busy  BY <2>1, <1>1, WorkUnchanged DEF Shape, WorkInv
  <2>3. RunInv'  BY <2>1, <2>2, <1>1, <1>3, <1>4 DEF Shape, RunInv
  <2>4. Shape'  BY <2>2, <2>3 DEF Shape
  <2>. QED  BY <2>1, <2>4, <1>2, <1>4, Quiet
<1>6. CASE ~(at < Len(Script[stage]))
  <2>1. Enter(After[stage])  BY <1>6 DEF Advance
  <2>2. PICK s : s = After[stage]  OBVIOUS
  <2>3. s \in Stages \ {"push", "count", "check"}  BY <2>2, ScriptFacts DEF Stages
  <2>. QED  BY <2>1, <2>2, <2>3, <1>1, <1>3, <1>4, Entered
<1>. QED  BY <1>5, <1>6

LEMMA CommandRunsKeeps ==
  ASSUME PusherInv, CommandRuns
  PROVE  PusherInv'
<1>1. PICK cmd : cmd = Script[stage][at]  OBVIOUS
<1>2. /\ stage \in DOMAIN Script /\ cf' = Effect(cmd) /\ apps' = AppsAfter(cmd) /\ Advance
      /\ outcome' = outcome /\ work' = work /\ retries' = retries /\ skipped' = skipped
  BY <1>1 DEF CommandRuns
<1>3. Shape  BY DEF PusherInv
<1>4. PlatformInv'  BY <1>2, <1>3, PlatformKept DEF Shape
<1>5. CASE stage # "install"  BY <1>2, <1>4, <1>5, AdvanceKeeps
<1>6. CASE stage = "install"
  <2>1. at \in 1..3 /\ (at = 3 => cf.asg = "expected")  BY <1>6 DEF PusherInv, GroupInv
  <2>2. Busy = {}  BY <1>3, <1>6, NoneBusy
  <2>3. outcome' \in {"none", "fatal"} /\ outcome' # "success"  BY <1>2, <1>3, <1>6, GoingOn
  <2>4. Len(Script[stage]) = 3 /\ cmd = InstallASG[at]  BY <1>1, <1>6, ScriptFacts
  <2>5. cf \in Platforms  BY <1>3 DEF Shape, PlatformInv
  <2>6. CASE at < 3
    <3>1. at' = at + 1 /\ stage' = stage /\ group' = group /\ todo' = todo /\ err' = err
      BY <1>2, <2>4, <2>6 DEF Advance
    <3>2. WorkInv' /\ Busy' = Busy  BY <3>1, <1>2, <1>3, WorkUnchanged DEF Shape, WorkInv
    <3>3. RunInv'  BY <3>1, <3>2, <1>2, <1>3, <2>2, <2>3 DEF Shape, RunInv
    <3>4. Shape'  BY <1>4, <3>2, <3>3 DEF Shape
    <3>5. at' \in 1..3 /\ (at' = 3 => at = 2)  BY <3>1, <2>1, <2>6
    <3>6. at = 2 => cf'.asg = "expected"  BY <1>2, <2>4, <2>5, ScriptFacts, EffectFacts
    <3>7. GroupInv'  BY <3>1, <3>5, <3>6, <1>6 DEF GroupInv
    <3>8. CheckInv' /\ ReadyInv'  BY <3>1, <1>6, <2>3 DEF CheckInv, ReadyInv
    <3>. QED  BY <3>4, <3>7, <3>8 DEF PusherInv
  <2>7. CASE ~(at < 3)
    <3>1. at = 3  BY <2>1, <2>7
    <3>2. Enter("push")  BY <1>2, <1>6, <2>4, <2>7, ScriptFacts DEF Advance
    <3>3. cmd = "bind-asg"  BY <2>4, <3>1, ScriptFacts
    <3>4. cf'.asg = cf.asg /\ cf'.bound = TRUE  BY <1>2, <2>5, <3>3, EffectFacts
    <3>5. GroupOK'  BY <2>1, <3>1, <3>4 DEF GroupOK
    <3>. QED  BY <1>2, <1>3, <1>4, <2>2, <2>3, <3>2, <3>5, EnteredPush
  <2>. QED  BY <2>6, <2>7
<1>. QED  BY <1>5, <1>6

LEMMA CommandFailsKeeps ==
  ASSUME PusherInv, CommandFails
  PROVE  PusherInv'
<1>1. PICK cmd : cmd = Script[stage][at]  OBVIOUS
<1>2. stage \in DOMAIN Script  BY DEF CommandFails
<1>3. \/ cf' = cf /\ apps' = apps
      \/ cf' = Effect(cmd) /\ apps' = AppsAfter(cmd)
  BY <1>1 DEF CommandFails
<1>4. Shape  BY DEF PusherInv
<1>5. PlatformInv'  BY <1>3, <1>4, PlatformKept DEF Shape
<1>6. CASE stage = "target"
  <2>1. Advance /\ outcome' = outcome /\ work' = work /\ retries' = retries  BY <1>6 DEF CommandFails
  <2>. QED  BY <1>2, <1>5, <1>6, <2>1, AdvanceKeeps
<1>7. CASE stage = "checkorg"
  <2>1. Enter("create") /\ outcome' = outcome /\ work' = work /\ retries' = retries
    BY <1>7 DEF CommandFails
  <2>2. Busy = {}  BY <1>4, <1>7, NoneBusy
  <2>3. outcome' \in {"none", "fatal"}  BY <2>1, <1>4, <1>7, GoingOn
  <2>4. PICK s \in Stages \ {"push", "count", "check"} : s = "create"  BY DEF Stages
  <2>. QED  BY <1>4, <1>5, <2>1, <2>2, <2>3, <2>4, Entered
<1>8. CASE stage # "target" /\ stage # "checkorg"
  <2>1. Exit("fatal")  BY <1>8 DEF CommandFails
  <2>. QED  BY <1>5, <2>1, ExitFatal
<1>. QED  BY <1>6, <1>7, <1>8

LEMMA CheckASGKeeps ==
  ASSUME PusherInv, CheckASG
  PROVE  PusherInv'
<1>1. /\ stage = "checkasg" /\ outcome' = outcome /\ cf' = cf /\ apps' = apps
      /\ work' = work /\ retries' = retries
  BY DEF CheckASG
<1>2. Shape  BY DEF PusherInv
<1>3. Busy = {}  BY <1>1, <1>2, NoneBusy
<1>4. outcome' \in {"none", "fatal"}  BY <1>1, <1>2, GoingOn
<1>5. PlatformInv'  BY <1>1, <1>2 DEF Shape, PlatformInv
<1>6. CASE Enter("install")
  <2>1. PICK s \in Stages \ {"push", "count", "check"} : s = "install"  BY DEF Stages
  <2>. QED  BY <1>1, <1>2, <1>3, <1>4, <1>5, <1>6, <2>1, Entered
<1>7. CASE cf.asg = "expected" /\ Enter("push") /\ skipped' = ~cf.bound
  <2>1. cf'.asg = "expected" /\ (cf'.bound \/ skipped')  BY <1>1, <1>7
  <2>2. GroupOK'  BY <2>1 DEF GroupOK
  <2>. QED  BY <1>1, <1>2, <1>3, <1>4, <1>5, <1>7, <2>2, EnteredPush
<1>. QED  BY <1>6, <1>7 DEF CheckASG

---------------------------------------------------------------------------
(* Push and CheckApps *)

LEMMA GroupStays ==
  ASSUME GroupInv, stage' = stage, at' = at, cf' = cf, skipped' = skipped
  PROVE  GroupInv'
<1>1. GroupOK' <=> GroupOK  BY DEF GroupOK
<1>. QED  BY <1>1 DEF GroupInv

LEMMA RunStays ==
  ASSUME RunInv, stage' = stage, outcome' = outcome, group' = group, err' \in BOOLEAN,
         retries' = retries, stage \notin {"push", "check"} => Busy' = {}
  PROVE  RunInv'
BY DEF RunInv

LEMMA NotDone ==
  ASSUME Shape, stage # "stopped", outcome' = outcome
  PROVE  ReadyInv'
<1>1. outcome' # "success"  BY GoingOn
<1>. QED  BY <1>1 DEF ReadyInv

LEMMA StartWorkerKeeps ==
  ASSUME PusherInv, StartWorker
  PROVE  PusherInv'
<1>1. /\ stage \in {"push", "check"} /\ todo # <<>> /\ Cardinality(Busy) < Concurrency
      /\ work' = [work EXCEPT ![Head(todo)] = "look"] /\ todo' = Tail(todo)
      /\ stage' = stage /\ at' = at /\ outcome' = outcome /\ cf' = cf /\ apps' = apps
      /\ group' = group /\ err' = err /\ retries' = retries /\ down' = down /\ skipped' = skipped
  BY DEF StartWorker
<1>2. Shape /\ GroupInv /\ CheckInv  BY DEF PusherInv
<1>3. todo \in Seq(Apps) /\ work \in [Apps -> {"none", "look", "push", "hung"}]  BY <1>2 DEF Shape, WorkInv
<1>4. PICK h : h = Head(todo)  OBVIOUS
<1>5. /\ h \in Apps /\ todo' \in Seq(Apps) /\ Len(todo') = Len(todo) - 1 /\ h = todo[1]
      /\ \A i \in 1..Len(todo') : todo'[i] = todo[i + 1]
  BY <1>1, <1>3, <1>4, HeadTailProperties
<1>6. /\ work' \in [Apps -> {"none", "look", "push", "hung"}] /\ work'[h] = "look"
      /\ \A a \in Apps \ {h} : work'[a] = work[a]
  BY <1>1, <1>3, <1>4, <1>5
<1>7. Cardinality(Busy') <= Concurrency
  <2>1. Busy' = Busy \cup {h}  BY <1>5, <1>6 DEF Busy
  <2>2. PICK B : B = Busy  OBVIOUS
  <2>3. B \in SUBSET Apps  BY <2>2 DEF Busy
  <2>4. IsFiniteSet(B)  BY <2>3, ApplicationsFacts, FS_Subset
  <2>5. Cardinality(B) \in Nat  BY <2>4, FS_CardinalityType
  <2>6. Cardinality(B \cup {h}) = IF h \in B THEN Cardinality(B) ELSE Cardinality(B) + 1
    BY <2>4, FS_AddElement
  <2>7. Cardinality(B \cup {h}) <= Concurrency  BY <1>1, <2>2, <2>5, <2>6, CfPusherAssumption
  <2>. QED  BY <2>1, <2>2, <2>7
<1>8. WorkInv'  BY <1>5, <1>6, <1>7 DEF WorkInv
<1>9. RunInv'  BY <1>1, <1>2 DEF Shape, RunInv
<1>10. PlatformInv'  BY <1>1, <1>2 DEF Shape, PlatformInv
<1>11. ASSUME stage' = "check", ~err' PROVE \A a \in Apps : (a \in down \/ Waiting(a) \/ Ready(a))'
  <2>1. SUFFICES ASSUME NEW a \in Apps PROVE (a \in down \/ Waiting(a) \/ Ready(a))'  OBVIOUS
  <2>2. a \in down \/ Waiting(a) \/ Ready(a)  BY <1>1, <1>2, <1>11 DEF CheckInv
  <2>3. Ready(a) => Ready(a)'  BY <1>1 DEF Ready
  <2>4. Waiting(a) => Waiting(a)'
    <3>1. CASE a = h  BY <1>6, <3>1 DEF Waiting
    <3>2. CASE a # h /\ work[a] # "none"  BY <1>6, <3>2 DEF Waiting
    <3>3. ASSUME a # h, NEW i \in DOMAIN todo, todo[i] = a PROVE Waiting(a)'
      <4>1. i \in 1..Len(todo) /\ Len(todo) \in Nat  BY <1>3
      <4>2. i # 1  BY <1>5, <3>3
      <4>3. i - 1 \in 1..Len(todo') /\ i - 1 + 1 = i  BY <4>1, <4>2, <1>5
      <4>4. todo'[i - 1] = a  BY <4>3, <1>5, <3>3
      <4>5. i - 1 \in DOMAIN todo'  BY <4>3, <1>5
      <4>. QED  BY <4>4, <4>5 DEF Waiting
    <3>. QED  BY <3>1, <3>2, <3>3 DEF Waiting
  <2>. QED  BY <2>2, <2>3, <2>4, <1>1
<1>12. CheckInv'  BY <1>11 DEF CheckInv
<1>13. GroupInv'  BY <1>1, <1>2, GroupStays
<1>14. ReadyInv'  BY <1>1, <1>2, NotDone
<1>. QED  BY <1>8, <1>9, <1>10, <1>12, <1>13, <1>14 DEF PusherInv, Shape

\* A goroutine of Push goes on or ends.
LEMMA PushStep ==
  ASSUME PusherInv, stage = "push", NEW a \in Apps, work[a] # "none", NEW w \in {"none", "push", "hung"},
         work' = [work EXCEPT ![a] = w], PlatformInv', stage' = stage, at' = at,
         outcome' = outcome, cf' = cf, group' = group, todo' = todo, err' \in BOOLEAN,
         retries' = retries, skipped' = skipped
  PROVE  PusherInv'
<1>1. Shape /\ GroupInv  BY DEF PusherInv
<1>2. /\ work' \in [Apps -> {"none", "look", "push", "hung"}]
      /\ Cardinality(Busy') <= Concurrency
  BY <1>1, FewerBusy DEF Shape
<1>3. WorkInv'  BY <1>1, <1>2 DEF Shape, WorkInv
<1>4. RunInv'  BY <1>1, RunStays DEF Shape
<1>5. GroupInv'  BY <1>1, GroupStays
<1>6. CheckInv'  BY DEF CheckInv
<1>7. ReadyInv'  BY <1>1, NotDone
<1>. QED  BY <1>3, <1>4, <1>5, <1>6, <1>7 DEF PusherInv, Shape

LEMMA LookKeeps ==
  ASSUME PusherInv, NEW a \in Apps, LookBeforePush(a)
  PROVE  PusherInv'
<1>1. /\ stage = "push" /\ work[a] # "none" /\ stage' = stage /\ at' = at /\ outcome' = outcome
      /\ cf' = cf /\ apps' = apps /\ group' = group /\ todo' = todo /\ err' = err
      /\ retries' = retries /\ skipped' = skipped
  BY DEF LookBeforePush
<1>2. PICK w \in {"none", "push", "hung"} : work' = [work EXCEPT ![a] = w]  BY DEF LookBeforePush
<1>3. PlatformInv' /\ err' \in BOOLEAN  BY <1>1 DEF PusherInv, Shape, PlatformInv, RunInv
<1>. QED  BY <1>1, <1>2, <1>3, PushStep

LEMMA DesiredFacts ==
  ASSUME NEW a \in Apps
  PROVE  Desired[a] \in Nat /\ Desired[a] > 0
BY CfPusherAssumption

LEMMA PushAppKeeps ==
  ASSUME PusherInv, NEW a \in Apps, PushApp(a)
  PROVE  PusherInv'
<1>1. /\ stage = "push" /\ work[a] # "none" /\ stage' = stage /\ at' = at /\ outcome' = outcome
      /\ cf' = cf /\ group' = group /\ todo' = todo /\ err' = err
      /\ retries' = retries /\ skipped' = skipped /\ work' = [work EXCEPT ![a] = "none"]
  BY DEF PushApp
<1>2. PICK n \in 1..Desired[a] :
        apps' = [apps EXCEPT ![a] = [instances |-> Desired[a], running |-> n]]
  BY DEF PushApp
<1>3. AppState([instances |-> Desired[a], running |-> n])
  BY DesiredFacts DEF AppState
<1>4. PICK s : s = [instances |-> Desired[a], running |-> n]  OBVIOUS
<1>5. PlatformInv'  BY <1>1, <1>2, <1>3, <1>4, AppKept DEF PusherInv, Shape
<1>6. err' \in BOOLEAN  BY <1>1 DEF PusherInv, Shape, RunInv
<1>7. PICK w \in {"none", "push", "hung"} : w = "none"  OBVIOUS
<1>. QED  BY <1>1, <1>5, <1>6, <1>7, PushStep

LEMMA PushFailsKeeps ==
  ASSUME PusherInv, NEW a \in Apps, PushFails(a)
  PROVE  PusherInv'
<1>1. /\ stage = "push" /\ work[a] # "none" /\ stage' = stage /\ at' = at /\ outcome' = outcome
      /\ cf' = cf /\ group' = group /\ todo' = todo
      /\ retries' = retries /\ skipped' = skipped /\ work' = [work EXCEPT ![a] = "none"]
  BY DEF PushFails
<1>2. err' \in BOOLEAN  BY DEF PushFails
<1>3. PICK s : s = [instances |-> Desired[a], running |-> 0]  OBVIOUS
<1>4. apps' = apps \/ apps' = [apps EXCEPT ![a] = s]  BY <1>3 DEF PushFails
<1>5. AppState(s)  BY <1>3, DesiredFacts DEF AppState
<1>6. PlatformInv  BY DEF PusherInv, Shape
<1>7. PlatformInv'
  <2>1. CASE apps' = apps  BY <1>1, <1>6, <2>1 DEF PlatformInv
  <2>2. CASE apps' = [apps EXCEPT ![a] = s]  BY <1>1, <1>5, <1>6, <2>2, AppKept
  <2>. QED  BY <1>4, <2>1, <2>2
<1>8. PICK w \in {"none", "push", "hung"} : w = "none"  OBVIOUS
<1>. QED  BY <1>1, <1>2, <1>7, <1>8, PushStep

LEMMA PushedKeeps ==
  ASSUME PusherInv, Pushed
  PROVE  PusherInv'
<1>1. /\ stage = "push" /\ Busy = {} /\ at' = at /\ outcome' = outcome /\ cf' = cf /\ apps' = apps
      /\ work' = work /\ retries' = retries /\ skipped' = skipped
  BY DEF Pushed, Ended
<1>2. err' \in BOOLEAN  BY DEF Pushed
<1>3. Shape /\ GroupInv  BY DEF PusherInv
<1>4. \/ /\ group < 3 /\ group' = group + 1 /\ todo' = Groups[group + 1] /\ stage' = stage
      \/ stage' = "count" /\ group' = group /\ todo' = todo
  BY DEF Pushed
<1>5. group \in 1..3  BY <1>3 DEF Shape, RunInv
<1>6. group' \in 1..3 /\ todo' \in Seq(Apps) /\ stage' \in {"push", "count"}
  <2>1. CASE group < 3 /\ group' = group + 1 /\ todo' = Groups[group + 1] /\ stage' = stage
    <3>1. group + 1 \in 1..3  BY <1>5, <2>1
    <3>. QED  BY <1>1, <2>1, <3>1, GroupsFacts
  <2>2. CASE stage' = "count" /\ group' = group /\ todo' = todo
    BY <1>3, <1>5, <2>2 DEF Shape, WorkInv
  <2>. QED  BY <1>4, <2>1, <2>2
<1>7. WorkInv' /\ Busy' = Busy  BY <1>1, <1>3, <1>6, WorkUnchanged DEF Shape
<1>8. outcome' \in {"none", "fatal"}  BY <1>1, <1>3, GoingOn
<1>9. RunInv'
  <2>1. stage' \in Stages  BY <1>6 DEF Stages
  <2>2. retries' \in 0..MaxRetries  BY <1>1, <1>3 DEF Shape, RunInv
  <2>. QED  BY <1>1, <1>2, <1>6, <1>7, <1>8, <2>1, <2>2 DEF RunInv
<1>10. PlatformInv'  BY <1>1, <1>3 DEF Shape, PlatformInv
<1>11. GroupInv'
  <2>1. GroupOK  BY <1>1, <1>3 DEF GroupInv
  <2>2. GroupOK'  BY <1>1, <2>1 DEF GroupOK
  <2>. QED  BY <1>6, <2>2 DEF GroupInv
<1>12. CheckInv'  BY <1>6 DEF CheckInv
<1>13. ReadyInv'  BY <1>1, <1>3, NotDone
<1>. QED  BY <1>7, <1>9, <1>10, <1>11, <1>12, <1>13 DEF PusherInv, Shape

\* CheckApps failed, and all its goroutines have ended.
LEMMA CheckFailedKeeps ==
  ASSUME PusherInv, stage \in {"count", "check"}, Busy = {}, CheckFailed,
         cf' = cf, skipped' = skipped
  PROVE  PusherInv'
<1>1. Shape /\ GroupInv  BY DEF PusherInv
<1>2. CASE retries = MaxRetries
  <2>1. Exit("fatal") /\ apps' = apps  BY <1>2 DEF CheckFailed
  <2>2. PlatformInv'  BY <1>1, <2>1 DEF Shape, PlatformInv
  <2>. QED  BY <2>1, <2>2, ExitFatal
<1>3. CASE retries # MaxRetries
  <2>1. /\ retries' = retries + 1 /\ stage' = "count" /\ outcome' = outcome /\ group' = group
        /\ todo' = todo /\ work' = work
    BY <1>3 DEF CheckFailed
  <2>2. err' \in BOOLEAN  BY <1>3 DEF CheckFailed
  <2>3. apps' = [a \in Apps |-> IF apps[a] = Absent THEN Absent
                                ELSE [apps[a] EXCEPT !.running = apps[a].instances]]
    BY <1>3 DEF CheckFailed
  <2>4. ASSUME NEW a \in Apps PROVE AppState(apps'[a])
    <3>1. CASE apps[a] = Absent  BY <2>3, <3>1 DEF AppState
    <3>2. CASE apps[a] # Absent
      <4>1. PICK s \in [instances : Nat, running : Nat] : s = apps[a]
        BY <1>1, <3>2 DEF Shape, PlatformInv, AppState
      <4>2. apps'[a] = [s EXCEPT !.running = s.instances]  BY <2>3, <3>2, <4>1
      <4>. QED  BY <4>1, <4>2 DEF AppState
    <3>. QED  BY <3>1, <3>2
  <2>5. PlatformInv'
    <3>1. apps' = [a \in Apps |-> apps'[a]]  BY <2>3
    <3>. QED  BY <1>1, <2>4, <3>1 DEF Shape, PlatformInv
  <2>6. WorkInv' /\ Busy' = Busy  BY <1>1, <2>1, WorkUnchanged DEF Shape, WorkInv
  <2>7. retries' \in 0..MaxRetries  BY <1>1, <1>3, <2>1, CfPusherAssumption DEF Shape, RunInv
  <2>8. outcome' \in {"none", "fatal"}  BY <1>1, <2>1, GoingOn
  <2>9. RunInv'
    <3>1. stage' \in Stages /\ group' \in 1..3  BY <1>1, <2>1 DEF Shape, RunInv, Stages
    <3>. QED  BY <2>2, <2>6, <2>7, <2>8, <3>1 DEF RunInv
  <2>10. GroupInv'
    <3>1. GroupOK  BY <1>1 DEF GroupInv
    <3>2. GroupOK'  BY <3>1 DEF GroupOK
    <3>. QED  BY <2>1, <3>2 DEF GroupInv
  <2>11. CheckInv'  BY <2>1 DEF CheckInv
  <2>12. ReadyInv'  BY <1>1, <2>1, NotDone
  <2>. QED  BY <2>5, <2>6, <2>9, <2>10, <2>11, <2>12 DEF PusherInv, Shape
<1>. QED  BY <1>2, <1>3

LEMMA CountAppsKeeps ==
  ASSUME PusherInv, CountApps
  PROVE  PusherInv'
<1>1. stage = "count" /\ cf' = cf /\ skipped' = skipped  BY DEF CountApps
<1>2. Shape /\ GroupInv  BY DEF PusherInv
<1>3. Busy = {}  BY <1>1, <1>2, NoneBusy
<1>4. CASE CheckFailed  BY <1>1, <1>3, <1>4, CheckFailedKeeps
<1>5. CASE /\ stage' = "check" /\ todo' = Applications /\ err' = FALSE
           /\ at' = at /\ outcome' = outcome /\ apps' = apps /\ group' = group /\ work' = work
           /\ retries' = retries
  <2>1. WorkInv' /\ Busy' = Busy  BY <1>2, <1>5, ApplicationsFacts, WorkUnchanged DEF Shape
  <2>2. PlatformInv'  BY <1>1, <1>2, <1>5 DEF Shape, PlatformInv
  <2>3. outcome' \in {"none", "fatal"}  BY <1>1, <1>2, <1>5, GoingOn
  <2>4. RunInv'
    <3>1. stage' = "check" /\ stage' \in Stages  BY <1>5 DEF Stages
    <3>2. group' \in 1..3 /\ retries' \in 0..MaxRetries  BY <1>2, <1>5 DEF Shape, RunInv
    <3>3. err' \in BOOLEAN  BY <1>5
    <3>. QED  BY <2>3, <3>1, <3>2, <3>3 DEF RunInv
  <2>5. GroupInv'
    <3>1. GroupOK  BY <1>1, <1>2 DEF GroupInv
    <3>2. GroupOK'  BY <1>1, <3>1 DEF GroupOK
    <3>. QED  BY <1>5, <3>2 DEF GroupInv
  <2>6. \A a \in Apps : Waiting(a)'  BY <1>5, ApplicationsFacts DEF Waiting
  <2>7. CheckInv'  BY <2>6 DEF CheckInv
  <2>8. ReadyInv'  BY <1>1, <1>2, <1>5, NotDone
  <2>. QED  BY <2>1, <2>2, <2>4, <2>5, <2>7, <2>8 DEF PusherInv, Shape
<1>. QED  BY <1>4, <1>5 DEF CountApps

LEMMA CheckAppKeeps ==
  ASSUME PusherInv, NEW a \in Apps, CheckApp(a)
  PROVE  PusherInv'
<1>1. /\ stage = "check" /\ work[a] = "look" /\ work' = [work EXCEPT ![a] = "none"]
      /\ stage' = stage /\ at' = at /\ outcome' = outcome /\ cf' = cf /\ apps' = apps
      /\ group' = group /\ todo' = todo /\ retries' = retries /\ down' = down /\ skipped' = skipped
  BY DEF CheckApp
<1>2. err' \in BOOLEAN  BY DEF CheckApp
<1>3. ~err' => ~err /\ Healthy(a)  BY DEF CheckApp
<1>4. Shape /\ GroupInv /\ CheckInv  BY DEF PusherInv
<1>5. PICK w \in {"none", "push", "hung"} : w = "none"  OBVIOUS
<1>6. /\ work' \in [Apps -> {"none", "look", "push", "hung"}]
      /\ Cardinality(Busy') <= Concurrency
      /\ \A b \in Apps \ {a} : work'[b] = work[b]
  BY <1>1, <1>4, <1>5, FewerBusy DEF Shape
<1>7. WorkInv'  BY <1>1, <1>4, <1>6 DEF Shape, WorkInv
<1>8. RunInv'  BY <1>1, <1>2, <1>4, RunStays DEF Shape
<1>9. PlatformInv'  BY <1>1, <1>4 DEF Shape, PlatformInv
<1>10. ASSUME ~err', NEW b \in Apps PROVE (b \in down \/ Waiting(b) \/ Ready(b))'
  <2>1. b \in down \/ Waiting(b) \/ Ready(b)  BY <1>1, <1>3, <1>4, <1>10 DEF CheckInv
  <2>2. Ready(b)' <=> Ready(b)  BY <1>1 DEF Ready
  <2>3. CASE b = a
    <3>1. Ready(a)  BY <1>3, <1>10 DEF Healthy, Ready
    <3>. QED  BY <2>2, <2>3, <3>1
  <2>4. CASE b # a
    <3>1. Waiting(b)' <=> Waiting(b)  BY <1>1, <1>6, <2>4 DEF Waiting
    <3>. QED  BY <1>1, <2>1, <2>2, <3>1
  <2>. QED  BY <2>3, <2>4
<1>11. CheckInv'  BY <1>10 DEF CheckInv
<1>12. GroupInv'  BY <1>1, <1>4, GroupStays
<1>13. ReadyInv'  BY <1>1, <1>4, NotDone
<1>. QED  BY <1>7, <1>8, <1>9, <1>11, <1>12, <1>13 DEF PusherInv, Shape

LEMMA CheckedKeeps ==
  ASSUME PusherInv, Checked
  PROVE  PusherInv'
<1>1. stage = "check" /\ todo = <<>> /\ Busy = {} /\ cf' = cf /\ down' = down /\ skipped' = skipped
  BY DEF Checked, Ended
<1>2. CASE err
  <2>1. CheckFailed  BY <1>2 DEF Checked
  <2>. QED  BY <1>1, <2>1, CheckFailedKeeps
<1>3. CASE ~err
  <2>1. Exit("success") /\ apps' = apps  BY <1>3 DEF Checked
  <2>2. Shape /\ GroupInv /\ CheckInv  BY DEF PusherInv
  <2>3. PlatformInv'  BY <1>1, <2>1, <2>2 DEF Shape, PlatformInv
  <2>4. PICK o \in {"fatal", "success"} : o = "success"  OBVIOUS
  <2>5. Shape' /\ stage' = "stopped"  BY <2>1, <2>3, <2>4, ExitShape
  <2>6. GroupOK'
    <3>1. GroupOK  BY <1>1, <2>2 DEF GroupInv
    <3>. QED  BY <1>1, <3>1 DEF GroupOK
  <2>7. ASSUME NEW a \in Apps PROVE (a \in down \/ Ready(a))'
    <3>1. a \in down \/ Waiting(a) \/ Ready(a)  BY <1>1, <1>3, <2>2 DEF CheckInv
    <3>2. ~Waiting(a)  BY <1>1 DEF Busy, Waiting
    <3>3. Ready(a) => Ready(a)'  BY <2>1 DEF Ready
    <3>. QED  BY <1>1, <3>1, <3>2, <3>3
  <2>8. ReadyInv'  BY <2>6, <2>7 DEF ReadyInv
  <2>9. GroupInv' /\ CheckInv'  BY <2>5 DEF GroupInv, CheckInv
  <2>. QED  BY <2>5, <2>8, <2>9 DEF PusherInv
<1>. QED  BY <1>2, <1>3

---------------------------------------------------------------------------
(* The apps, by themselves *)

\* An app that is not there, or that has just crashed, may change.
LEMMA AppChanges ==
  ASSUME PusherInv, NEW a \in Apps, NEW s, AppState(s), apps' = [apps EXCEPT ![a] = s],
         stage' = stage, at' = at, outcome' = outcome, cf' = cf, group' = group, todo' = todo,
         work' = work, err' = err, retries' = retries, skipped' = skipped,
         down \subseteq down', (stage = "stopped" /\ apps[a] = Absent) \/ a \in down'
  PROVE  PusherInv'
<1>1. Shape /\ GroupInv /\ CheckInv /\ ReadyInv  BY DEF PusherInv
<1>2. PlatformInv' /\ \A b \in Apps \ {a} : apps'[b] = apps[b]  BY <1>1, AppKept DEF Shape
<1>3. WorkInv' /\ Busy' = Busy  BY <1>1, WorkUnchanged DEF Shape, WorkInv
<1>4. RunInv'
  <2>1. err' \in BOOLEAN  BY <1>1 DEF Shape, RunInv
  <2>2. stage \notin {"push", "check"} => Busy' = {}  BY <1>1, <1>3 DEF Shape, RunInv
  <2>. QED  BY <1>1, <2>1, <2>2, RunStays DEF Shape
<1>5. GroupInv'  BY <1>1, GroupStays
<1>6. \A b \in Apps \ {a} : (Ready(b)' <=> Ready(b)) /\ (Waiting(b)' <=> Waiting(b))
  BY <1>2 DEF Ready, Waiting
<1>7. CheckInv'
  <2>1. SUFFICES ASSUME stage = "check", ~err, NEW b \in Apps
                 PROVE  (b \in down \/ Waiting(b) \/ Ready(b))'
    BY DEF CheckInv
  <2>2. b \in down \/ Waiting(b) \/ Ready(b)  BY <1>1, <2>1 DEF CheckInv
  <2>3. b = a => a \in down'  BY <2>1
  <2>. QED  BY <2>2, <2>3, <1>6
<1>8. ReadyInv'
  <2>1. SUFFICES ASSUME outcome = "success" PROVE GroupOK' /\ \A b \in Apps : (b \in down \/ Ready(b))'
    BY DEF ReadyInv
  <2>2. GroupOK /\ \A b \in Apps : b \in down \/ Ready(b)  BY <1>1, <2>1 DEF ReadyInv
  <2>3. GroupOK'  BY <2>2 DEF GroupOK
  <2>4. a \in down'
    <3>1. apps[a] = Absent => a \in down  BY <2>2 DEF Ready
    <3>. QED  BY <3>1
  <2>. QED  BY <2>2, <2>3, <2>4, <1>6
<1>. QED  BY <1>2, <1>3, <1>4, <1>5, <1>7, <1>8 DEF PusherInv, Shape

LEMMA AppCrashesKeeps ==
  ASSUME PusherInv, NEW a \in Apps, AppCrashes(a)
  PROVE  PusherInv'
<1>1. /\ apps[a] # Absent /\ apps[a].running > 0 /\ down' = down \cup {a}
      /\ apps' = [apps EXCEPT ![a].running = @ - 1]
      /\ stage' = stage /\ at' = at /\ outcome' = outcome /\ cf' = cf /\ group' = group
      /\ todo' = todo /\ work' = work /\ err' = err /\ retries' = retries /\ skipped' = skipped
  BY DEF AppCrashes
<1>2. PlatformInv  BY DEF PusherInv, Shape
<1>3. PICK s \in [instances : Nat, running : Nat] : s = apps[a] /\ s.running <= s.instances
  BY <1>1, <1>2 DEF PlatformInv, AppState
<1>4. PICK u : u = [s EXCEPT !.running = s.running - 1]  OBVIOUS
<1>5. AppState(u)  BY <1>1, <1>3, <1>4 DEF AppState
<1>6. apps' = [apps EXCEPT ![a] = u]  BY <1>1, <1>2, <1>3, <1>4 DEF PlatformInv
<1>7. down \subseteq down' /\ a \in down'  BY <1>1
<1>. QED  BY <1>1, <1>5, <1>6, <1>7, AppChanges

LEMMA OlderAppKeeps ==
  ASSUME PusherInv, NEW a \in Apps, OlderApp(a)
  PROVE  PusherInv'
<1>1. /\ stage = "stopped" /\ apps[a] = Absent /\ down' = down
      /\ stage' = stage /\ at' = at /\ outcome' = outcome /\ cf' = cf /\ group' = group
      /\ todo' = todo /\ work' = work /\ err' = err /\ retries' = retries /\ skipped' = skipped
  BY DEF OlderApp
<1>2. PICK n \in 1..MaxInstances : apps' = [apps EXCEPT ![a] = [instances |-> n, running |-> n]]
  BY DEF OlderApp
<1>3. PICK s : s = [instances |-> n, running |-> n]  OBVIOUS
<1>4. AppState(s)  BY <1>3, CfPusherAssumption DEF AppState
<1>. QED  BY <1>1, <1>2, <1>3, <1>4, AppChanges

LEMMA OtherAppKeeps ==
  ASSUME PusherInv, OtherApp
  PROVE  PusherInv'
<1>1. /\ stage = "stopped" /\ cf' = [cf EXCEPT !.others = @ + 1] /\ apps' = apps /\ down' = down
      /\ stage' = stage /\ at' = at /\ outcome' = outcome /\ group' = group
      /\ todo' = todo /\ work' = work /\ err' = err /\ retries' = retries /\ skipped' = skipped
  BY DEF OtherApp
<1>2. Shape /\ GroupInv /\ CheckInv /\ ReadyInv  BY DEF PusherInv
<1>3. PICK r \in Platforms : r = cf  BY <1>2 DEF Shape, PlatformInv
<1>4. cf' \in Platforms /\ cf'.asg = cf.asg /\ cf'.bound = cf.bound  BY <1>1, <1>3 DEF Platforms
<1>5. PlatformInv'  BY <1>1, <1>2, <1>4 DEF Shape, PlatformInv
<1>6. WorkInv' /\ Busy' = Busy  BY <1>1, <1>2, WorkUnchanged DEF Shape, WorkInv
<1>7. RunInv'  BY <1>1, <1>2, <1>6 DEF Shape, RunInv
<1>8. GroupInv' /\ CheckInv'  BY <1>1 DEF GroupInv, CheckInv
<1>9. GroupOK' <=> GroupOK  BY <1>1, <1>4 DEF GroupOK
<1>10. ReadyInv'  BY <1>1, <1>2, <1>9 DEF ReadyInv, Ready
<1>. QED  BY <1>5, <1>6, <1>7, <1>8, <1>10 DEF PusherInv, Shape

LEMMA HangsKeeps ==
  ASSUME PusherInv, Hangs
  PROVE  PusherInv'
<1>1. /\ stage \in {"checkasg", "count"} /\ stage' = "hung" /\ cf' = cf /\ apps' = apps
      /\ outcome' = outcome /\ group' = group /\ todo' = todo /\ work' = work /\ err' = err
      /\ retries' = retries
  BY DEF Hangs
<1>2. Shape  BY DEF PusherInv
<1>3. Busy = {}  BY <1>1, <1>2, NoneBusy
<1>4. outcome' \in {"none", "fatal"} /\ outcome' # "success"  BY <1>1, <1>2, GoingOn
<1>5. WorkInv' /\ Busy' = Busy  BY <1>1, <1>2, WorkUnchanged DEF Shape, WorkInv
<1>6. stage' \in Stages  BY <1>1 DEF Stages
<1>7. RunInv'  BY <1>1, <1>2, <1>3, <1>4, <1>5, <1>6 DEF Shape, RunInv
<1>8. PlatformInv'  BY <1>1, <1>2 DEF Shape, PlatformInv
<1>9. Shape'  BY <1>5, <1>7, <1>8 DEF Shape
<1>. QED  BY <1>1, <1>4, <1>9, Quiet

\* A goroutine that hangs keeps its place, and its app stays to be looked at.
LEMMA WorkerHangsKeeps ==
  ASSUME PusherInv, NEW a \in Apps, WorkerHangs(a)
  PROVE  PusherInv'
<1>1. /\ stage \in {"push", "check"} /\ work[a] # "none" /\ work' = [work EXCEPT ![a] = "hung"]
      /\ stage' = stage /\ at' = at /\ outcome' = outcome /\ cf' = cf /\ group' = group
      /\ todo' = todo /\ err' = err /\ retries' = retries /\ down' = down /\ skipped' = skipped
  BY DEF WorkerHangs
<1>2. Shape /\ GroupInv /\ CheckInv  BY DEF PusherInv
<1>3. PICK s : s = [instances |-> Desired[a], running |-> 0]  OBVIOUS
<1>4. apps' = apps \/ apps' = [apps EXCEPT ![a] = s]  BY <1>3 DEF WorkerHangs
<1>5. AppState(s)  BY <1>3, DesiredFacts DEF AppState
<1>6. PlatformInv' /\ \A b \in Apps \ {a} : apps'[b] = apps[b]
  <2>1. CASE apps' = apps  BY <1>1, <1>2, <2>1 DEF Shape, PlatformInv
  <2>2. CASE apps' = [apps EXCEPT ![a] = s]  BY <1>1, <1>2, <1>5, <2>2, AppKept DEF Shape
  <2>. QED  BY <1>4, <2>1, <2>2
<1>7. PICK w \in {"none", "push", "hung"} : w = "hung"  OBVIOUS
<1>8. /\ work' \in [Apps -> {"none", "look", "push", "hung"}]
      /\ Cardinality(Busy') <= Concurrency
      /\ \A b \in Apps \ {a} : work'[b] = work[b]
  BY <1>1, <1>2, <1>7, FewerBusy DEF Shape
<1>9. work'[a] = "hung"  BY <1>1, <1>2 DEF Shape, WorkInv
<1>10. WorkInv'  BY <1>1, <1>2, <1>8 DEF Shape, WorkInv
<1>11. RunInv'  BY <1>1, <1>2 DEF Shape, RunInv
<1>12. CheckInv'
  <2>1. SUFFICES ASSUME stage = "check", ~err, NEW b \in Apps
                 PROVE  (b \in down \/ Waiting(b) \/ Ready(b))'
    BY <1>1 DEF CheckInv
  <2>2. CASE b = a  BY <1>9, <2>2 DEF Waiting
  <2>3. CASE b # a
    <3>1. b \in down \/ Waiting(b) \/ Ready(b)  BY <1>2, <2>1 DEF CheckInv
    <3>2. (Waiting(b)' <=> Waiting(b)) /\ (Ready(b)' <=> Ready(b))
      BY <1>1, <1>6, <1>8, <2>3 DEF Waiting, Ready
    <3>. QED  BY <1>1, <3>1, <3>2
  <2>. QED  BY <2>2, <2>3
<1>13. GroupInv'  BY <1>1, <1>2, GroupStays
<1>14. ReadyInv'  BY <1>1, <1>2, NotDone
<1>. QED  BY <1>6, <1>10, <1>11, <1>12, <1>13, <1>14 DEF PusherInv, Shape

LEMMA NextKeeps == PusherInv /\ [Next]_vars => PusherInv'
<1>. SUFFICES ASSUME PusherInv, [Next]_vars PROVE PusherInv'  OBVIOUS
<1>1. CASE UNCHANGED vars
  <2>1. /\ stage' = stage /\ at' = at /\ outcome' = outcome /\ cf' = cf /\ apps' = apps
        /\ group' = group /\ todo' = todo /\ work' = work /\ err' = err /\ retries' = retries
        /\ down' = down /\ skipped' = skipped
    BY <1>1 DEF vars
  <2>2. Shape' /\ GroupInv'
    BY <2>1 DEF PusherInv, Shape, PlatformInv, WorkInv, RunInv, GroupInv, GroupOK, Busy
  <2>3. CheckInv' /\ ReadyInv'
    BY <2>1 DEF PusherInv, CheckInv, ReadyInv, GroupOK, Ready, Waiting
  <2>. QED  BY <2>2, <2>3 DEF PusherInv
<1>2. CASE Next
  <2>1. CASE Start \/ TearDown \/ Killed \/ OtherApp \/ Hangs
    BY <2>1, StartKeeps, TearDownKeeps, KilledKeeps, OtherAppKeeps, HangsKeeps
  <2>2. CASE Run
    BY <2>2, CommandRunsKeeps, CommandFailsKeeps, CheckASGKeeps, StartWorkerKeeps, PushedKeeps,
       CountAppsKeeps, CheckedKeeps DEF Run
  <2>3. ASSUME NEW a \in Apps, Worker(a) \/ AppCrashes(a) \/ OlderApp(a) \/ WorkerHangs(a)
        PROVE  PusherInv'
    BY <2>3, LookKeeps, PushAppKeeps, PushFailsKeeps, CheckAppKeeps, AppCrashesKeeps, OlderAppKeeps,
       WorkerHangsKeeps
       DEF Worker
  <2>. QED  BY <1>2, <2>1, <2>2, <2>3 DEF Next
<1>. QED  BY <1>1, <1>2

---------------------------------------------------------------------------
(* The theorems *)

\* The shape of a run, where the security group stands, and which apps its
\* check still has to look at.
THEOREM PusherInvariant == Spec => []PusherInv
BY InitHolds, NextKeeps, PTL DEF Spec

LEMMA InvTypes == PusherInv => TypeOK
<1>. SUFFICES ASSUME PusherInv PROVE TypeOK  OBVIOUS
<1>1. PlatformInv /\ WorkInv /\ RunInv  BY DEF PusherInv, Shape
<1>2. stage \in DOMAIN Script \cup {"stopped", "checkasg", "push", "count", "check", "hung"}
  BY <1>1, ScriptFacts DEF RunInv, Stages
<1>3. \A a \in Apps : apps[a] = Absent \/ apps[a].running <= apps[a].instances
  BY <1>1 DEF PlatformInv, AppState
<1>4. /\ outcome \in {"none", "fatal", "success"} /\ group \in 1..3 /\ err \in BOOLEAN
      /\ retries \in 0..MaxRetries /\ (Busy # {} => stage \in {"push", "check"})
  BY <1>1 DEF RunInv
<1>5. Cardinality(Busy) <= Concurrency  BY <1>1 DEF WorkInv
<1>. QED  BY <1>2, <1>3, <1>4, <1>5 DEF TypeOK

\* A run that reports success has checked every app after it was pushed, with
\* any number of goroutines, and has the security group in place.
THEOREM SuccessIsEarned == Spec => []SuccessMeansReady
<1>1. PusherInv => SuccessMeansReady
  <2>. SUFFICES ASSUME PusherInv PROVE SuccessMeansReady  OBVIOUS
  <2>1. TypeOK  BY InvTypes
  <2>2. ReadyInv  BY DEF PusherInv
  <2>. QED  BY <2>1, <2>2 DEF SuccessMeansReady, ReadyInv, Ready, GroupOK
<1>. QED  BY <1>1, PusherInvariant, PTL
=============================================================================
