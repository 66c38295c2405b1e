---------------------------- MODULE PolicyServer ----------------------------
(***************************************************************************)
(* The policy server around its store: the create, delete and index        *)
(* handlers with their guards, and the policy cleaner, which runs from a   *)
(* poller and from the cleanup endpoint.  Every call to the store, to      *)
(* UAA or to Cloud Controller is a step of its own; apps are deleted and   *)
(* developers lose their role between any two of them.                     *)
(*                                                                         *)
(* The store is the set of policies that PolicySpec promises: its Create   *)
(* and Delete are atomic.  Tags are left to PolicyStore.                   *)
(***************************************************************************)
EXTENDS Naturals, FiniteSets

CONSTANTS
  Apps, Spaces,
  SpaceOf,      \* the space each app lives in
  DevSpaces,    \* spaces in which the developer starts with SpaceDeveloper
  Threads,      \* HTTP requests handled at the same time
  Cleaners,     \* runs of DeleteStalePolicies at the same time
  Bodies,       \* the lists of policies that requests carry
  MaxPolicies,  \* max_policies_per_app_source
  ChunkSize,    \* CCAppRequestChunkSize and PolicyFilter.ChunkSize
  MaxRequests,  \* bound: number of requests in a behaviour
  MaxErrors     \* bound: failed cleaner runs in a behaviour

ASSUME PolicyServerAssumption ==
  /\ SpaceOf \in [Apps -> Spaces] /\ DevSpaces \subseteq Spaces
  /\ Bodies \subseteq SUBSET [src : Apps, dst : Apps]
  /\ IsFiniteSet(Threads) /\ \A body \in Bodies : IsFiniteSet(body)
  /\ ChunkSize \in Nat \ {0} /\ MaxPolicies \in Nat
  /\ MaxRequests \in Nat /\ MaxErrors \in Nat

VARIABLES
  policies,   \* the content of the store
  live,       \* apps that Cloud Controller lists
  dev,        \* spaces in which the developer has the role
  req,        \* per thread: the request it handles
  clean,      \* per cleaner: its run
  requests,   \* number of requests so far
  errors,     \* number of failed cleaner runs so far
  unlimited,  \* history: apps that an admin made the source of a policy
  raced       \* history: apps for which two developers' creates overlapped

psvars == <<policies, live, dev, req, clean, requests, errors, unlimited, raced>>

Policy == [src : Apps, dst : Apps]

\* uniqueAppGUIDs and policyAppGUIDs.
AppsOf(ps) == {p.src : p \in ps} \cup {p.dst : p \in ps}

\* The next chunk of a list of guids that comes out of a map, in any order.
Chunks(guids) ==
  {c \in SUBSET guids : Cardinality(c) = ChunkSize \/ (c = guids /\ Cardinality(c) < ChunkSize)}

NoRequest == [kind |-> "none", admin |-> FALSE, ps |-> {}, pc |-> "idle",
              todo |-> {}, known |-> {}]
NoRun == [pc |-> "idle", snapshot |-> {}, todo |-> {}, delete |-> {}]

Init ==
  /\ policies = {} /\ live = Apps /\ dev = DevSpaces
  /\ req = [t \in Threads |-> NoRequest]
  /\ clean = [c \in Cleaners |-> NoRun]
  /\ requests = 0 /\ errors = 0 /\ unlimited = {} /\ raced = {}

---------------------------------------------------------------------------
(* External: Cloud Controller. *)

DeleteApp(a) ==
  /\ a \in live
  /\ live' = live \ {a}
  /\ UNCHANGED <<policies, dev, req, clean, requests, errors, unlimited, raced>>

RemoveRole(sp) ==
  /\ sp \in dev
  /\ dev' = dev \ {sp}
  /\ UNCHANGED <<policies, live, req, clean, requests, errors, unlimited, raced>>

\* What the clients get from it: the guids in a chunk that it still lists, the
\* spaces of the user, and one of them (GetSpace and GetUserSpace).
LiveAppGUIDs(chunk) == chunk \cap live
UserSpaces == dev
HasUserSpace(sp) == sp \in UserSpaces

\* The store, which the handlers and the cleaner reach through MetricsWrapper.
All == policies
Create(ps) == policies' = policies \cup ps
Delete(ps) == policies' = policies \ ps

---------------------------------------------------------------------------
(* Requests *)

At(t, pc) == req[t].pc = pc

\* Only thread t's request changes.
Continue(t, r) ==
  /\ req' = [req EXCEPT ![t] = r]
  /\ UNCHANGED <<live, dev, clean, requests, errors>>

\* The handler returns: an error answer, or the last write of the response.
Return(t) == Continue(t, NoRequest)

\* The Authenticator lets the request through and the mapper accepts its body.
\* A network.admin passes both guards at once.
Receive(t, kind, admin, body) ==
  /\ At(t, "idle") /\ requests < MaxRequests
  /\ requests' = requests + 1
  /\ req' = [req EXCEPT ![t] =
               [NoRequest EXCEPT !.kind = kind, !.admin = admin, !.ps = body,
                                 !.pc = IF kind = "index" THEN "list"
                                        ELSE IF admin THEN "store" ELSE "spaces"]]
  /\ UNCHANGED <<policies, live, dev, clean, errors, unlimited, raced>>

\* PolicyGuard: GetToken and GetSpaceGUIDs.  Cloud Controller lists live apps
\* only, so an unknown app adds no space to check.
GetSpaceGUIDs(t) ==
  /\ At(t, "spaces")
  /\ Continue(t, [req[t] EXCEPT !.pc = "guard",
                    !.todo = {SpaceOf[a] : a \in AppsOf(req[t].ps) \cap live}])
  /\ UNCHANGED <<policies, unlimited, raced>>

\* Only PoliciesCreate has a quota guard.
AfterGuard(t) == IF req[t].kind = "create" THEN "quota" ELSE "store"

\* Mutant: the loop over the spaces returns true after its first turn.
CheckSpace_FirstOnly(t) ==
  /\ At(t, "guard") /\ req[t].todo # {}
  /\ \E sp \in req[t].todo :
       IF HasUserSpace(sp)
       THEN Continue(t, [req[t] EXCEPT !.todo = {}])
       ELSE Return(t)
  /\ UNCHANGED <<policies, unlimited, raced>>

\* One turn of PolicyGuard's loop: GetSpace and GetUserSpace.
CheckSpace(t) ==
  /\ At(t, "guard") /\ req[t].todo # {}
  /\ \E sp \in req[t].todo :
       IF HasUserSpace(sp)
       THEN Continue(t, [req[t] EXCEPT !.todo = @ \ {sp}])
       ELSE Return(t)
  /\ UNCHANGED <<policies, unlimited, raced>>

GuardPassed(t) ==
  /\ At(t, "guard") /\ req[t].todo = {}
  /\ Continue(t, [req[t] EXCEPT !.pc = AfterGuard(t)])
  /\ UNCHANGED <<policies, unlimited, raced>>

CountFrom(ps, a) == Cardinality({p \in ps : p.src = a})

\* Mutant: the list may overshoot the limit by one.
QuotaCheck_OffByOne(t) ==
  /\ At(t, "quota")
  /\ IF \E a \in AppsOf(req[t].ps) :
          CountFrom(All, a) + CountFrom(req[t].ps, a) > MaxPolicies + 1
     THEN Return(t)
     ELSE Continue(t, [req[t] EXCEPT !.pc = "store"])
  /\ UNCHANGED <<policies, unlimited, raced>>

\* QuotaGuard: the store is read here and written later.  Every app the list
\* names is counted, destinations too.
QuotaCheck(t) ==
  /\ At(t, "quota")
  /\ IF \E a \in AppsOf(req[t].ps) :
          CountFrom(All, a) + CountFrom(req[t].ps, a) > MaxPolicies
     THEN Return(t)
     ELSE Continue(t, [req[t] EXCEPT !.pc = "store"])
  /\ UNCHANGED <<policies, unlimited, raced>>

\* The developers' requests that have passed QuotaGuard and are about to create
\* a policy with source a.
Pending(a) ==
  {t \in Threads : /\ At(t, "store") /\ req[t].kind = "create" /\ ~req[t].admin
                   /\ \E p \in req[t].ps : p.src = a}

\* A request that has passed QuotaGuard for the same source counted without
\* what this one writes: the history notes it.
StoreCreate(t) ==
  /\ At(t, "store") /\ req[t].kind = "create"
  /\ Create(req[t].ps)
  /\ unlimited' = IF req[t].admin
                  THEN unlimited \cup {p.src : p \in req[t].ps}
                  ELSE unlimited
  /\ raced' = raced \cup {a \in Apps : t \in Pending(a) /\ Pending(a) # {t}}
  /\ Return(t)

StoreDelete(t) ==
  /\ At(t, "store") /\ req[t].kind = "delete"
  /\ Delete(req[t].ps)
  /\ UNCHANGED <<unlimited, raced>>
  /\ Return(t)

\* The answers that the query parameters of PoliciesIndex may select: all
\* policies, those that name an id at either end, those with given sources,
\* those with given destinations, and those with both.
Selections(ps) ==
  {ps}
    \cup {{p \in ps : p.src \in ids \/ p.dst \in ids} : ids \in SUBSET Apps \ {{}}}
    \cup {{p \in ps : p.src \in srcs /\ p.dst \in dsts} :
            srcs \in SUBSET Apps \ {{}}, dsts \in SUBSET Apps \ {{}}}

\* PoliciesIndex: ByGuids or All, then, for a developer, PolicyFilter.
ListPolicies(t) ==
  /\ At(t, "list")
  /\ \E ps \in Selections(All) :
       Continue(t, [req[t] EXCEPT !.ps = ps, !.todo = AppsOf(ps),
                      !.pc = IF req[t].admin THEN "respond" ELSE "appSpaces"])
  /\ UNCHANGED <<policies, unlimited, raced>>

\* GetAppSpaces, chunk by chunk; only live apps have a space.
GetAppSpaces(t) ==
  /\ At(t, "appSpaces") /\ req[t].todo # {}
  /\ \E chunk \in Chunks(req[t].todo) :
       Continue(t, [req[t] EXCEPT !.todo = @ \ chunk,
                                  !.known = @ \cup (chunk \cap live)])
  /\ UNCHANGED <<policies, unlimited, raced>>

\* Mutant: one end of the policy in a space of the user is enough.
Filter_EitherEnd(ps, known, userSpaces) ==
  {p \in ps : \E a \in {p.src, p.dst} : a \in known /\ SpaceOf[a] \in userSpaces}

\* filter: both ends must be in a space of the user.
Filter(ps, known, userSpaces) ==
  {p \in ps : \A a \in {p.src, p.dst} : a \in known /\ SpaceOf[a] \in userSpaces}

\* GetUserSpaces and filter.
FilterPolicies(t) ==
  /\ At(t, "appSpaces") /\ req[t].todo = {}
  /\ Continue(t, [req[t] EXCEPT !.pc = "respond",
                                !.ps = Filter(@, req[t].known, UserSpaces)])
  /\ UNCHANGED <<policies, unlimited, raced>>

Respond(t) ==
  /\ At(t, "respond")
  /\ Return(t)
  /\ UNCHANGED <<policies, unlimited, raced>>

\* UAA, Cloud Controller or the database fails a call of the handler.
RequestError(t) ==
  /\ ~At(t, "idle")
  /\ Return(t)
  /\ UNCHANGED <<policies, unlimited, raced>>

HandlerStep(t) ==
  \/ GetSpaceGUIDs(t) \/ CheckSpace(t) \/ GuardPassed(t) \/ QuotaCheck(t)
  \/ StoreCreate(t) \/ StoreDelete(t)
  \/ ListPolicies(t) \/ GetAppSpaces(t) \/ FilterPolicies(t) \/ Respond(t)

---------------------------------------------------------------------------
(* PolicyCleaner.DeleteStalePolicies *)

CleanTo(c, r) ==
  /\ clean' = [clean EXCEPT ![c] = r]
  /\ UNCHANGED <<live, dev, req, requests, unlimited, raced>>

\* Store.All and GetToken.
CleanList(c) ==
  /\ clean[c].pc = "idle"
  /\ CleanTo(c, [NoRun EXCEPT !.pc = "chunk", !.snapshot = All, !.todo = AppsOf(All)])
  /\ UNCHANGED policies

\* getStalePolicies(policies, getStaleAppGUIDs(live apps, the chunk)).
Stale(snapshot, chunk, liveApps) ==
  LET gone == chunk \ liveApps
  IN  {p \in snapshot : p.src \in gone \/ p.dst \in gone}

\* Mutant: the answer for one chunk is compared with all apps of the run.
CleanChunk_AllApps(c) ==
  /\ clean[c].pc = "chunk" /\ clean[c].todo # {}
  /\ \E chunk \in Chunks(clean[c].todo) :
       CleanTo(c, [clean[c] EXCEPT !.pc = "delete", !.todo = @ \ chunk,
                     !.delete = Stale(clean[c].snapshot, clean[c].todo, LiveAppGUIDs(chunk))])
  /\ UNCHANGED policies

\* GetLiveAppGUIDs for one chunk, and what it makes stale in the snapshot.
CleanChunk(c) ==
  /\ clean[c].pc = "chunk" /\ clean[c].todo # {}
  /\ \E chunk \in Chunks(clean[c].todo) :
       CleanTo(c, [clean[c] EXCEPT !.pc = "delete", !.todo = @ \ chunk,
                     !.delete = Stale(clean[c].snapshot, chunk, LiveAppGUIDs(chunk))])
  /\ UNCHANGED policies

\* Store.Delete: a transaction per chunk.
CleanDelete(c) ==
  /\ clean[c].pc = "delete"
  /\ Delete(clean[c].delete)
  /\ CleanTo(c, [clean[c] EXCEPT !.pc = "chunk", !.delete = {}])

CleanEnd(c) ==
  /\ clean[c].pc = "chunk" /\ clean[c].todo = {}
  /\ CleanTo(c, NoRun)
  /\ UNCHANGED policies

\* Mutant: the poller returns on an error instead of waiting for its next turn.
CleanError_StopsPoller(c) ==
  /\ clean[c].pc # "idle" /\ errors < MaxErrors
  /\ errors' = errors + 1
  /\ CleanTo(c, [NoRun EXCEPT !.pc = "stopped"])
  /\ UNCHANGED policies

\* A failed call ends the run; chunks already deleted stay deleted.
CleanError(c) ==
  /\ clean[c].pc # "idle" /\ errors < MaxErrors
  /\ errors' = errors + 1
  /\ CleanTo(c, NoRun)
  /\ UNCHANGED policies

\* One call of a run that does not fail.
CleanStep(c) ==
  /\ CleanList(c) \/ CleanChunk(c) \/ CleanDelete(c) \/ CleanEnd(c)
  /\ UNCHANGED errors

---------------------------------------------------------------------------
Next ==
  \/ \E a \in Apps : DeleteApp(a)
  \/ \E sp \in Spaces : RemoveRole(sp)
  \/ \E t \in Threads :
       \/ \E kind \in {"create", "delete"}, admin \in BOOLEAN, body \in Bodies :
            Receive(t, kind, admin, body)
       \/ \E admin \in BOOLEAN : Receive(t, "index", admin, {})
       \/ HandlerStep(t) \/ RequestError(t)
  \/ \E c \in Cleaners : CleanStep(c) \/ CleanError(c)

Spec == Init /\ [][Next]_psvars

\* The poller calls the cleaner again after every run, failed or not.  Requests,
\* failures and Cloud Controller's own changes are not fair.
FairSpec == Spec /\ \A c \in Cleaners : WF_psvars(CleanStep(c))

---------------------------------------------------------------------------
(* Properties *)

\* Type correctness; only a developer's request meets the guards, and only a
\* create meets the quota guard.
TypeOK ==
  /\ policies \subseteq Policy /\ live \subseteq Apps /\ dev \subseteq Spaces
  /\ \A t \in Threads :
       /\ req[t].ps \subseteq Policy /\ req[t].known \subseteq Apps
       /\ req[t].pc \in {"idle", "spaces", "guard", "quota", "store", "list",
                         "appSpaces", "respond"}
       /\ req[t].pc \in {"spaces", "guard", "quota"} => ~req[t].admin
       /\ At(t, "quota") => req[t].kind = "create"
  /\ \A c \in Cleaners :
       /\ clean[c].snapshot \subseteq Policy
       /\ clean[c].delete \subseteq clean[c].snapshot

\* What a cleaner is about to delete is stale now, however old its list of
\* policies and Cloud Controller's answer are and whatever other requests and
\* cleaners did since.  (With the types.)
CleanerDeletesOnlyStale ==
  /\ TypeOK
  /\ \A c \in Cleaners : \A p \in clean[c].delete : {p.src, p.dst} \ live # {}

\* A developer's change names no live app outside the spaces in which the role
\* was held: PolicyGuard looks at the space of every app of the list.
ChangesStayInOwnSpaces ==
  \A t \in Threads :
    At(t, "store") /\ ~req[t].admin =>
      \A a \in AppsOf(req[t].ps) \cap live : SpaceOf[a] \in DevSpaces

\* A developer is shown only policies between apps of those spaces, even when
\* apps and roles change while PolicyFilter asks for them.
IndexStaysInOwnSpaces ==
  \A t \in Threads :
    At(t, "respond") /\ ~req[t].admin =>
      \A a \in AppsOf(req[t].ps) : SpaceOf[a] \in DevSpaces

\* max_policies_per_app_source is the limit, over any number of creates, deletes
\* and runs of the cleaner, for an app that no admin made the source of a policy
\* and whose creates did not overlap: the check reads the store and the create
\* writes it later, and other requests go on in between.
QuotaHolds ==
  \A a \in Apps \ (unlimited \cup raced) : CountFrom(policies, a) <= MaxPolicies

\* docs/configuration.md: an application may be the source of only a limited
\* number of the policies that developers create.  Violated: two creates that
\* QuotaGuard looks at before either of them writes both pass it.
QuotaIsALimit ==
  \A a \in Apps \ unlimited : CountFrom(policies, a) <= MaxPolicies

\* A deleted app loses its policies in the end, although cleaner runs fail
\* half way and an admin may name the app again.
StaleEventuallyDeleted ==
  \A a \in Apps : a \notin live ~> a \notin AppsOf(policies)
=============================================================================
