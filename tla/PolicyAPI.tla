------------------------------ MODULE PolicyAPI ------------------------------
(***************************************************************************)
(* The two versions of the external policy API, as the policy clients use  *)
(* them.  v0 knows policies for a single port, v1 policies for a range of  *)
(* ports; both are mapped to the same store.  The v0 client sends a long   *)
(* list in chunks, one request each, and stops at the first error.         *)
(*                                                                         *)
(* A request takes effect at once, as PolicySpec promises; the guards that *)
(* look at apps and spaces are PolicyServer's.  UAA, the network and the   *)
(* database may fail.                                                      *)
(***************************************************************************)
EXTENDS Integers, Sequences, SequencesExt

CONSTANTS
  Ids, NoId,          \* guids of apps, and the empty string
  Clients,            \* programs that use a policy client
  Users, ScopesOf,    \* owners of tokens, and their scopes
  NetworkAdmin, NetworkWrite,
  SelfService,        \* EnableSpaceDeveloperSelfService
  Lists,              \* the lists to add, per version
  Queries,            \* the queries of the index
  ChunkerSize,        \* SimpleChunker.ChunkSize; not positive: the default
  DefaultMaxPolicies

Versions == {"v0", "v1"}

\* The policies a request can carry: of v0 for one port, of v1 for a range.
Policies(version) ==
  IF version = "v1"
  THEN [src : Ids \cup {NoId}, dst : Ids \cup {NoId}, proto : STRING,
        start : Int, end : Int, tagged : BOOLEAN]
  ELSE [src : Ids \cup {NoId}, dst : Ids \cup {NoId}, proto : STRING,
        port : Int, tagged : BOOLEAN]

ASSUME PolicyAPIAssumption ==
  /\ NoId \notin Ids /\ Users # {}
  /\ \A version \in Versions : Lists[version] \subseteq Seq(Policies(version))
  /\ ScopesOf \in [Users -> SUBSET {NetworkAdmin, NetworkWrite}]
  /\ SelfService \in BOOLEAN
  /\ Queries \subseteq [ids : SUBSET Ids, srcs : SUBSET Ids, dsts : SUBSET Ids]
  /\ ChunkerSize \in Int /\ DefaultMaxPolicies \in Nat \ {0}

VARIABLES
  stored,    \* the policies in the store
  client,    \* per client: the call it makes
  result,    \* per client: how its last call ended
  touched    \* history, per client: what others changed since its call began

pavars == <<stored, client, result, touched>>

---------------------------------------------------------------------------
(* Policies: of the two versions and of the store.  tagged: a tag is given *)

V0(s, d, proto, port) ==
  [src |-> s, dst |-> d, proto |-> proto, port |-> port, tagged |-> FALSE]
V1(s, d, proto, first, last) ==
  [src |-> s, dst |-> d, proto |-> proto, start |-> first, end |-> last, tagged |-> FALSE]

\* Validator.ValidatePolicies, for one policy.
NamesApps(p) == p.src # NoId /\ p.dst # NoId
KnownProtocol(p) == p.proto \in {"udp", "tcp"}

ValidV1(p) ==
  /\ NamesApps(p) /\ KnownProtocol(p)
  /\ p.start <= p.end /\ p.start > 0 /\ p.end <= 65535
  /\ ~p.tagged

\* There is no upper bound.
ValidV0(p) == NamesApps(p) /\ KnownProtocol(p) /\ p.port > 0 /\ ~p.tagged

ValidatePolicies(version, list) ==
  /\ list # <<>>
  /\ \A i \in DOMAIN list : IF version = "v1" THEN ValidV1(list[i]) ELSE ValidV0(list[i])

StorePolicy(p, port, first, last) ==
  [src |-> p.src, dst |-> p.dst, proto |-> p.proto, port |-> port,
   start |-> first, end |-> last]

AsStoreV1(p) == StorePolicy(p, IF p.start = p.end THEN p.start ELSE 0, p.start, p.end)
AsStoreV0(p) == StorePolicy(p, p.port, p.port, p.port)

AsStorePolicy(version, p) == IF version = "v1" THEN AsStoreV1(p) ELSE AsStoreV0(p)

\* Mutant: a range is mapped to its first port.
CanMapV0_Any(s) == s.start <= s.end

\* mapStorePolicy; v0 leaves out what is not a single port.
MapV1(s) == [V1(s.src, s.dst, s.proto, s.start, s.end) EXCEPT !.tagged = TRUE]
CanMapV0(s) == s.start = s.end
MapV0(s) == [V0(s.src, s.dst, s.proto, s.start) EXCEPT !.tagged = TRUE]

\* The internal v0 gives a single port as a range as well.
MapV0Internal(s) ==
  [src |-> s.src, dst |-> s.dst, proto |-> s.proto, port |-> s.start,
   start |-> s.start, end |-> s.end, tagged |-> TRUE]

AsBytes(version, ps) == IF version = "v1" THEN {MapV1(s) : s \in ps}
                                          ELSE {MapV0(s) : s \in {t \in ps : CanMapV0(t)}}

---------------------------------------------------------------------------
(* The server *)

Authorized(user, scopes, scopeChecking) ==
  scopeChecking => ScopesOf[user] \cap scopes # {}

\* authWriteWrap.
MayWrite(user) == Authorized(user, {NetworkAdmin, NetworkWrite}, ~SelfService)

\* By id, by source, by destination, by both, or all.
Selected(q) ==
  IF q.ids # {} THEN {s \in stored : s.src \in q.ids \/ s.dst \in q.ids}
  ELSE {s \in stored : /\ q.srcs = {} \/ s.src \in q.srcs
                       /\ q.dsts = {} \/ s.dst \in q.dsts}

\* Mutant: the tags are left in the answer.
Index_Tagged(version, q) == AsBytes(version, Selected(q))

\* PoliciesIndex blanks the tags.
Index(version, q) == {[p EXCEPT !.tagged = FALSE] : p \in AsBytes(version, Selected(q))}

\* PoliciesIndexInternal, for the agents on the cells: all, or by id.
IndexInternal(version, ids) ==
  LET ps == IF ids = {} THEN stored
                        ELSE {s \in stored : s.src \in ids \/ s.dst \in ids}
  IN  IF version = "v1" THEN AsBytes("v1", ps)
      ELSE {MapV0Internal(s) : s \in {t \in ps : CanMapV0(t)}}

\* A destination is unique without its port, but is looked up with it.
Conflicts(ps) ==
  \E p \in ps, s \in stored \cup ps :
    /\ p.dst = s.dst /\ p.proto = s.proto /\ p.start = s.start /\ p.end = s.end
    /\ p.port # s.port

\* PoliciesCreate and PoliciesDelete: the status, and the new store.
Status(version, op, user, list, ps) ==
  CASE ~MayWrite(user) -> "forbidden"
    [] MayWrite(user) /\ ~ValidatePolicies(version, list) -> "rejected"
    [] MayWrite(user) /\ ValidatePolicies(version, list) ->
         IF op = "add" /\ Conflicts(ps) THEN "failed" ELSE "ok"

Effect(op, ps) == IF op = "add" THEN stored \cup ps ELSE stored \ ps

---------------------------------------------------------------------------
(* The clients *)

GetChunkSize == IF ChunkerSize <= 0 THEN DefaultMaxPolicies ELSE ChunkerSize

\* Mutant: the loop ends before a chunk that is not full.
Chunk_OnlyFull(list) ==
  [i \in 1..(Len(list) \div GetChunkSize) |->
     SubSeq(list, (i - 1) * GetChunkSize + 1, i * GetChunkSize)]

Chunk(list) ==
  LET n == GetChunkSize
  IN  [i \in 1..((Len(list) + n - 1) \div n) |->
         SubSeq(list, (i - 1) * n + 1, IF i * n < Len(list) THEN i * n ELSE Len(list))]

\* The requests of a call; only the v0 calls are chunked.
RequestsOf(version, list) == IF version = "v1" THEN <<list>> ELSE Chunk(list)

Idle == [op |-> "idle", version |-> "v0", user |-> CHOOSE u \in Users : TRUE,
         todo |-> <<>>, goal |-> {}]

APIInit ==
  /\ stored = {} /\ client = [c \in Clients |-> Idle]
  /\ result = [c \in Clients |-> "none"] /\ touched = [c \in Clients |-> {}]

\* The goal of a call: all its policies in the store, or none of them.
Begin(c, op, version, user, list, goal) ==
  /\ client[c] = Idle
  /\ client' = [client EXCEPT ![c] =
                  [op |-> op, version |-> version, user |-> user,
                   todo |-> RequestsOf(version, list), goal |-> goal]]
  /\ result' = [result EXCEPT ![c] = "none"]
  /\ touched' = [touched EXCEPT ![c] = {}]
  /\ UNCHANGED stored

\* AddPolicies and AddPoliciesV0.
AddPolicies(c, version, user, list) ==
  Begin(c, "add", version, user, list,
        {AsStorePolicy(version, list[i]) : i \in DOMAIN list})

\* GetPolicies or GetPoliciesByID, then DeletePolicies of what they returned.
DeleteListed(c, version, user, q) ==
  /\ MayWrite(user)
  /\ Begin(c, "delete", version, user, SetToSeq(Index(version, q)),
           {s \in Selected(q) : version = "v1" \/ CanMapV0(s)})

End(c, how) ==
  /\ client' = [client EXCEPT ![c] = Idle]
  /\ result' = [result EXCEPT ![c] = how]

Changed(c) ==
  touched' = [d \in Clients |->
                CASE d = c                       -> IF client'[c] = Idle THEN {} ELSE touched[c]
                  [] d # c /\ client[d] = Idle   -> {}
                  [] d # c /\ client[d] # Idle   ->
                       touched[d] \cup (stored \ stored') \cup (stored' \ stored)]

\* The next request; the call ends with the last one or with an error.
Post(c) ==
  /\ client[c].todo # <<>>
  /\ LET call   == client[c]
         list   == Head(call.todo)
         ps     == {AsStorePolicy(call.version, list[i]) : i \in DOMAIN list}
         status == Status(call.version, call.op, call.user, list, ps)
     IN  /\ stored' = IF status = "ok" THEN Effect(call.op, ps) ELSE stored
         /\ IF status = "ok" /\ Len(call.todo) > 1
            THEN client' = [client EXCEPT ![c].todo = Tail(@)] /\ UNCHANGED result
            ELSE End(c, status)
  /\ Changed(c)

\* A v0 call with an empty list makes no request.
NothingToDo(c) ==
  /\ client[c] # Idle /\ client[c].todo = <<>>
  /\ End(c, "ok")
  /\ UNCHANGED <<stored, touched>>

\* UAA, the store or the network fails; the answer may be lost after the
\* request took effect.
PostFails(c) ==
  /\ client[c].todo # <<>>
  /\ LET call   == client[c]
         list   == Head(call.todo)
         ps     == {AsStorePolicy(call.version, list[i]) : i \in DOMAIN list}
         status == Status(call.version, call.op, call.user, list, ps)
     IN  stored' \in {stored} \cup (IF status = "ok" THEN {Effect(call.op, ps)} ELSE {})
  /\ End(c, "failed")
  /\ Changed(c)

APINext ==
  \E c \in Clients :
    \/ \E version \in Versions, user \in Users :
         \/ \E list \in Lists[version] : AddPolicies(c, version, user, list)
         \/ \E q \in Queries : DeleteListed(c, version, user, q)
    \/ Post(c) \/ NothingToDo(c) \/ PostFails(c)

APISpec == APIInit /\ [][APINext]_pavars

---------------------------------------------------------------------------
(* Properties *)

\* Type correctness; the port of a stored policy agrees with its range.
APITypeOK ==
  /\ \A s \in stored : s.port = (IF s.start = s.end THEN s.start ELSE 0)
  /\ \A c \in Clients :
       /\ client[c].op \in {"idle", "add", "delete"}
       /\ client[c].version \in Versions /\ client[c].user \in Users
       /\ result[c] \in {"none", "ok", "rejected", "forbidden", "failed"}

\* A call that returned no error has reached its goal, but for policies that
\* others changed meanwhile: whichever version made a policy the other one
\* finds and deletes it, no chunk is left out, and repeating a call that
\* failed half way completes it.
SuccessMeansDone ==
  [][\A c \in Clients :
       LET call == client[c] IN
         call # Idle /\ client'[c] = Idle /\ result'[c] = "ok" =>
           IF call.op = "add"
           THEN call.goal \ touched[c] \subseteq stored'
           ELSE call.goal \cap stored' \subseteq touched[c]]_pavars

\* What a version lists it also takes back: deleting the policies of an index,
\* whichever version they were made with, is never rejected as invalid.  Two
\* cases are left out, because the code does reject them: v0 takes ports above
\* 65535, v1 lists them, and its validator then refuses the list; and v1 refuses
\* the empty list, for which the chunks of v0 make no request.
ListedIsAccepted ==
  [][\A c \in Clients :
       /\ client[c].op = "delete"
       /\ \/ client[c].version = "v0"
          \/ client[c].goal # {} /\ \A s \in client[c].goal : s.end <= 65535
       => result'[c] # "rejected"]_pavars

\* The versions show the same policies: v0, external or internal, shows the
\* v1 policies for a single port and no others, and an agent that asks for all
\* ids gets all of them.  (With the types.)
ViewsAgree ==
  /\ APITypeOK
  /\ \A q \in Queries :
       {AsStoreV0(p) : p \in Index("v0", q)} =
         {AsStoreV1(p) : p \in {r \in Index("v1", q) : r.start = r.end}}
  /\ \A ids \in SUBSET Ids :
       {AsStoreV0(p) : p \in IndexInternal("v0", ids)} =
         {AsStoreV1(p) : p \in {r \in IndexInternal("v1", ids) : r.start = r.end}}
  /\ IndexInternal("v1", Ids) = IndexInternal("v1", {})
=============================================================================
