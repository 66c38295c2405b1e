------------------------- MODULE PolicyServerProofs -------------------------
(***************************************************************************)
(* Proofs about the policy server.  First PolicyAPI, for any lists, chunk  *)
(* size and clients: what is in the store, what is left of a call, and     *)
(* what a version lists.  Then PolicyServer, for any apps, spaces,         *)
(* concurrent requests, cleaner runs and limits.                           *)
(***************************************************************************)
EXTENDS PolicyServer, PolicyAPI, FiniteSetTheorems, SequenceTheorems, TLAPS

---------------------------------------------------------------------------
(* PolicyAPI: the inductive invariant *)

\* What the mappers make of the policies of a request, valid or not.
Goals ==
  [src : Ids \cup {NoId}, dst : Ids \cup {NoId}, proto : STRING,
   port : Int, start : Int, end : Int]

\* What the validators let through.
Entry(s) ==
  /\ s \in Goals
  /\ s.src \in Ids /\ s.dst \in Ids /\ s.proto \in {"udp", "tcp"}
  /\ 0 < s.start /\ s.start <= s.end
  /\ s.port = (IF s.start = s.end THEN s.start ELSE 0)

Calls(version) ==
  [op : {"add", "delete"}, version : {version}, user : Users,
   todo : Seq(Seq(Policies(version))), goal : SUBSET Goals]

AnyCall == Calls("v0") \cup Calls("v1") \cup {Idle}

Results == {"none", "ok", "rejected", "forbidden", "failed"}

\* The store's form of a request, and of all the requests left of a call.
Sent(version, list) == {AsStorePolicy(version, list[i]) : i \in DOMAIN list}
Remaining(call) == UNION {Sent(call.version, call.todo[k]) : k \in DOMAIN call.todo}

\* The part of the goal that is neither reached nor left to do was changed by others.
OnTheWay(call, others, now) ==
  IF call.op = "add" THEN call.goal \ others \subseteq now \cup Remaining(call)
                     ELSE call.goal \cap now \subseteq others \cup Remaining(call)

\* What a version takes back: v0 any list of valid policies, also the empty one.
InBounds(version, goal) == version = "v0" \/ (goal # {} /\ \A s \in goal : s.end <= 65535)

Sendable(version, list) ==
  /\ version = "v0" \/ list # <<>>
  /\ \A i \in DOMAIN list : IF version = "v1" THEN ValidV1(list[i]) ELSE ValidV0(list[i])

\* The requests of a delete are valid.
Acceptable(call) ==
  call.op = "delete" /\ InBounds(call.version, call.goal)
  => \A k \in DOMAIN call.todo : ValidatePolicies(call.version, call.todo[k])

StoreInv == IsFiniteSet(stored) /\ \A s \in stored : Entry(s)

Types ==
  /\ client \in [Clients -> AnyCall]
  /\ result \in [Clients -> Results]
  /\ touched \in [Clients -> SUBSET Goals]

CallInv(c) ==
  client[c] # Idle => /\ result[c] = "none"
                      /\ OnTheWay(client[c], touched[c], stored)
                      /\ Acceptable(client[c])

APIInv == StoreInv /\ Types /\ \A c \in Clients : CallInv(c)

---------------------------------------------------------------------------
(* The chunks of a list *)

LEMMA FunctionIsSeq ==
  ASSUME NEW T, NEW d \in Nat, NEW f \in [1..d -> T]
  PROVE  f \in Seq(T)
OBVIOUS

LEMMA Multiples ==
  ASSUME NEW n \in Nat, n > 0, NEW k \in Int, NEW l \in Int, k <= l
  PROVE  k * n <= l * n
<1>1. (l - k) * n >= 0  OBVIOUS
<1>. QED  BY <1>1

LEMMA DivFacts ==
  ASSUME NEW m \in Nat, NEW n \in Nat, n > 0
  PROVE  /\ m \div n \in Nat
         /\ (m \div n) * n <= m /\ m < (m \div n) * n + n
<1>1. (m \div n) * n <= m  OBVIOUS
<1>2. m < (m \div n) * n + n  OBVIOUS
<1>3. m \div n \in Nat  OBVIOUS
<1>. QED  BY <1>1, <1>2, <1>3

LEMMA ChunkSizePositive == GetChunkSize \in Nat /\ GetChunkSize > 0
BY PolicyAPIAssumption DEF GetChunkSize

\* The k-th chunk begins inside the list.
LEMMA ChunkBegins ==
  ASSUME NEW L \in Nat, NEW n \in Nat, n > 0, NEW k \in 1..((L + n - 1) \div n)
  PROVE  (k - 1) * n \in Nat /\ (k - 1) * n < L
<1>. DEFINE q == (L + n - 1) \div n
<1>1. L + n - 1 \in Nat  OBVIOUS
<1>2. q \in Nat /\ q * n <= L + n - 1  BY <1>1, DivFacts
<1>. HIDE DEF q
<1>3. k \in Nat /\ 1 <= k /\ k <= q  BY <1>2 DEF q
<1>4. k * n <= q * n  BY <1>2, <1>3, Multiples
<1>5. (k - 1) * n = k * n - n  BY <1>3
<1>6. 0 * n <= (k - 1) * n  BY <1>3, Multiples
<1>7. k * n \in Int /\ q * n \in Int  BY <1>2, <1>3
<1>. QED  BY <1>2, <1>4, <1>5, <1>6, <1>7

\* The chunk of the i-th policy.
LEMMA ChunkOf ==
  ASSUME NEW L \in Nat, NEW n \in Nat, n > 0, NEW i \in 1..L
  PROVE  \E k \in 1..((L + n - 1) \div n) : (k - 1) * n < i /\ i <= k * n
<1>. DEFINE q == (L + n - 1) \div n
            r == (i - 1) \div n
<1>1. L + n - 1 \in Nat /\ i - 1 \in Nat  OBVIOUS
<1>2. q \in Nat /\ L + n - 1 < q * n + n  BY <1>1, DivFacts
<1>3. r \in Nat /\ r * n <= i - 1 /\ i - 1 < r * n + n  BY <1>1, DivFacts
<1>. HIDE DEF q, r
<1>4. q * n \in Int /\ r * n \in Int  BY <1>2, <1>3
<1>5. r * n < q * n  BY <1>2, <1>3, <1>4
<1>6. ~(q <= r)
  <2>1. q <= r => q * n <= r * n  BY <1>2, <1>3, Multiples
  <2>. QED  BY <2>1, <1>5, <1>4
<1>7. r + 1 \in 1..q  BY <1>2, <1>3, <1>6
<1>8. \E k \in 1..q : (k - 1) * n < i /\ i <= k * n
  <2>1. PICK k \in 1..q : k = r + 1  BY <1>7
  <2>2. k - 1 = r /\ k \in Nat  BY <2>1, <1>2, <1>3
  <2>3. k * n = r * n + n  BY <2>2, <1>3
  <2>4. (k - 1) * n < i /\ i <= k * n  BY <2>2, <2>3, <1>3, <1>4
  <2>. QED  BY <2>4
<1>. QED  BY <1>8 DEF q

\* What a chunk is: a stretch of the list that is not empty.
LEMMA ChunkIs ==
  ASSUME NEW S, NEW list \in Seq(S), NEW k \in DOMAIN Chunk(list)
  PROVE  LET n == GetChunkSize
             m == IF k * n < Len(list) THEN k * n ELSE Len(list)
         IN  /\ (k - 1) * n \in Nat /\ (k - 1) * n < m /\ m \in Nat
             /\ k \in Nat /\ m <= Len(list)
             /\ Chunk(list)[k] \in Seq(S)
             /\ Len(Chunk(list)[k]) = m - (k - 1) * n
             /\ \A j \in 1..(m - (k - 1) * n) : Chunk(list)[k][j] = list[(k - 1) * n + j]
<1>. DEFINE n == GetChunkSize
            L == Len(list)
            m == IF k * n < L THEN k * n ELSE L
            b == (k - 1) * n
<1>1. n \in Nat /\ n > 0 /\ L \in Nat  BY ChunkSizePositive
<1>2. k \in 1..((L + n - 1) \div n)  BY DEF Chunk
<1>3. Chunk(list)[k] = SubSeq(list, b + 1, m)  BY <1>2 DEF Chunk
<1>. HIDE DEF n
<1>4. k \in Nat /\ b \in Nat /\ b < L
  <2>1. b \in Nat /\ b < L  BY <1>1, <1>2, ChunkBegins
  <2>2. k \in Nat  BY <1>1, <1>2
  <2>. QED  BY <2>1, <2>2
<1>5. k * n \in Int /\ k * n = b + n  BY <1>1, <1>4
<1>6. m \in Nat /\ b < m /\ m <= L  BY <1>1, <1>4, <1>5
<1>. HIDE DEF b, m
<1>7. \A i \in (b + 1)..m : list[i] \in S  BY <1>4, <1>6
<1>8. /\ SubSeq(list, b + 1, m) \in Seq(S)
      /\ Len(SubSeq(list, b + 1, m)) = IF b + 1 <= m THEN m - (b + 1) + 1 ELSE 0
      /\ \A i \in 1..(m - (b + 1) + 1) : SubSeq(list, b + 1, m)[i] = list[b + 1 + i - 1]
  <2>1. b + 1 \in Int /\ m \in Int  BY <1>4, <1>6
  <2>. QED  BY <1>7, <2>1, SubSeqProperties
<1>9. m - (b + 1) + 1 = m - b /\ b + 1 <= m  BY <1>4, <1>6
<1>10. \A j \in 1..(m - b) : b + 1 + j - 1 = b + j  BY <1>4, <1>6
<1>. QED  BY <1>3, <1>4, <1>6, <1>8, <1>9, <1>10 DEF n, m, b

\* The chunks hold the policies of the list, and none is empty.
LEMMA ChunkCovers ==
  ASSUME NEW S, NEW list \in Seq(S)
  PROVE  /\ Chunk(list) \in Seq(Seq(S))
         /\ \A k \in DOMAIN Chunk(list) :
              /\ Chunk(list)[k] # <<>>
              /\ \A j \in DOMAIN Chunk(list)[k] :
                   \E i \in DOMAIN list : Chunk(list)[k][j] = list[i]
         /\ \A i \in DOMAIN list :
              \E k \in DOMAIN Chunk(list) :
                \E j \in DOMAIN Chunk(list)[k] : Chunk(list)[k][j] = list[i]
<1>. DEFINE n == GetChunkSize
            L == Len(list)
            m(k) == IF k * n < L THEN k * n ELSE L
            b(k) == (k - 1) * n
            D == (L + n - 1) \div n
<1>1. n \in Nat /\ n > 0 /\ L \in Nat /\ DOMAIN list = 1..L  BY ChunkSizePositive
<1>2. DOMAIN Chunk(list) = 1..D  BY DEF Chunk
<1>3. D \in Nat
  <2>1. L + n - 1 \in Nat  BY <1>1
  <2>. QED  BY <1>1, <2>1, DivFacts
<1>4. ASSUME NEW k \in DOMAIN Chunk(list)
      PROVE  /\ b(k) \in Nat /\ b(k) < m(k) /\ m(k) \in Nat /\ m(k) <= L
             /\ Chunk(list)[k] \in Seq(S)
             /\ Len(Chunk(list)[k]) = m(k) - b(k)
             /\ \A j \in 1..(m(k) - b(k)) : Chunk(list)[k][j] = list[b(k) + j]
  BY ChunkIs
<1>5. Chunk(list) \in Seq(Seq(S))
  <2>1. Chunk(list) = [i \in 1..D |-> Chunk(list)[i]]  BY DEF Chunk
  <2>2. \A i \in 1..D : Chunk(list)[i] \in Seq(S)  BY <1>2, <1>4
  <2>. HIDE DEF D
  <2>3. Chunk(list) \in [1..D -> Seq(S)]  BY <2>1, <2>2
  <2>. QED  BY <2>3, <1>3, FunctionIsSeq
<1>6. ASSUME NEW k \in DOMAIN Chunk(list)
      PROVE  /\ Chunk(list)[k] # <<>>
             /\ DOMAIN Chunk(list)[k] = 1..(m(k) - b(k))
             /\ \A j \in DOMAIN Chunk(list)[k] :
                  \E i \in DOMAIN list : Chunk(list)[k][j] = list[i]
  <2>. HIDE DEF m, b, L, n
  <2>1. PICK x \in Seq(S) : x = Chunk(list)[k]  BY <1>4
  <2>2. Len(x) = m(k) - b(k) /\ DOMAIN x = 1..(m(k) - b(k))  BY <2>1, <1>4
  <2>3. x # <<>>  BY <2>2, <1>4
  <2>4. \A j \in 1..(m(k) - b(k)) : b(k) + j \in 1..L  BY <1>4, <1>1
  <2>. QED  BY <2>1, <2>2, <2>3, <2>4, <1>4, <1>1
<1>7. ASSUME NEW i \in DOMAIN list
      PROVE  \E k \in DOMAIN Chunk(list) :
               \E j \in DOMAIN Chunk(list)[k] : Chunk(list)[k][j] = list[i]
  <2>1. PICK k \in 1..D : (k - 1) * n < i /\ i <= k * n  BY <1>1, ChunkOf
  <2>2. k \in DOMAIN Chunk(list)  BY <1>2, <2>1
  <2>3. b(k) < i /\ i <= m(k) /\ i \in Nat  BY <2>1, <1>1
  <2>. HIDE DEF m, b, L, n, D
  <2>4. i - b(k) \in 1..(m(k) - b(k)) /\ b(k) + (i - b(k)) = i  BY <2>2, <2>3, <1>4
  <2>5. Chunk(list)[k][i - b(k)] = list[b(k) + (i - b(k))]  BY <2>2, <2>4, <1>4
  <2>6. Chunk(list)[k][i - b(k)] = list[i]  BY <2>4, <2>5
  <2>7. i - b(k) \in DOMAIN Chunk(list)[k]  BY <2>2, <2>4, <1>6
  <2>. QED  BY <2>2, <2>6, <2>7
<1>. QED  BY <1>5, <1>6, <1>7

LEMMA RequestsCover ==
  ASSUME NEW version \in Versions, NEW list \in Seq(Policies(version))
  PROVE  /\ RequestsOf(version, list) \in Seq(Seq(Policies(version)))
         /\ \A x \in Sent(version, list) :
              \E k \in DOMAIN RequestsOf(version, list) : x \in Sent(version, RequestsOf(version, list)[k])
         /\ Sendable(version, list) =>
              \A k \in DOMAIN RequestsOf(version, list) :
                ValidatePolicies(version, RequestsOf(version, list)[k])
<1>1. CASE version = "v1"
  <2>1. PICK r : r = RequestsOf(version, list)  OBVIOUS
  <2>2. r = <<list>>  BY <1>1, <2>1 DEF RequestsOf
  <2>3. r \in Seq(Seq(Policies(version))) /\ DOMAIN r = {1} /\ r[1] = list
    <3>1. list \in Seq(Policies(version))  OBVIOUS
    <3>. QED  BY <2>2, <3>1
  <2>4. Sendable(version, list) => ValidatePolicies(version, list)
    BY <1>1 DEF Sendable, ValidatePolicies
  <2>. QED  BY <2>1, <2>3, <2>4
<1>2. CASE version # "v1"
  <2>1. PICK r : r = RequestsOf(version, list)  OBVIOUS
  <2>2. r = Chunk(list)  BY <1>2, <2>1 DEF RequestsOf
  <2>3. /\ r \in Seq(Seq(Policies(version)))
        /\ \A k \in DOMAIN r : /\ r[k] # <<>>
                              /\ \A j \in DOMAIN r[k] : \E i \in DOMAIN list : r[k][j] = list[i]
        /\ \A i \in DOMAIN list : \E k \in DOMAIN r : \E j \in DOMAIN r[k] : r[k][j] = list[i]
    BY <2>2, ChunkCovers
  <2>4. \A x \in Sent(version, list) : \E k \in DOMAIN r : x \in Sent(version, r[k])
    <3>1. SUFFICES ASSUME NEW i \in DOMAIN list
                   PROVE  \E k \in DOMAIN r : AsStorePolicy(version, list[i]) \in Sent(version, r[k])
      BY DEF Sent
    <3>2. PICK k \in DOMAIN r : \E j \in DOMAIN r[k] : r[k][j] = list[i]  BY <2>3
    <3>3. PICK j \in DOMAIN r[k] : r[k][j] = list[i]  BY <3>2
    <3>4. AsStorePolicy(version, list[i]) \in Sent(version, r[k])  BY <3>3 DEF Sent
    <3>. QED  BY <3>4
  <2>5. ASSUME Sendable(version, list), NEW k \in DOMAIN r
        PROVE  ValidatePolicies(version, r[k])
    <3>1. r[k] # <<>>  BY <2>3
    <3>2. \A j \in DOMAIN r[k] : \E i \in DOMAIN list : r[k][j] = list[i]  BY <2>3
    <3>. QED  BY <3>1, <3>2, <2>5 DEF Sendable, ValidatePolicies
  <2>. QED  BY <2>1, <2>3, <2>4, <2>5
<1>. QED  BY <1>1, <1>2

---------------------------------------------------------------------------
(* Finite sets *)

LEMMA Enumerates ==
  ASSUME NEW S, IsFiniteSet(S)
  PROVE  /\ SetToSeq(S) \in Seq(S)
         /\ \A x \in S : \E i \in DOMAIN SetToSeq(S) : SetToSeq(S)[i] = x
<1>. DEFINE n == Cardinality(S)
<1>1. n \in Nat /\ ExistsBijection(1..n, S)  BY FS_CardinalityType
<1>2. PICK g : g \in Bijection(1..n, S)  BY <1>1 DEF ExistsBijection
<1>3. g \in [1..n -> S] /\ IsInjective(g)  BY <1>2 DEF Bijection, Injection
<1>4. PICK f : f = SetToSeq(S)  OBVIOUS
<1>5. f \in [1..n -> S] /\ IsInjective(f)  BY <1>3, <1>4 DEF SetToSeq
<1>6. f \in Injection(1..n, S)  BY <1>5 DEF Injection
<1>7. IsFiniteSet(1..n) /\ Cardinality(1..n) = n
  <2>. HIDE DEF n
  <2>1. 1 \in Int /\ n \in Int  BY <1>1
  <2>2. IsFiniteSet(1..n) /\ Cardinality(1..n) = IF 1 > n THEN 0 ELSE n - 1 + 1  BY <2>1, FS_Interval
  <2>. QED  BY <2>2, <1>1
<1>8. f \in Surjection(1..n, S)  BY <1>6, <1>7, FS_Injection
<1>9. \A x \in S : \E i \in 1..n : f[i] = x  BY <1>8 DEF Surjection
<1>. HIDE DEF n
<1>10. f \in Seq(S)  BY <1>1, <1>5, FunctionIsSeq
<1>11. DOMAIN f = 1..n  BY <1>5
<1>. QED  BY <1>4, <1>9, <1>10, <1>11

LEMMA FiniteRange ==
  ASSUME NEW S, IsFiniteSet(S), NEW f, f = [x \in S |-> f[x]]
  PROVE  IsFiniteSet({f[x] : x \in S})
<1>. DEFINE T == {f[x] : x \in S}
<1>1. f \in [S -> T]  OBVIOUS
<1>2. \A t \in T : \E x \in S : f[x] = t  OBVIOUS
<1>3. f \in Surjection(S, T)  BY <1>1, <1>2 DEF Surjection
<1>. QED  BY <1>3, FS_Surjection

LEMMA SentFinite ==
  ASSUME NEW version, NEW T, NEW list \in Seq(T)
  PROVE  IsFiniteSet(Sent(version, list))
<1>1. PICK f : f = [i \in DOMAIN list |-> AsStorePolicy(version, list[i])]  OBVIOUS
<1>2. f = [i \in DOMAIN list |-> f[i]]  BY <1>1
<1>3. IsFiniteSet(DOMAIN list)
  <2>1. DOMAIN list = 1..Len(list) /\ Len(list) \in Int /\ 1 \in Int  OBVIOUS
  <2>. QED  BY <2>1, FS_Interval
<1>4. IsFiniteSet({f[i] : i \in DOMAIN list})  BY <1>2, <1>3, FiniteRange
<1>5. {f[i] : i \in DOMAIN list} = Sent(version, list)  BY <1>1 DEF Sent
<1>. QED  BY <1>4, <1>5

---------------------------------------------------------------------------
(* The mappers *)

LEMMA MappedIsGoal ==
  ASSUME NEW version \in Versions, NEW p \in Policies(version)
  PROVE  AsStorePolicy(version, p) \in Goals
<1>1. CASE version = "v1"
  <2>1. /\ p.src \in Ids \cup {NoId} /\ p.dst \in Ids \cup {NoId} /\ p.proto \in STRING
        /\ p.start \in Int /\ p.end \in Int
    BY <1>1 DEF Policies
  <2>. QED  BY <1>1, <2>1 DEF AsStorePolicy, AsStoreV1, StorePolicy, Goals
<1>2. CASE version = "v0"
  <2>1. /\ p.src \in Ids \cup {NoId} /\ p.dst \in Ids \cup {NoId} /\ p.proto \in STRING
        /\ p.port \in Int
    BY <1>2 DEF Policies
  <2>. QED  BY <1>2, <2>1 DEF AsStorePolicy, AsStoreV0, StorePolicy, Goals
<1>. QED  BY <1>1, <1>2 DEF Versions

\* What the validator of its version lets through may be stored.
LEMMA ValidIsEntry ==
  ASSUME NEW version \in Versions, NEW p \in Policies(version),
         IF version = "v1" THEN ValidV1(p) ELSE ValidV0(p)
  PROVE  Entry(AsStorePolicy(version, p))
<1>1. PICK s : s = AsStorePolicy(version, p)  OBVIOUS
<1>2. s \in Goals  BY <1>1, MappedIsGoal
<1>3. CASE version = "v1"
  <2>1. /\ p.src \in Ids /\ p.dst \in Ids /\ p.proto \in {"udp", "tcp"}
        /\ p.start \in Int /\ p.end \in Int /\ 0 < p.start /\ p.start <= p.end
    BY <1>3 DEF Policies, ValidV1, NamesApps, KnownProtocol
  <2>2. /\ s.src = p.src /\ s.dst = p.dst /\ s.proto = p.proto /\ s.start = p.start
        /\ s.end = p.end /\ s.port = IF p.start = p.end THEN p.start ELSE 0
    BY <1>1, <1>3 DEF AsStorePolicy, AsStoreV1, StorePolicy
  <2>. QED  BY <1>1, <1>2, <2>1, <2>2 DEF Entry
<1>4. CASE version = "v0"
  <2>1. /\ p.src \in Ids /\ p.dst \in Ids /\ p.proto \in {"udp", "tcp"}
        /\ p.port \in Int /\ 0 < p.port
    BY <1>4 DEF Policies, ValidV0, NamesApps, KnownProtocol
  <2>2. /\ s.src = p.src /\ s.dst = p.dst /\ s.proto = p.proto
        /\ s.start = p.port /\ s.end = p.port /\ s.port = p.port
    BY <1>1, <1>4 DEF AsStorePolicy, AsStoreV0, StorePolicy
  <2>. QED  BY <1>1, <1>2, <2>1, <2>2 DEF Entry
<1>. QED  BY <1>3, <1>4 DEF Versions

\* A stored policy as a version lists it, and the policies it lists for a query.
Listed(version, s) ==
  IF version = "v1" THEN V1(s.src, s.dst, s.proto, s.start, s.end)
                    ELSE V0(s.src, s.dst, s.proto, s.start)

Shown(version, q) == {s \in Selected(q) : version = "v1" \/ CanMapV0(s)}

\* A policy with a tag, and with the tag blanked.
LEMMA Untagged ==
  ASSUME NEW s
  PROVE  /\ [MapV1(s) EXCEPT !.tagged = FALSE] = Listed("v1", s)
         /\ [MapV0(s) EXCEPT !.tagged = FALSE] = Listed("v0", s)
<1>1. PICK a, b, x, y, z, f, t :
        /\ a = s.src /\ b = s.dst /\ x = s.proto /\ y = s.start /\ z = s.end
        /\ f = FALSE /\ t = TRUE
  OBVIOUS
<1>. DEFINE R(g) == [src |-> a, dst |-> b, proto |-> x, start |-> y, end |-> z, tagged |-> g]
            U(g) == [src |-> a, dst |-> b, proto |-> x, port |-> y, tagged |-> g]
<1>2. ASSUME NEW g, NEW h
      PROVE  [R(g) EXCEPT !.tagged = h] = R(h) /\ [U(g) EXCEPT !.tagged = h] = U(h)
  OBVIOUS
<1>3. V1(s.src, s.dst, s.proto, s.start, s.end) = R(f) /\ V0(s.src, s.dst, s.proto, s.start) = U(f)
  BY <1>1 DEF V1, V0
<1>4. Listed("v1", s) = R(f) /\ Listed("v0", s) = U(f)  BY <1>3 DEF Listed
<1>. HIDE DEF R, U
<1>5. MapV1(s) = [R(f) EXCEPT !.tagged = t] /\ MapV0(s) = [U(f) EXCEPT !.tagged = t]
  BY <1>1, <1>3 DEF MapV1, MapV0
<1>6. MapV1(s) = R(t) /\ MapV0(s) = U(t)  BY <1>2, <1>5
<1>7. [MapV1(s) EXCEPT !.tagged = f] = R(f) /\ [MapV0(s) EXCEPT !.tagged = f] = U(f)
  BY <1>2, <1>6
<1>. QED  BY <1>1, <1>4, <1>7

LEMMA IndexIs ==
  ASSUME NEW version \in Versions, NEW q
  PROVE  Index(version, q) = {Listed(version, s) : s \in Shown(version, q)}
<1>1. ASSUME NEW s PROVE /\ [MapV1(s) EXCEPT !.tagged = FALSE] = Listed("v1", s)
                         /\ [MapV0(s) EXCEPT !.tagged = FALSE] = Listed("v0", s)
  BY Untagged
<1>2. PICK T : T = Selected(q)  OBVIOUS
<1>3. CASE version = "v1"
  <2>1. AsBytes(version, T) = {MapV1(s) : s \in T}  BY <1>3 DEF AsBytes
  <2>2. Shown(version, q) = T  BY <1>2, <1>3 DEF Shown
  <2>3. Index(version, q) = {[p EXCEPT !.tagged = FALSE] : p \in {MapV1(s) : s \in T}}
    BY <1>2, <2>1 DEF Index
  <2>4. @ = {[MapV1(s) EXCEPT !.tagged = FALSE] : s \in T}  OBVIOUS
  <2>5. @ = {Listed("v1", s) : s \in T}  BY <1>1
  <2>. QED  BY <1>3, <2>2, <2>3, <2>4, <2>5
<1>4. CASE version = "v0"
  <2>. DEFINE U == {t \in T : CanMapV0(t)}
  <2>1. AsBytes(version, T) = {MapV0(s) : s \in U}  BY <1>4 DEF AsBytes
  <2>2. Shown(version, q) = U  BY <1>2, <1>4 DEF Shown
  <2>. HIDE DEF U
  <2>3. Index(version, q) = {[p EXCEPT !.tagged = FALSE] : p \in {MapV0(s) : s \in U}}
    BY <1>2, <2>1 DEF Index
  <2>4. @ = {[MapV0(s) EXCEPT !.tagged = FALSE] : s \in U}  OBVIOUS
  <2>5. @ = {Listed("v0", s) : s \in U}  BY <1>1
  <2>. QED  BY <1>4, <2>2, <2>3, <2>4, <2>5
<1>. QED  BY <1>3, <1>4 DEF Versions

\* What is listed maps back to the stored policy it stands for, and is valid.
LEMMA ListedBack ==
  ASSUME NEW version \in Versions, NEW s, Entry(s), version = "v1" \/ CanMapV0(s)
  PROVE  /\ Listed(version, s) \in Policies(version)
         /\ AsStorePolicy(version, Listed(version, s)) = s
         /\ version = "v0" => ValidV0(Listed(version, s))
         /\ version = "v1" /\ s.end <= 65535 => ValidV1(Listed(version, s))
<1>1. /\ s.src \in Ids /\ s.dst \in Ids /\ s.proto \in {"udp", "tcp"}
      /\ s.start \in Int /\ s.end \in Int /\ 0 < s.start /\ s.start <= s.end
      /\ s.port = IF s.start = s.end THEN s.start ELSE 0
  BY DEF Entry, Goals
<1>2. s = [src |-> s.src, dst |-> s.dst, proto |-> s.proto, port |-> s.port,
           start |-> s.start, end |-> s.end]
  BY DEF Entry, Goals
<1>3. /\ s.src # NoId /\ s.dst # NoId
      /\ s.src \in Ids \cup {NoId} /\ s.dst \in Ids \cup {NoId} /\ s.proto \in STRING
  <2>1. s.src # NoId /\ s.dst # NoId  BY <1>1, PolicyAPIAssumption
  <2>2. s.proto \in STRING  BY DEF Entry, Goals
  <2>. QED  BY <1>1, <2>1, <2>2
<1>4. CASE version = "v1"
  <2>1. PICK p : p = V1(s.src, s.dst, s.proto, s.start, s.end)  OBVIOUS
  <2>2. p = Listed(version, s)  BY <1>4, <2>1 DEF Listed
  <2>3. /\ p.src = s.src /\ p.dst = s.dst /\ p.proto = s.proto /\ p.start = s.start
        /\ p.end = s.end /\ p.tagged = FALSE
    BY <2>1 DEF V1
  <2>4. p \in Policies(version)  BY <1>1, <1>3, <1>4, <2>1 DEF V1, Policies
  <2>5. AsStorePolicy(version, p) = s  BY <1>1, <1>2, <1>4, <2>3 DEF AsStorePolicy, AsStoreV1, StorePolicy
  <2>6. s.end <= 65535 => ValidV1(p)  BY <1>1, <1>3, <2>3 DEF ValidV1, NamesApps, KnownProtocol
  <2>. QED  BY <1>4, <2>2, <2>4, <2>5, <2>6
<1>5. CASE version = "v0"
  <2>1. PICK p : p = V0(s.src, s.dst, s.proto, s.start)  OBVIOUS
  <2>2. p = Listed(version, s)  BY <1>5, <2>1 DEF Listed
  <2>3. /\ p.src = s.src /\ p.dst = s.dst /\ p.proto = s.proto /\ p.port = s.start
        /\ p.tagged = FALSE
    BY <2>1 DEF V0
  <2>4. p \in Policies(version)  BY <1>1, <1>3, <1>5, <2>1 DEF V0, Policies
  <2>5. s.start = s.end  BY <1>5 DEF CanMapV0
  <2>6. AsStorePolicy(version, p) = s
    BY <1>1, <1>2, <1>5, <2>3, <2>5 DEF AsStorePolicy, AsStoreV0, StorePolicy
  <2>7. ValidV0(p)  BY <1>1, <1>3, <2>3 DEF ValidV0, NamesApps, KnownProtocol
  <2>. QED  BY <1>5, <2>2, <2>4, <2>6, <2>7
<1>. QED  BY <1>4, <1>5 DEF Versions

---------------------------------------------------------------------------
(* Calls *)

LEMMA IdleFacts ==
  /\ Idle.op = "idle" /\ Idle.version = "v0" /\ Idle.user \in Users
  /\ Idle.todo = <<>> /\ Idle.goal = {}
BY PolicyAPIAssumption DEF Idle

LEMMA CallFacts ==
  ASSUME NEW call \in AnyCall, call # Idle
  PROVE  /\ call.op \in {"add", "delete"} /\ call.version \in Versions /\ call.user \in Users
         /\ call.todo \in Seq(Seq(Policies(call.version))) /\ call.goal \in SUBSET Goals
         /\ call \in Calls(call.version)
<1>1. CASE call \in Calls("v0")
  <2>1. call.version = "v0"  BY <1>1 DEF Calls
  <2>. QED  BY <1>1, <2>1 DEF Calls, Versions
<1>2. CASE call \in Calls("v1")
  <2>1. call.version = "v1"  BY <1>2 DEF Calls
  <2>. QED  BY <1>2, <2>1 DEF Calls, Versions
<1>. QED  BY <1>1, <1>2 DEF AnyCall

LEMMA CallIn ==
  ASSUME NEW version \in Versions, NEW call \in Calls(version)
  PROVE  call \in AnyCall /\ call # Idle
<1>1. call.op \in {"add", "delete"}  BY DEF Calls
<1>2. call # Idle  BY <1>1, IdleFacts
<1>. QED  BY <1>2 DEF AnyCall, Versions

\* The requests left are the next one and those after it.
LEMMA RemainingIs ==
  ASSUME NEW version, NEW T, NEW todo \in Seq(T), todo # <<>>
  PROVE  \A x : (\E k \in DOMAIN todo : x \in Sent(version, todo[k])) <=>
               \/ x \in Sent(version, Head(todo))
               \/ \E k \in DOMAIN Tail(todo) : x \in Sent(version, Tail(todo)[k])
<1>1. PICK u \in Seq(T) : u = Tail(todo)  BY HeadTailProperties
<1>2. Len(todo) \in Nat /\ Len(todo) >= 1 /\ Len(u) = Len(todo) - 1  BY <1>1
<1>3. DOMAIN todo = 1..Len(todo) /\ DOMAIN u = 1..Len(u)  OBVIOUS
<1>4. Head(todo) = todo[1] /\ \A k \in DOMAIN u : u[k] = todo[k + 1]  BY <1>1
<1>5. ASSUME NEW k \in DOMAIN todo PROVE k = 1 \/ (k - 1 \in DOMAIN u /\ u[k - 1] = todo[k])
  <2>1. k # 1 => k - 1 \in DOMAIN u /\ k - 1 + 1 = k  BY <1>2, <1>3
  <2>. QED  BY <2>1, <1>4
<1>6. ASSUME NEW k \in DOMAIN u PROVE k + 1 \in DOMAIN todo  BY <1>2, <1>3
<1>7. 1 \in DOMAIN todo  BY <1>2, <1>3
<1>. QED  BY <1>1, <1>4, <1>5, <1>6, <1>7

LEMMA InRemaining ==
  ASSUME NEW call, NEW x
  PROVE  x \in Remaining(call) <=> \E k \in DOMAIN call.todo : x \in Sent(call.version, call.todo[k])
BY DEF Remaining

\* What others do is recorded.
LEMMA OthersRecorded ==
  ASSUME NEW call, NEW t, NEW t2, NEW now, NEW then, OnTheWay(call, t, now),
         t \cup (now \ then) \cup (then \ now) \subseteq t2
  PROVE  OnTheWay(call, t2, then)
BY DEF OnTheWay

\* The store after a request, and the call after it.
Applied(op, ps, now, then) == then = IF op = "add" THEN now \cup ps ELSE now \ ps
Rest(call) == [call EXCEPT !.todo = Tail(call.todo)]

\* A request that took effect brings the call nearer to its goal.
LEMMA Nearer ==
  ASSUME NEW call, NEW rest, NEW t, NEW now, NEW then, NEW ps,
         OnTheWay(call, t, now), Remaining(call) \subseteq ps \cup Remaining(rest),
         rest.op = call.op, rest.goal = call.goal,
         Applied(call.op, ps, now, then)
  PROVE  OnTheWay(rest, t, then)
BY DEF OnTheWay, Applied

---------------------------------------------------------------------------
(* Requests *)

LEMMA StatusFacts ==
  ASSUME NEW version, NEW op, NEW user, NEW list, NEW ps
  PROVE  LET status == Status(version, op, user, list, ps)
         IN  /\ status \in Results
             /\ status = "ok" => ValidatePolicies(version, list)
             /\ status = "rejected" => ~ValidatePolicies(version, list)
<1>1. CASE ~MayWrite(user)  BY <1>1 DEF Status, Results
<1>2. CASE MayWrite(user) /\ ~ValidatePolicies(version, list)  BY <1>2 DEF Status, Results
<1>3. CASE MayWrite(user) /\ ValidatePolicies(version, list)  BY <1>3 DEF Status, Results
<1>. QED  BY <1>1, <1>2, <1>3

\* The store after a request that was accepted.
LEMMA EffectOK ==
  ASSUME StoreInv, NEW version \in Versions, NEW list \in Seq(Policies(version)),
         ValidatePolicies(version, list), NEW op, NEW new, new = Effect(op, Sent(version, list))
  PROVE  IsFiniteSet(new) /\ \A s \in new : Entry(s)
<1>. DEFINE ps == Sent(version, list)
<1>1. IsFiniteSet(ps)  BY SentFinite
<1>2. \A s \in ps : Entry(s)
  <2>1. SUFFICES ASSUME NEW i \in DOMAIN list PROVE Entry(AsStorePolicy(version, list[i]))
    BY DEF Sent
  <2>2. list[i] \in Policies(version)  OBVIOUS
  <2>3. IF version = "v1" THEN ValidV1(list[i]) ELSE ValidV0(list[i])  BY DEF ValidatePolicies
  <2>. QED  BY <2>2, <2>3, ValidIsEntry
<1>. HIDE DEF ps
<1>3. new = IF op = "add" THEN stored \cup ps ELSE stored \ ps  BY DEF ps, Effect
<1>4. IsFiniteSet(stored) /\ \A s \in stored : Entry(s)  BY DEF StoreInv
<1>5. IsFiniteSet(stored \cup ps)  BY <1>1, <1>4, FS_Union
<1>6. IsFiniteSet(stored \ ps)  BY <1>4, FS_Difference
<1>. QED  BY <1>2, <1>3, <1>4, <1>5, <1>6

---------------------------------------------------------------------------
(* The steps keep the invariant *)

LEMMA InitHolds == APIInit => APIInv
<1>. SUFFICES ASSUME APIInit PROVE APIInv  OBVIOUS
<1>1. StoreInv  BY FS_EmptySet DEF APIInit, StoreInv
<1>2. Idle \in AnyCall /\ "none" \in Results  BY DEF AnyCall, Results
<1>3. Types  BY <1>2 DEF APIInit, Types
<1>4. \A c \in Clients : client[c] = Idle  BY DEF APIInit
<1>. QED  BY <1>1, <1>3, <1>4 DEF APIInv, CallInv

LEMMA BeginFacts ==
  ASSUME NEW c, NEW op, NEW version, NEW user, NEW list, NEW goal,
         Begin(c, op, version, user, list, goal)
  PROVE  /\ result' = [result EXCEPT ![c] = "none"]
         /\ touched' = [touched EXCEPT ![c] = {}]
         /\ stored' = stored
<1>1. result' = [result EXCEPT ![c] = "none"]  BY DEF Begin
<1>2. touched' = [touched EXCEPT ![c] = {}]  BY DEF Begin
<1>3. stored' = stored  BY DEF Begin
<1>. QED  BY <1>1, <1>2, <1>3

LEMMA BeginKeeps ==
  ASSUME APIInv, NEW c \in Clients, NEW op \in {"add", "delete"}, NEW version \in Versions,
         NEW user \in Users, NEW list \in Seq(Policies(version)), NEW goal \in SUBSET Goals,
         Begin(c, op, version, user, list, goal), goal \subseteq Sent(version, list),
         op = "delete" /\ InBounds(version, goal) => Sendable(version, list)
  PROVE  APIInv'
<1>1. PICK r : r = RequestsOf(version, list)  OBVIOUS
<1>2. /\ r \in Seq(Seq(Policies(version)))
      /\ \A x \in Sent(version, list) : \E k \in DOMAIN r : x \in Sent(version, r[k])
      /\ Sendable(version, list) => \A k \in DOMAIN r : ValidatePolicies(version, r[k])
  BY <1>1, RequestsCover
<1>. DEFINE new == [op |-> op, version |-> version, user |-> user, todo |-> r, goal |-> goal]
<1>3. client' = [client EXCEPT ![c] = new]  BY <1>1 DEF Begin
<1>4. /\ new.op = op /\ new.version = version /\ new.user = user
      /\ new.todo = r /\ new.goal = goal
  OBVIOUS
<1>5. new \in Calls(version)  BY <1>2 DEF Calls
<1>. HIDE DEF new
<1>6. new \in AnyCall /\ new # Idle  BY <1>5, CallIn
<1>7. /\ client' = [client EXCEPT ![c] = new] /\ result' = [result EXCEPT ![c] = "none"]
      /\ touched' = [touched EXCEPT ![c] = {}] /\ stored' = stored
  BY <1>3, BeginFacts
<1>8. Types'  BY <1>6, <1>7 DEF APIInv, Types, Results
<1>9. StoreInv'  BY <1>7 DEF APIInv, StoreInv
<1>10. /\ client'[c] = new /\ result'[c] = "none" /\ touched'[c] = {}
       /\ \A d \in Clients \ {c} : /\ client'[d] = client[d] /\ result'[d] = result[d]
                                  /\ touched'[d] = touched[d]
  BY <1>7 DEF APIInv, Types
<1>11. goal \subseteq Remaining(new)
  <2>1. SUFFICES ASSUME NEW x \in goal PROVE x \in Remaining(new)  OBVIOUS
  <2>2. \E k \in DOMAIN r : x \in Sent(version, r[k])  BY <1>2
  <2>. QED  BY <2>2, <1>4, InRemaining
<1>12. OnTheWay(new, touched'[c], stored')  BY <1>4, <1>11, <1>10 DEF OnTheWay
<1>13. Acceptable(new)  BY <1>2, <1>4 DEF Acceptable
<1>14. CallInv(c)'
  <2>1. OnTheWay(client'[c], touched'[c], stored')  BY <1>10, <1>12
  <2>2. Acceptable(client'[c])  BY <1>10, <1>13
  <2>. QED  BY <2>1, <2>2, <1>10 DEF CallInv
<1>15. ASSUME NEW d \in Clients, d # c PROVE CallInv(d)'
  <2>1. CallInv(d)  BY DEF APIInv
  <2>2. client'[d] = client[d] /\ result'[d] = result[d] /\ touched'[d] = touched[d]  BY <1>10, <1>15
  <2>. QED  BY <2>1, <2>2, <1>7 DEF CallInv
<1>. QED  BY <1>8, <1>9, <1>14, <1>15 DEF APIInv

LEMMA AddKeeps ==
  ASSUME APIInv, NEW c \in Clients, NEW version \in Versions, NEW user \in Users,
         NEW list \in Lists[version], AddPolicies(c, version, user, list)
  PROVE  APIInv'
<1>1. list \in Seq(Policies(version))  BY PolicyAPIAssumption
<1>2. Begin(c, "add", version, user, list, Sent(version, list))  BY DEF AddPolicies, Sent
<1>3. Sent(version, list) \in SUBSET Goals
  <2>1. \A i \in DOMAIN list : list[i] \in Policies(version)  BY <1>1
  <2>2. \A i \in DOMAIN list : AsStorePolicy(version, list[i]) \in Goals  BY <2>1, MappedIsGoal
  <2>. QED  BY <2>2 DEF Sent
<1>4. PICK g, a : g = Sent(version, list) /\ a = "add"  OBVIOUS
<1>. QED  BY <1>1, <1>2, <1>3, <1>4, BeginKeeps

LEMMA ShownOK ==
  ASSUME StoreInv, NEW version \in Versions, NEW q
  PROVE  /\ IsFiniteSet(Index(version, q))
         /\ Index(version, q) \subseteq Policies(version)
         /\ \A s \in Shown(version, q) : Entry(s) /\ (version = "v1" \/ CanMapV0(s))
<1>. DEFINE T == Shown(version, q)
<1>1. Selected(q) \subseteq stored  BY DEF Selected
<1>2. T \subseteq stored /\ \A s \in T : version = "v1" \/ CanMapV0(s)  BY <1>1 DEF Shown
<1>3. \A s \in T : Entry(s)  BY <1>2 DEF StoreInv
<1>4. IsFiniteSet(T)  BY <1>2, FS_Subset DEF StoreInv
<1>. HIDE DEF T
<1>5. Index(version, q) = {Listed(version, s) : s \in T}  BY IndexIs DEF T
<1>6. IsFiniteSet({Listed(version, s) : s \in T})
  <2>1. PICK f : f = [s \in T |-> Listed(version, s)]  OBVIOUS
  <2>2. f = [s \in T |-> f[s]]  BY <2>1
  <2>3. IsFiniteSet({f[s] : s \in T})  BY <1>4, <2>2, FiniteRange
  <2>4. {f[s] : s \in T} = {Listed(version, s) : s \in T}  BY <2>1
  <2>. QED  BY <2>3, <2>4
<1>7. \A s \in T : Listed(version, s) \in Policies(version)  BY <1>2, <1>3, ListedBack
<1>. QED  BY <1>2, <1>3, <1>5, <1>6, <1>7 DEF T

LEMMA DeleteKeeps ==
  ASSUME APIInv, NEW c \in Clients, NEW version \in Versions, NEW user \in Users,
         NEW q \in Queries, DeleteListed(c, version, user, q)
  PROVE  APIInv'
<1>. DEFINE I == Index(version, q)
<1>1. PICK goal : goal = Shown(version, q)  OBVIOUS
<1>2. PICK list : list = SetToSeq(I)  OBVIOUS
<1>3. Begin(c, "delete", version, user, list, goal)
  BY <1>1, <1>2 DEF DeleteListed, Shown
<1>4. StoreInv  BY DEF APIInv
<1>5. IsFiniteSet(I) /\ I \subseteq Policies(version)  BY <1>4, ShownOK
<1>6. \A s \in goal : Entry(s) /\ (version = "v1" \/ CanMapV0(s))  BY <1>1, <1>4, ShownOK
<1>7. I = {Listed(version, s) : s \in goal}  BY <1>1, IndexIs
<1>. HIDE DEF I
<1>8. list \in Seq(I) /\ \A x \in I : \E i \in DOMAIN list : list[i] = x
  BY <1>2, <1>5, Enumerates
<1>9. \A i \in DOMAIN list : list[i] \in I  BY <1>8
<1>10. list \in Seq(Policies(version))
  <2>1. Len(list) \in Nat /\ list \in [1..Len(list) -> I]  BY <1>8
  <2>2. list \in [1..Len(list) -> Policies(version)]  BY <2>1, <1>5
  <2>. QED  BY <2>1, <2>2, FunctionIsSeq
<1>11. goal \in SUBSET Goals  BY <1>6 DEF Entry
<1>12. goal \subseteq Sent(version, list)
  <2>1. SUFFICES ASSUME NEW s \in goal PROVE s \in Sent(version, list)  OBVIOUS
  <2>2. PICK i \in DOMAIN list : list[i] = Listed(version, s)  BY <1>7, <1>8
  <2>3. AsStorePolicy(version, Listed(version, s)) = s  BY <1>6, ListedBack
  <2>. QED  BY <2>2, <2>3 DEF Sent
<1>13. ASSUME InBounds(version, goal)
       PROVE  Sendable(version, list)
  <2>1. version = "v0" \/ list # <<>>
    <3>1. ASSUME goal # {} PROVE list # <<>>
      <4>1. PICK s \in goal : TRUE  BY <3>1
      <4>2. \E i \in DOMAIN list : list[i] = Listed(version, s)  BY <1>7, <1>8
      <4>. QED  BY <4>2
    <3>. QED  BY <1>13, <3>1 DEF InBounds
  <2>2. ASSUME NEW i \in DOMAIN list
        PROVE  IF version = "v1" THEN ValidV1(list[i]) ELSE ValidV0(list[i])
    <3>1. PICK s \in goal : list[i] = Listed(version, s)  BY <1>7, <1>9
    <3>2. /\ version = "v0" => ValidV0(Listed(version, s))
          /\ version = "v1" /\ s.end <= 65535 => ValidV1(Listed(version, s))
      BY <1>6, ListedBack
    <3>. QED  BY <3>1, <3>2, <1>13 DEF Versions, InBounds
  <2>. QED  BY <2>1, <2>2 DEF Sendable
<1>. QED  BY <1>3, <1>10, <1>11, <1>12, <1>13, BeginKeeps

LEMMA ChangedFacts ==
  ASSUME NEW c \in Clients, Changed(c)
  PROVE  /\ touched' = [d \in Clients |-> touched'[d]]
         /\ touched'[c] = IF client'[c] = Idle THEN {} ELSE touched[c]
         /\ \A d \in Clients \ {c} :
              touched'[d] = IF client[d] = Idle THEN {}
                            ELSE touched[d] \cup (stored \ stored') \cup (stored' \ stored)
<1>1. touched' = [d \in Clients |-> touched'[d]]  BY DEF Changed
<1>2. touched'[c] = IF client'[c] = Idle THEN {} ELSE touched[c]  BY DEF Changed
<1>3. ASSUME NEW d \in Clients, d # c
      PROVE  touched'[d] = IF client[d] = Idle THEN {}
                           ELSE touched[d] \cup (stored \ stored') \cup (stored' \ stored)
  <2>1. CASE client[d] = Idle  BY <1>3, <2>1 DEF Changed
  <2>2. CASE client[d] # Idle  BY <1>3, <2>2 DEF Changed
  <2>. QED  BY <2>1, <2>2
<1>. QED  BY <1>1, <1>2, <1>3

\* A step of one call that leaves the store well formed: the others go on.
LEMMA OthersGoOn ==
  ASSUME APIInv, NEW c \in Clients, StoreInv', Changed(c), NEW new \in AnyCall,
         client' = [client EXCEPT ![c] = new], NEW how \in Results,
         result' = [result EXCEPT ![c] = how],
         new # Idle => how = "none" /\ OnTheWay(new, touched[c], stored') /\ Acceptable(new)
  PROVE  APIInv'
<1>1. Types  BY DEF APIInv
<1>2. /\ client'[c] = new /\ result'[c] = how
      /\ \A d \in Clients \ {c} : client'[d] = client[d] /\ result'[d] = result[d]
  BY <1>1 DEF Types
<1>3. stored \subseteq Goals /\ stored' \subseteq Goals
  <2>1. StoreInv  BY DEF APIInv
  <2>2. \A s \in stored : Entry(s)  BY <2>1 DEF StoreInv
  <2>3. \A s \in stored' : Entry(s)  BY DEF StoreInv
  <2>. QED  BY <2>2, <2>3 DEF Entry
<1>4. touched' \in [Clients -> SUBSET Goals]
  <2>1. \A d \in Clients : touched[d] \subseteq Goals  BY <1>1 DEF Types
  <2>2. ASSUME NEW d \in Clients PROVE touched'[d] \subseteq Goals
    BY <2>1, <1>3, ChangedFacts
  <2>3. touched' = [d \in Clients |-> touched'[d]]  BY ChangedFacts
  <2>. QED  BY <2>2, <2>3
<1>5. Types'
  <2>1. client' \in [Clients -> AnyCall]  BY <1>1 DEF Types
  <2>2. result' \in [Clients -> Results]  BY <1>1 DEF Types
  <2>. QED  BY <2>1, <2>2, <1>4 DEF Types
<1>6. CallInv(c)'
  <2>1. CASE new = Idle  BY <1>2, <2>1 DEF CallInv
  <2>2. CASE new # Idle
    <3>1. touched'[c] = touched[c]  BY <1>2, <2>2, ChangedFacts
    <3>2. OnTheWay(client'[c], touched'[c], stored')  BY <3>1, <2>2, <1>2
    <3>3. Acceptable(client'[c]) /\ result'[c] = "none"  BY <2>2, <1>2
    <3>. QED  BY <3>2, <3>3 DEF CallInv
  <2>. QED  BY <2>1, <2>2
<1>7. ASSUME NEW d \in Clients, d # c PROVE CallInv(d)'
  <2>1. CASE client[d] = Idle  BY <1>2, <1>7, <2>1 DEF CallInv
  <2>2. CASE client[d] # Idle
    <3>1. touched'[d] = touched[d] \cup (stored \ stored') \cup (stored' \ stored)
      BY <1>7, <2>2, ChangedFacts
    <3>2. result[d] = "none" /\ OnTheWay(client[d], touched[d], stored) /\ Acceptable(client[d])
      BY <2>2 DEF APIInv, CallInv
    <3>3. PICK t2, then : t2 = touched'[d] /\ then = stored'  OBVIOUS
    <3>4. OnTheWay(client[d], t2, then)  BY <3>1, <3>2, <3>3, OthersRecorded
    <3>5. OnTheWay(client'[d], touched'[d], stored')  BY <3>3, <3>4, <1>2, <1>7
    <3>6. Acceptable(client'[d]) /\ result'[d] = "none"  BY <3>2, <1>2, <1>7
    <3>. QED  BY <3>5, <3>6 DEF CallInv
  <2>. QED  BY <2>1, <2>2
<1>. QED  BY <1>5, <1>6, <1>7 DEF APIInv

\* The call a request belongs to.
LEMMA CallOf ==
  ASSUME APIInv, NEW c \in Clients, client[c].todo # <<>>
  PROVE  /\ client[c] # Idle /\ client[c] \in AnyCall
         /\ client[c].op \in {"add", "delete"} /\ client[c].version \in Versions
         /\ client[c].todo \in Seq(Seq(Policies(client[c].version)))
         /\ Head(client[c].todo) \in Seq(Policies(client[c].version))
         /\ client[c] \in Calls(client[c].version)
         /\ CallInv(c)
<1>1. client[c] # Idle  BY IdleFacts
<1>2. client[c] \in AnyCall  BY DEF APIInv, Types
<1>3. PICK call : call = client[c]  OBVIOUS
<1>4. /\ call.op \in {"add", "delete"} /\ call.version \in Versions /\ call \in Calls(call.version)
      /\ call.todo \in Seq(Seq(Policies(call.version)))
  BY <1>1, <1>2, <1>3, CallFacts
<1>5. Head(call.todo) \in Seq(Policies(call.version))  BY <1>3, <1>4, HeadTailProperties
<1>6. CallInv(c)  BY DEF APIInv
<1>. QED  BY <1>1, <1>2, <1>3, <1>4, <1>5, <1>6

LEMMA PostFacts ==
  ASSUME NEW c, NEW call, call = client[c], NEW list, list = Head(call.todo),
         NEW ps, ps = Sent(call.version, list),
         NEW status, status = Status(call.version, call.op, call.user, list, ps), Post(c)
  PROVE  /\ stored' = IF status = "ok" THEN Effect(call.op, ps) ELSE stored
         /\ IF status = "ok" /\ Len(call.todo) > 1
            THEN client' = [client EXCEPT ![c].todo = Tail(@)] /\ result' = result
            ELSE End(c, status)
         /\ Changed(c)
BY DEF Post, Sent

LEMMA PostFailsFacts ==
  ASSUME NEW c, NEW call, call = client[c], NEW list, list = Head(call.todo),
         NEW ps, ps = Sent(call.version, list),
         NEW status, status = Status(call.version, call.op, call.user, list, ps), PostFails(c)
  PROVE  /\ stored' = stored \/ (status = "ok" /\ stored' = Effect(call.op, ps))
         /\ End(c, "failed")
         /\ Changed(c)
BY DEF PostFails, Sent

\* The call after its first request took effect.
LEMMA Advance ==
  ASSUME NEW version \in Versions, NEW call \in Calls(version), call.todo # <<>>,
         NEW t, NEW now, NEW then, OnTheWay(call, t, now), Acceptable(call),
         NEW ps, ps = Sent(version, Head(call.todo)),
         Applied(call.op, ps, now, then),
         NEW rest, rest = Rest(call)
  PROVE  rest \in Calls(version) /\ OnTheWay(rest, t, then) /\ Acceptable(rest)
<1>1. PICK todo : todo = call.todo  OBVIOUS
<1>2. todo \in Seq(Seq(Policies(version))) /\ call.version = version  BY <1>1 DEF Calls
<1>3. PICK tail : tail = Tail(todo)  OBVIOUS
<1>4. /\ tail \in Seq(Seq(Policies(version))) /\ Len(tail) = Len(todo) - 1
      /\ \A i \in 1..Len(tail) : tail[i] = todo[i + 1]
  BY <1>1, <1>2, <1>3, HeadTailProperties
<1>5. rest = [call EXCEPT !.todo = tail]  BY <1>1, <1>3 DEF Rest
<1>6. /\ rest.op = call.op /\ rest.version = version /\ rest.goal = call.goal /\ rest.todo = tail
      /\ rest \in Calls(version)
  BY <1>2, <1>4, <1>5 DEF Calls
<1>7. Remaining(call) \subseteq ps \cup Remaining(rest)
  <2>1. SUFFICES ASSUME NEW x \in Remaining(call), x \notin ps PROVE x \in Remaining(rest)
    OBVIOUS
  <2>2. \E k \in DOMAIN todo : x \in Sent(version, todo[k])  BY <1>1, <1>2, <2>1, InRemaining
  <2>3. \E k \in DOMAIN tail : x \in Sent(version, tail[k])
    BY <1>1, <1>2, <1>3, <2>1, <2>2, RemainingIs
  <2>. QED  BY <2>3, <1>6, InRemaining
<1>8. OnTheWay(rest, t, then)  BY <1>6, <1>7, Nearer
<1>9. ASSUME rest.op = "delete", InBounds(version, rest.goal),
             NEW k \in DOMAIN tail
      PROVE  ValidatePolicies(version, tail[k])
  <2>1. \A i \in DOMAIN todo : ValidatePolicies(version, todo[i])
    BY <1>1, <1>2, <1>6, <1>9 DEF Acceptable
  <2>2. k \in 1..Len(tail) /\ k + 1 \in DOMAIN todo  BY <1>2, <1>4
  <2>. QED  BY <2>1, <2>2, <1>4
<1>10. Acceptable(rest)  BY <1>6, <1>9 DEF Acceptable
<1>. QED  BY <1>6, <1>8, <1>10

LEMMA IdleIn == Idle \in AnyCall
BY DEF AnyCall

LEMMA PostKeeps ==
  ASSUME APIInv, NEW c \in Clients, Post(c)
  PROVE  APIInv'
<1>1. client[c].todo # <<>>  BY DEF Post
<1>2. PICK call : call = client[c]  OBVIOUS
<1>3. PICK list : list = Head(call.todo)  OBVIOUS
<1>4. PICK ps : ps = Sent(call.version, list)  OBVIOUS
<1>5. PICK status : status = Status(call.version, call.op, call.user, list, ps)  OBVIOUS
<1>6. /\ call # Idle /\ call \in AnyCall /\ call.op \in {"add", "delete"} /\ call.version \in Versions
      /\ call.todo \in Seq(Seq(Policies(call.version))) /\ list \in Seq(Policies(call.version))
      /\ call \in Calls(call.version) /\ CallInv(c)
  BY <1>1, <1>2, <1>3, CallOf
<1>7. /\ stored' = IF status = "ok" THEN Effect(call.op, ps) ELSE stored
      /\ IF status = "ok" /\ Len(call.todo) > 1
         THEN client' = [client EXCEPT ![c].todo = Tail(@)] /\ result' = result
         ELSE End(c, status)
      /\ Changed(c)
  BY <1>2, <1>3, <1>4, <1>5, PostFacts
<1>8. status \in Results /\ (status = "ok" => ValidatePolicies(call.version, list))
  BY <1>5, StatusFacts
<1>9. StoreInv'
  <2>1. StoreInv  BY DEF APIInv
  <2>2. CASE status = "ok"
    <3>1. PICK new : new = Effect(call.op, ps)  OBVIOUS
    <3>2. IsFiniteSet(new) /\ \A s \in new : Entry(s)  BY <2>1, <2>2, <3>1, <1>4, <1>6, <1>8, EffectOK
    <3>3. stored' = new  BY <1>7, <2>2, <3>1
    <3>. QED  BY <3>2, <3>3 DEF StoreInv
  <2>3. CASE status # "ok"  BY <2>1, <2>3, <1>7 DEF StoreInv
  <2>. QED  BY <2>2, <2>3
<1>10. Types  BY DEF APIInv
<1>11. CASE status = "ok" /\ Len(call.todo) > 1
  <2>1. client' = [client EXCEPT ![c].todo = Tail(@)] /\ result' = result  BY <1>7, <1>11
  <2>2. PICK rest : rest = Rest(call)  OBVIOUS
  <2>3. client' = [client EXCEPT ![c] = rest]  BY <2>1, <2>2, <1>2, <1>10 DEF Types, Rest
  <2>4. result[c] = "none" /\ OnTheWay(call, touched[c], stored) /\ Acceptable(call)
    BY <1>2, <1>6 DEF CallInv
  <2>5. result' = [result EXCEPT ![c] = "none"]  BY <2>1, <2>4, <1>10 DEF Types
  <2>6. /\ call.op = "add" => stored' = stored \cup ps
        /\ call.op # "add" => stored' = stored \ ps
    BY <1>7, <1>11 DEF Effect
  <2>7. PICK then, now, t : then = stored' /\ now = stored /\ t = touched[c]  OBVIOUS
  <2>8. rest \in Calls(call.version) /\ OnTheWay(rest, t, then) /\ Acceptable(rest)
    <3>1. PICK version \in Versions : version = call.version  BY <1>6
    <3>2. call \in Calls(version) /\ call.todo # <<>> /\ ps = Sent(version, Head(call.todo))
      BY <1>1, <1>2, <1>3, <1>4, <1>6, <3>1
    <3>3. OnTheWay(call, t, now) /\ Acceptable(call)  BY <2>4, <2>7
    <3>4. Applied(call.op, ps, now, then)  BY <2>6, <2>7 DEF Applied
    <3>5. rest \in Calls(version) /\ OnTheWay(rest, t, then) /\ Acceptable(rest)
      BY <3>2, <3>3, <3>4, <2>2, Advance
    <3>. QED  BY <3>1, <3>5
  <2>9. rest \in AnyCall  BY <2>8, <1>6, CallIn
  <2>10. "none" \in Results  BY DEF Results
  <2>. QED  BY <1>7, <1>9, <2>3, <2>5, <2>7, <2>8, <2>9, <2>10, OthersGoOn
<1>12. CASE ~(status = "ok" /\ Len(call.todo) > 1)
  <2>1. client' = [client EXCEPT ![c] = Idle] /\ result' = [result EXCEPT ![c] = status]
    BY <1>7, <1>12 DEF End
  <2>. QED  BY <2>1, <1>7, <1>8, <1>9, IdleIn, OthersGoOn
<1>. QED  BY <1>11, <1>12

LEMMA PostFailsKeeps ==
  ASSUME APIInv, NEW c \in Clients, PostFails(c)
  PROVE  APIInv'
<1>1. client[c].todo # <<>>  BY DEF PostFails
<1>2. PICK call : call = client[c]  OBVIOUS
<1>3. PICK list : list = Head(call.todo)  OBVIOUS
<1>4. PICK ps : ps = Sent(call.version, list)  OBVIOUS
<1>5. PICK status : status = Status(call.version, call.op, call.user, list, ps)  OBVIOUS
<1>6. call.version \in Versions /\ list \in Seq(Policies(call.version))
  BY <1>1, <1>2, <1>3, CallOf
<1>7. /\ stored' = stored \/ (status = "ok" /\ stored' = Effect(call.op, ps))
      /\ End(c, "failed") /\ Changed(c)
  BY <1>2, <1>3, <1>4, <1>5, PostFailsFacts
<1>8. status = "ok" => ValidatePolicies(call.version, list)  BY <1>5, StatusFacts
<1>9. StoreInv'
  <2>1. StoreInv  BY DEF APIInv
  <2>2. CASE stored' = stored  BY <2>1, <2>2 DEF StoreInv
  <2>3. CASE status = "ok" /\ stored' = Effect(call.op, ps)
    <3>1. PICK new : new = Effect(call.op, ps)  OBVIOUS
    <3>2. IsFiniteSet(new) /\ \A s \in new : Entry(s)  BY <2>1, <2>3, <3>1, <1>4, <1>6, <1>8, EffectOK
    <3>3. stored' = new  BY <2>3, <3>1
    <3>. QED  BY <3>2, <3>3 DEF StoreInv
  <2>. QED  BY <1>7, <2>2, <2>3
<1>10. client' = [client EXCEPT ![c] = Idle] /\ result' = [result EXCEPT ![c] = "failed"]
  BY <1>7 DEF End
<1>11. "failed" \in Results  BY DEF Results
<1>. QED  BY <1>7, <1>9, <1>10, <1>11, IdleIn, OthersGoOn

LEMMA NothingToDoKeeps ==
  ASSUME APIInv, NEW c \in Clients, NothingToDo(c)
  PROVE  APIInv'
<1>1. /\ client' = [client EXCEPT ![c] = Idle] /\ result' = [result EXCEPT ![c] = "ok"]
      /\ stored' = stored /\ touched' = touched
  BY DEF NothingToDo, End
<1>2. Types /\ StoreInv  BY DEF APIInv
<1>3. Types'  BY <1>1, <1>2, IdleIn DEF Types, Results
<1>4. StoreInv'  BY <1>1, <1>2 DEF StoreInv
<1>5. /\ client'[c] = Idle
      /\ \A d \in Clients \ {c} : client'[d] = client[d] /\ result'[d] = result[d]
  BY <1>1, <1>2 DEF Types
<1>6. ASSUME NEW d \in Clients PROVE CallInv(d)'
  <2>1. CASE d = c  BY <1>5, <2>1 DEF CallInv
  <2>2. CASE d # c
    <3>1. CallInv(d)  BY DEF APIInv
    <3>2. client'[d] = client[d] /\ result'[d] = result[d]  BY <1>5, <2>2
    <3>. QED  BY <3>1, <3>2, <1>1 DEF CallInv
  <2>. QED  BY <2>1, <2>2
<1>. QED  BY <1>3, <1>4, <1>6 DEF APIInv

LEMMA NextKeeps == APIInv /\ [APINext]_pavars => APIInv'
<1>. SUFFICES ASSUME APIInv, [APINext]_pavars PROVE APIInv'  OBVIOUS
<1>1. CASE UNCHANGED pavars
  <2>1. stored' = stored /\ client' = client /\ result' = result /\ touched' = touched
    BY <1>1 DEF pavars
  <2>. QED  BY <2>1 DEF APIInv, StoreInv, Types, CallInv
<1>2. CASE APINext
  <2>1. PICK c \in Clients :
          \/ \E version \in Versions, user \in Users :
               \/ \E list \in Lists[version] : AddPolicies(c, version, user, list)
               \/ \E q \in Queries : DeleteListed(c, version, user, q)
          \/ Post(c) \/ NothingToDo(c) \/ PostFails(c)
    BY <1>2 DEF APINext
  <2>. QED  BY <2>1, AddKeeps, DeleteKeeps, PostKeeps, NothingToDoKeeps, PostFailsKeeps
<1>. QED  BY <1>1, <1>2

\* The store holds only what a validator let through, and a call's goal is
\* reached, left to do, or was changed by others.
THEOREM APIInvariant == APISpec => []APIInv
BY InitHolds, NextKeeps, PTL DEF APISpec

---------------------------------------------------------------------------
(* The views *)

LEMMA InvTypes == APIInv => APITypeOK
<1>. SUFFICES ASSUME APIInv PROVE APITypeOK  OBVIOUS
<1>1. \A s \in stored : s.port = (IF s.start = s.end THEN s.start ELSE 0)
  BY DEF APIInv, StoreInv, Entry
<1>2. ASSUME NEW c \in Clients
      PROVE  /\ client[c].op \in {"idle", "add", "delete"}
             /\ client[c].version \in Versions /\ client[c].user \in Users
             /\ result[c] \in {"none", "ok", "rejected", "forbidden", "failed"}
  <2>1. PICK call \in AnyCall : call = client[c]  BY DEF APIInv, Types
  <2>2. result[c] \in Results  BY DEF APIInv, Types
  <2>3. CASE call = Idle  BY <2>1, <2>2, <2>3, IdleFacts DEF Versions, Results
  <2>4. CASE call # Idle  BY <2>1, <2>2, <2>4, CallFacts DEF Results
  <2>. QED  BY <2>3, <2>4
<1>. QED  BY <1>1, <1>2 DEF APITypeOK

\* The mappers undo each other, for the agents' forms too.
LEMMA MapsBack ==
  ASSUME NEW s, Entry(s)
  PROVE  /\ AsStoreV1(Listed("v1", s)) = s /\ Listed("v1", s).start = s.start
         /\ Listed("v1", s).end = s.end
         /\ AsStoreV1(MapV1(s)) = s /\ MapV1(s).start = s.start /\ MapV1(s).end = s.end
         /\ CanMapV0(s) => AsStoreV0(Listed("v0", s)) = s /\ AsStoreV0(MapV0Internal(s)) = s
<1>1. AsStoreV1(Listed("v1", s)) = s  BY ListedBack DEF Versions, AsStorePolicy
<1>2. CanMapV0(s) => AsStoreV0(Listed("v0", s)) = s  BY ListedBack DEF Versions, AsStorePolicy
<1>3. Listed("v1", s).start = s.start /\ Listed("v1", s).end = s.end  BY DEF Listed, V1
<1>4. PICK p : p = MapV1(s)  OBVIOUS
<1>5. /\ p.src = s.src /\ p.dst = s.dst /\ p.proto = s.proto
      /\ p.start = s.start /\ p.end = s.end
  BY <1>4 DEF MapV1, V1
<1>6. PICK l : l = Listed("v1", s)  OBVIOUS
<1>7. /\ l.src = s.src /\ l.dst = s.dst /\ l.proto = s.proto
      /\ l.start = s.start /\ l.end = s.end
  BY <1>6 DEF Listed, V1
<1>8. AsStoreV1(p) = AsStoreV1(l)  BY <1>5, <1>7 DEF AsStoreV1, StorePolicy
<1>9. PICK u, v : u = MapV0Internal(s) /\ v = Listed("v0", s)  OBVIOUS
<1>10. /\ u.src = s.src /\ u.dst = s.dst /\ u.proto = s.proto /\ u.port = s.start
       /\ v.src = s.src /\ v.dst = s.dst /\ v.proto = s.proto /\ v.port = s.start
  BY <1>9 DEF MapV0Internal, Listed, V0
<1>11. AsStoreV0(u) = AsStoreV0(v)  BY <1>10 DEF AsStoreV0, StorePolicy
<1>. QED  BY <1>1, <1>2, <1>3, <1>4, <1>5, <1>6, <1>8, <1>9, <1>11

LEMMA IndexesAgree ==
  ASSUME StoreInv, NEW q
  PROVE  {AsStoreV0(p) : p \in Index("v0", q)} =
           {AsStoreV1(p) : p \in {r \in Index("v1", q) : r.start = r.end}}
<1>1. PICK T : T = Selected(q)  OBVIOUS
<1>2. \A s \in T : Entry(s)
  <2>1. Selected(q) \subseteq stored  BY DEF Selected
  <2>. QED  BY <1>1, <2>1 DEF StoreInv
<1>3. PICK I, J : I = Index("v0", q) /\ J = Index("v1", q)  OBVIOUS
<1>. DEFINE U == {s \in T : s.start = s.end}
<1>4. I = {Listed("v0", s) : s \in U}
  <2>1. Shown("v0", q) = U  BY <1>1 DEF Shown, CanMapV0
  <2>. QED  BY <1>3, <2>1, IndexIs DEF Versions
<1>5. J = {Listed("v1", s) : s \in T}
  <2>1. Shown("v1", q) = T  BY <1>1 DEF Shown
  <2>. QED  BY <1>3, <2>1, IndexIs DEF Versions
<1>6. \A s \in U : AsStoreV0(Listed("v0", s)) = s
  BY <1>2, MapsBack DEF CanMapV0
<1>7. \A s \in T : /\ AsStoreV1(Listed("v1", s)) = s /\ Listed("v1", s).start = s.start
                   /\ Listed("v1", s).end = s.end
  BY <1>2, MapsBack
<1>8. {AsStoreV0(p) : p \in I} = U
  <2>1. {AsStoreV0(p) : p \in I} = {AsStoreV0(Listed("v0", s)) : s \in U}  BY <1>4
  <2>2. {AsStoreV0(Listed("v0", s)) : s \in U} = {s : s \in U}  BY <1>6
  <2>. QED  BY <2>1, <2>2
<1>9. {AsStoreV1(p) : p \in {r \in J : r.start = r.end}} = U
  <2>1. {r \in J : r.start = r.end} = {Listed("v1", s) : s \in U}  BY <1>5, <1>7
  <2>2. {AsStoreV1(p) : p \in {Listed("v1", s) : s \in U}} = {AsStoreV1(Listed("v1", s)) : s \in U}
    OBVIOUS
  <2>3. {AsStoreV1(Listed("v1", s)) : s \in U} = {s : s \in U}  BY <1>7
  <2>. QED  BY <2>1, <2>2, <2>3
<1>. QED  BY <1>3, <1>8, <1>9

LEMMA InternalAgree ==
  ASSUME StoreInv, NEW ids
  PROVE  {AsStoreV0(p) : p \in IndexInternal("v0", ids)} =
           {AsStoreV1(p) : p \in {r \in IndexInternal("v1", ids) : r.start = r.end}}
<1>1. PICK T : T = IF ids = {} THEN stored ELSE {s \in stored : s.src \in ids \/ s.dst \in ids}
  OBVIOUS
<1>2. \A s \in T : Entry(s)  BY <1>1 DEF StoreInv
<1>3. PICK I, J : I = IndexInternal("v0", ids) /\ J = IndexInternal("v1", ids)  OBVIOUS
<1>. DEFINE U == {s \in T : CanMapV0(s)}
<1>4. I = {MapV0Internal(s) : s \in U}  BY <1>1, <1>3 DEF IndexInternal
<1>5. J = {MapV1(s) : s \in T}  BY <1>1, <1>3 DEF IndexInternal, AsBytes
<1>6. \A s \in U : AsStoreV0(MapV0Internal(s)) = s  BY <1>2, MapsBack
<1>7. \A s \in T : AsStoreV1(MapV1(s)) = s /\ MapV1(s).start = s.start /\ MapV1(s).end = s.end
  BY <1>2, MapsBack
<1>8. {AsStoreV0(p) : p \in I} = U
  <2>1. {AsStoreV0(p) : p \in I} = {AsStoreV0(MapV0Internal(s)) : s \in U}  BY <1>4
  <2>2. {AsStoreV0(MapV0Internal(s)) : s \in U} = {s : s \in U}  BY <1>6
  <2>. QED  BY <2>1, <2>2
<1>9. {AsStoreV1(p) : p \in {r \in J : r.start = r.end}} = U
  <2>1. {r \in J : r.start = r.end} = {MapV1(s) : s \in U}  BY <1>5, <1>7 DEF CanMapV0
  <2>2. {AsStoreV1(p) : p \in {MapV1(s) : s \in U}} = {AsStoreV1(MapV1(s)) : s \in U}  OBVIOUS
  <2>3. {AsStoreV1(MapV1(s)) : s \in U} = {s : s \in U}  BY <1>7
  <2>. QED  BY <2>1, <2>2, <2>3
<1>. QED  BY <1>3, <1>8, <1>9

\* Both versions of the API show the same policies, to users and to the agents
\* on the cells, and asking for every app is asking for everything.
THEOREM VersionsShowTheSame == APISpec => []ViewsAgree
<1>1. APIInv => ViewsAgree
  <2>. SUFFICES ASSUME APIInv PROVE ViewsAgree  OBVIOUS
  <2>1. StoreInv /\ APITypeOK  BY InvTypes DEF APIInv
  <2>2. IndexInternal("v1", Ids) = IndexInternal("v1", {})
    <3>1. \A s \in stored : s.src \in Ids  BY <2>1 DEF StoreInv, Entry
    <3>2. {s \in stored : s.src \in Ids \/ s.dst \in Ids} = stored  BY <3>1
    <3>. QED  BY <3>2 DEF IndexInternal
  <2>3. \A q \in Queries :
          {AsStoreV0(p) : p \in Index("v0", q)} =
            {AsStoreV1(p) : p \in {r \in Index("v1", q) : r.start = r.end}}
    BY <2>1, IndexesAgree
  <2>4. \A ids \in SUBSET Ids :
          {AsStoreV0(p) : p \in IndexInternal("v0", ids)} =
            {AsStoreV1(p) : p \in {r \in IndexInternal("v1", ids) : r.start = r.end}}
    BY <2>1, InternalAgree
  <2>. QED  BY <2>1, <2>2, <2>3, <2>4 DEF ViewsAgree
<1>. QED  BY <1>1, APIInvariant, PTL

---------------------------------------------------------------------------
(* How calls end *)

\* Beginning a call ends none.
LEMMA BeginEndsNone ==
  ASSUME APIInv, NEW c \in Clients, NEW op, NEW version, NEW user, NEW list, NEW goal,
         Begin(c, op, version, user, list, goal), NEW d \in Clients, client[d] # Idle
  PROVE  client'[d] = client[d] /\ result'[d] = result[d]
<1>1. d # c  BY DEF Begin
<1>2. PICK new : client' = [client EXCEPT ![c] = new]  BY DEF Begin
<1>3. client'[d] = client[d]  BY <1>1, <1>2 DEF APIInv, Types
<1>4. result'[d] = result[d]  BY <1>1, BeginFacts DEF APIInv, Types
<1>. QED  BY <1>3, <1>4

\* The goal is reached, but for what others changed.
Done(call, others, now) ==
  IF call.op = "add" THEN call.goal \ others \subseteq now
                     ELSE call.goal \cap now \subseteq others

LEMMA NothingLeft ==
  ASSUME NEW call, NEW t, NEW now, OnTheWay(call, t, now), DOMAIN call.todo = {}
  PROVE  Done(call, t, now)
<1>1. Remaining(call) = {}  BY DEF Remaining
<1>. QED  BY <1>1 DEF OnTheWay, Done

\* The last request of a call, and a request that is rejected.
LEMMA PostEnds ==
  ASSUME APIInv, NEW c \in Clients, Post(c)
  PROVE  /\ client'[c] = Idle /\ result'[c] = "ok" => Done(client[c], touched[c], stored')
         /\ result'[c] = "rejected" => ~ValidatePolicies(client[c].version, client[c].todo[1])
         /\ \A d \in Clients \ {c} : client'[d] = client[d] /\ result'[d] = result[d]
<1>1. client[c].todo # <<>>  BY DEF Post
<1>2. PICK call : call = client[c]  OBVIOUS
<1>3. PICK list : list = Head(call.todo)  OBVIOUS
<1>4. PICK ps : ps = Sent(call.version, list)  OBVIOUS
<1>5. PICK status : status = Status(call.version, call.op, call.user, list, ps)  OBVIOUS
<1>6. /\ call # Idle /\ call.version \in Versions
      /\ call.todo \in Seq(Seq(Policies(call.version)))
      /\ call \in Calls(call.version) /\ CallInv(c)
  BY <1>1, <1>2, <1>3, CallOf
<1>7. /\ stored' = IF status = "ok" THEN Effect(call.op, ps) ELSE stored
      /\ IF status = "ok" /\ Len(call.todo) > 1
         THEN client' = [client EXCEPT ![c].todo = Tail(@)] /\ result' = result
         ELSE End(c, status)
  BY <1>2, <1>3, <1>4, <1>5, PostFacts
<1>8. Types  BY DEF APIInv
<1>9. result[c] = "none" /\ OnTheWay(call, touched[c], stored) /\ Acceptable(call)
  BY <1>2, <1>6 DEF CallInv
<1>10. CASE status = "ok" /\ Len(call.todo) > 1
  <2>1. client' = [client EXCEPT ![c].todo = Tail(@)] /\ result' = result  BY <1>7, <1>10
  <2>2. result'[c] = "none"  BY <2>1, <1>9
  <2>3. \A d \in Clients \ {c} : client'[d] = client[d] /\ result'[d] = result[d]
    BY <2>1, <1>8 DEF Types
  <2>. QED  BY <2>2, <2>3
<1>11. CASE ~(status = "ok" /\ Len(call.todo) > 1)
  <2>1. client' = [client EXCEPT ![c] = Idle] /\ result' = [result EXCEPT ![c] = status]
    BY <1>7, <1>11 DEF End
  <2>2. /\ client'[c] = Idle /\ result'[c] = status
        /\ \A d \in Clients \ {c} : client'[d] = client[d] /\ result'[d] = result[d]
    BY <2>1, <1>8 DEF Types
  <2>3. status = "rejected" => ~ValidatePolicies(call.version, list)  BY <1>5, StatusFacts
  <2>4. list = call.todo[1]  BY <1>1, <1>2, <1>3, <1>6
  <2>5. ASSUME status = "ok" PROVE Done(call, touched[c], stored')
    <3>1. PICK then, now, t : then = stored' /\ now = stored /\ t = touched[c]  OBVIOUS
    <3>2. PICK version \in Versions : version = call.version  BY <1>6
    <3>3. call \in Calls(version) /\ call.todo # <<>> /\ ps = Sent(version, Head(call.todo))
      BY <1>1, <1>2, <1>3, <1>4, <1>6, <3>2
    <3>4. OnTheWay(call, t, now) /\ Acceptable(call)  BY <1>9, <3>1
    <3>5. Applied(call.op, ps, now, then)  BY <1>7, <2>5, <3>1 DEF Applied, Effect
    <3>6. PICK rest : rest = Rest(call)  OBVIOUS
    <3>7. OnTheWay(rest, t, then)  BY <3>3, <3>4, <3>5, <3>6, Advance
    <3>8. PICK todo : todo = call.todo  OBVIOUS
    <3>9. todo \in Seq(Seq(Policies(version))) /\ Len(todo) = 1
      <4>1. todo \in Seq(Seq(Policies(version))) /\ todo # <<>>  BY <1>6, <3>2, <3>3, <3>8
      <4>2. Len(todo) \in Nat /\ Len(todo) # 0  BY <4>1
      <4>3. ~(Len(todo) > 1)  BY <1>11, <2>5, <3>8
      <4>4. PICK n \in Nat : n = Len(todo)  BY <4>2
      <4>5. n = 1  BY <4>2, <4>3, <4>4
      <4>. QED  BY <4>1, <4>4, <4>5
    <3>10. DOMAIN Tail(todo) = {}
      <4>1. todo # <<>>  BY <3>3, <3>8
      <4>2. PICK u \in Seq(Seq(Policies(version))) : u = Tail(todo) /\ Len(u) = Len(todo) - 1
        BY <4>1, <3>9, HeadTailProperties
      <4>3. Len(u) = 0 /\ DOMAIN u = 1..Len(u)  BY <4>2, <3>9
      <4>4. 1..0 = {}  OBVIOUS
      <4>5. DOMAIN u = 1..0  BY <4>3
      <4>. QED  BY <4>2, <4>4, <4>5
    <3>11. rest.op = call.op /\ rest.goal = call.goal /\ rest.todo = Tail(todo)
      BY <3>3, <3>6, <3>8 DEF Rest, Calls
    <3>12. Done(rest, t, then)  BY <3>7, <3>10, <3>11, NothingLeft
    <3>13. Done(call, t, then)  BY <3>11, <3>12 DEF Done
    <3>. QED  BY <3>1, <3>13
  <2>. QED  BY <2>2, <2>3, <2>4, <2>5, <1>2
<1>. QED  BY <1>10, <1>11

LEMMA PostFailsEnds ==
  ASSUME APIInv, NEW c \in Clients, PostFails(c)
  PROVE  /\ result'[c] = "failed"
         /\ \A d \in Clients \ {c} : client'[d] = client[d] /\ result'[d] = result[d]
<1>1. client' = [client EXCEPT ![c] = Idle] /\ result' = [result EXCEPT ![c] = "failed"]
  BY DEF PostFails, End
<1>2. Types  BY DEF APIInv
<1>. QED  BY <1>1, <1>2 DEF Types

LEMMA NothingToDoEnds ==
  ASSUME APIInv, NEW c \in Clients, NothingToDo(c)
  PROVE  /\ result'[c] = "ok" /\ Done(client[c], touched[c], stored')
         /\ \A d \in Clients \ {c} : client'[d] = client[d] /\ result'[d] = result[d]
<1>1. /\ client' = [client EXCEPT ![c] = Idle] /\ result' = [result EXCEPT ![c] = "ok"]
      /\ stored' = stored /\ client[c] # Idle /\ client[c].todo = <<>>
  BY DEF NothingToDo, End
<1>2. Types  BY DEF APIInv
<1>3. OnTheWay(client[c], touched[c], stored)  BY <1>1 DEF APIInv, CallInv
<1>4. DOMAIN client[c].todo = {}  BY <1>1
<1>5. Done(client[c], touched[c], stored)  BY <1>3, <1>4, NothingLeft
<1>. QED  BY <1>1, <1>2, <1>5 DEF Types

\* What a step of any client does to a call.
LEMMA StepOfCall ==
  ASSUME APIInv, [APINext]_pavars, NEW d \in Clients, client[d] # Idle
  PROVE  \/ client'[d] = client[d] /\ result'[d] = result[d]
         \/ result'[d] = "failed"
         \/ /\ client'[d] = Idle /\ result'[d] = "ok" => Done(client[d], touched[d], stored')
            /\ result'[d] = "rejected" =>
                 client[d].todo # <<>> /\ ~ValidatePolicies(client[d].version, client[d].todo[1])
<1>1. CASE UNCHANGED pavars  BY <1>1 DEF pavars
<1>2. CASE APINext
  <2>1. PICK c \in Clients :
          \/ \E version \in Versions, user \in Users :
               \/ \E list \in Lists[version] : AddPolicies(c, version, user, list)
               \/ \E q \in Queries : DeleteListed(c, version, user, q)
          \/ Post(c) \/ NothingToDo(c) \/ PostFails(c)
    BY <1>2 DEF APINext
  <2>2. ASSUME NEW version, NEW user, NEW list, AddPolicies(c, version, user, list)
        PROVE  client'[d] = client[d] /\ result'[d] = result[d]
    <3>1. PICK op, goal : Begin(c, op, version, user, list, goal)  BY <2>2 DEF AddPolicies
    <3>. QED  BY <3>1, BeginEndsNone
  <2>3. ASSUME NEW version, NEW user, NEW q, DeleteListed(c, version, user, q)
        PROVE  client'[d] = client[d] /\ result'[d] = result[d]
    <3>1. PICK op, list, goal : Begin(c, op, version, user, list, goal)  BY <2>3 DEF DeleteListed
    <3>. QED  BY <3>1, BeginEndsNone
  <2>4. CASE Post(c)
    <3>1. client[c].todo # <<>>  BY <2>4 DEF Post
    <3>. QED  BY <2>4, <3>1, PostEnds
  <2>5. CASE NothingToDo(c)  BY <2>5, NothingToDoEnds
  <2>6. CASE PostFails(c)  BY <2>6, PostFailsEnds
  <2>. QED  BY <2>1, <2>2, <2>3, <2>4, <2>5, <2>6
<1>. QED  BY <1>1, <1>2

\* A call without an error has done what it was asked to, however many requests
\* it took and whatever the others did to other policies.
THEOREM SuccessIsComplete == APISpec => SuccessMeansDone
<1>1. APIInv /\ [APINext]_pavars =>
        [\A c \in Clients :
           LET call == client[c] IN
             call # Idle /\ client'[c] = Idle /\ result'[c] = "ok" =>
               IF call.op = "add"
               THEN call.goal \ touched[c] \subseteq stored'
               ELSE call.goal \cap stored' \subseteq touched[c]]_pavars
  <2>. SUFFICES ASSUME APIInv, [APINext]_pavars, NEW c \in Clients,
                       client[c] # Idle, client'[c] = Idle, result'[c] = "ok"
                PROVE  IF client[c].op = "add"
                       THEN client[c].goal \ touched[c] \subseteq stored'
                       ELSE client[c].goal \cap stored' \subseteq touched[c]
    OBVIOUS
  <2>1. Done(client[c], touched[c], stored')  BY StepOfCall
  <2>. QED  BY <2>1 DEF Done
<1>. QED  BY <1>1, APIInvariant, PTL DEF APISpec, SuccessMeansDone

\* What a version lists, its validator accepts back.
THEOREM ListedCanBeDeleted == APISpec => ListedIsAccepted
<1>1. APIInv /\ [APINext]_pavars =>
        [\A c \in Clients :
           /\ client[c].op = "delete"
           /\ \/ client[c].version = "v0"
              \/ client[c].goal # {} /\ \A s \in client[c].goal : s.end <= 65535
           => result'[c] # "rejected"]_pavars
  <2>. SUFFICES ASSUME APIInv, [APINext]_pavars, NEW c \in Clients, client[c].op = "delete",
                       InBounds(client[c].version, client[c].goal)
                PROVE  result'[c] # "rejected"
    BY DEF InBounds
  <2>1. client[c] # Idle  BY IdleFacts
  <2>2. result[c] = "none" /\ Acceptable(client[c])  BY <2>1 DEF APIInv, CallInv
  <2>3. ASSUME client[c].todo # <<>>
        PROVE  ValidatePolicies(client[c].version, client[c].todo[1])
    <3>1. client[c].todo \in Seq(Seq(Policies(client[c].version)))  BY <2>3, CallOf
    <3>2. 1 \in DOMAIN client[c].todo  BY <2>3, <3>1
    <3>. QED  BY <2>2, <3>2 DEF Acceptable
  <2>. QED  BY <2>1, <2>2, <2>3, StepOfCall
<1>. QED  BY <1>1, APIInvariant, PTL DEF APISpec, ListedIsAccepted

---------------------------------------------------------------------------
(* PolicyServer: the constants *)

USE PolicyServerAssumption

---------------------------------------------------------------------------
(* PolicyServer: the inductive invariant *)

Requests ==
  [kind : {"none", "create", "delete", "index"}, admin : BOOLEAN, ps : SUBSET Policy,
   pc : {"idle", "spaces", "guard", "quota", "store", "list", "appSpaces", "respond"},
   todo : SUBSET (Spaces \cup Apps), known : SUBSET Apps]

Runs == [pc : {"idle", "chunk", "delete"}, snapshot : SUBSET Policy,
         todo : SUBSET Apps, delete : SUBSET Policy]

\* What the guards have established about a developer's list so far, and what
\* is left to ask.
Guarded(r) ==
  /\ r.pc \in {"spaces", "guard", "quota"} => ~r.admin
  /\ r.pc = "quota" => r.kind = "create"
  /\ r.pc = "guard" => \A a \in AppsOf(r.ps) \cap live : SpaceOf[a] \in r.todo \cup DevSpaces
  /\ r.pc \in {"quota", "store"} /\ ~r.admin =>
       \A a \in AppsOf(r.ps) \cap live : SpaceOf[a] \in DevSpaces
  /\ r.pc = "respond" /\ ~r.admin => \A a \in AppsOf(r.ps) : SpaceOf[a] \in DevSpaces

\* What a run of the cleaner holds is out of date only in what it leaves out.
Sound(r) ==
  /\ r.delete \subseteq r.snapshot
  /\ \A p \in r.delete : {p.src, p.dst} \ live # {}

World == policies \subseteq Policy /\ live \subseteq Apps /\ dev \subseteq DevSpaces

RequestsOK == req \in [Threads -> Requests] /\ \A t \in Threads : Guarded(req[t])
CleanersOK == clean \in [Cleaners -> Runs] /\ \A c \in Cleaners : Sound(clean[c])

Inv == World /\ RequestsOK /\ CleanersOK

---------------------------------------------------------------------------
LEMMA RecordLemma ==
  /\ NoRequest \in Requests /\ NoRequest.pc = "idle"
  /\ NoRun \in Runs /\ NoRun.pc = "idle" /\ NoRun.delete = {}
  BY DEF NoRequest, Requests, NoRun, Runs

LEMMA AppsOfLemma ==
  /\ \A ps \in SUBSET Policy : AppsOf(ps) \subseteq Apps
  /\ \A ps : \A p \in ps : p.src \in AppsOf(ps) /\ p.dst \in AppsOf(ps)
  BY DEF AppsOf, Policy

\* A request changes to r, which is sound; apps and roles stay as they are.
LEMMA ContinueLemma ==
  ASSUME Inv, NEW t \in Threads, NEW r \in Requests, Guarded(r),
         req' = [req EXCEPT ![t] = r], UNCHANGED <<live, dev, clean>>,
         policies' \subseteq Policy
  PROVE  Inv'
<1>1. req' \in [Threads -> Requests]
  BY DEF Inv, RequestsOK
<1>2. \A u \in Threads : req'[u] = req[u] \/ req'[u] = r
  BY DEF Inv, RequestsOK
<1>3. \A u \in Threads : Guarded(req[u])' 
  BY <1>2 DEF Inv, RequestsOK, Guarded
<1> QED BY <1>1, <1>3 DEF Inv, World, RequestsOK, CleanersOK, Sound

\* Likewise for a run of the cleaner.
LEMMA CleanLemma ==
  ASSUME Inv, NEW c \in Cleaners, NEW r \in Runs, Sound(r),
         clean' = [clean EXCEPT ![c] = r], UNCHANGED <<live, dev, req>>,
         policies' \subseteq Policy
  PROVE  Inv'
<1>1. clean' \in [Cleaners -> Runs]
  BY DEF Inv, CleanersOK
<1>2. \A d \in Cleaners : clean'[d] = clean[d] \/ clean'[d] = r
  BY DEF Inv, CleanersOK
<1>3. \A d \in Cleaners : Sound(clean[d])'
  BY <1>2 DEF Inv, CleanersOK, Sound
<1> QED BY <1>1, <1>3 DEF Inv, World, RequestsOK, CleanersOK, Guarded

\* The apps that Cloud Controller lists and the roles only become fewer.
LEMMA ShrinkLemma ==
  ASSUME Inv, live' \subseteq live, dev' \subseteq dev, UNCHANGED <<policies, req, clean>>
  PROVE  Inv'
  BY DEF Inv, World, RequestsOK, CleanersOK, Guarded, Sound

LEMMA InvNext == Inv /\ [Next]_psvars => Inv'
<1> SUFFICES ASSUME Inv, [Next]_psvars PROVE Inv'
  OBVIOUS
<1> USE RecordLemma
<1>0. /\ policies \subseteq Policy /\ live \subseteq Apps /\ dev \subseteq DevSpaces
      /\ \A t \in Threads : req[t] \in Requests /\ Guarded(req[t])
      /\ \A c \in Cleaners : clean[c] \in Runs /\ Sound(clean[c])
  BY DEF Inv, World, RequestsOK, CleanersOK
<1>g. Guarded(NoRequest) /\ Sound(NoRun)
  BY DEF Guarded, Sound
<1>r. ASSUME NEW t \in Threads, Return(t), policies' \subseteq Policy PROVE Inv'
  BY <1>g, <1>r, ContinueLemma DEF Return, Continue
<1>1. ASSUME NEW a \in Apps, DeleteApp(a) PROVE Inv'
  BY <1>1, ShrinkLemma DEF DeleteApp
<1>2. ASSUME NEW sp \in Spaces, RemoveRole(sp) PROVE Inv'
  BY <1>2, ShrinkLemma DEF RemoveRole
<1>3. ASSUME NEW t \in Threads, NEW kind \in {"create", "delete", "index"},
             NEW admin \in BOOLEAN, NEW body \in SUBSET Policy, Receive(t, kind, admin, body)
      PROVE  Inv'
  <2> DEFINE pc == IF kind = "index" THEN "list" ELSE IF admin THEN "store" ELSE "spaces"
             r == [NoRequest EXCEPT !.kind = kind, !.admin = admin, !.ps = body, !.pc = pc]
  <2>1. pc \in {"list", "store", "spaces"} /\ (pc = "store" => admin) /\ (pc = "spaces" => ~admin)
    BY <1>3
  <2>2. req' = [req EXCEPT ![t] = r]
    BY <1>3 DEF Receive
  <2> HIDE DEF pc
  <2>3. r \in Requests /\ r.pc = pc /\ r.admin = admin
    BY <2>1 DEF Requests
  <2> HIDE DEF r
  <2>4. Guarded(r)
    BY <2>1, <2>3 DEF Guarded
  <2> QED BY <1>0, <1>3, <2>2, <2>3, <2>4, ContinueLemma DEF Receive
<1>4. ASSUME NEW t \in Threads, GetSpaceGUIDs(t) PROVE Inv'
  <2> DEFINE spaces == {SpaceOf[a] : a \in AppsOf(req[t].ps) \cap live}
             r == [req[t] EXCEPT !.pc = "guard", !.todo = spaces]
  <2>1. spaces \subseteq Spaces /\ \A a \in AppsOf(req[t].ps) \cap live : SpaceOf[a] \in spaces
    BY <1>0
  <2>2. req' = [req EXCEPT ![t] = r] /\ req[t].pc = "spaces"
    BY <1>4 DEF GetSpaceGUIDs, Continue, At
  <2> HIDE DEF spaces
  <2>3. r \in Requests /\ r.pc = "guard" /\ r.todo = spaces /\ r.ps = req[t].ps /\ r.admin = req[t].admin
    BY <1>0, <2>1 DEF Requests
  <2> HIDE DEF r
  <2>4. Guarded(r)
    BY <1>0, <2>1, <2>2, <2>3 DEF Guarded
  <2> QED BY <1>0, <1>4, <2>2, <2>3, <2>4, ContinueLemma DEF GetSpaceGUIDs, Continue
<1>5. ASSUME NEW t \in Threads, CheckSpace(t) PROVE Inv'
  <2>1. PICK sp \in req[t].todo :
          IF HasUserSpace(sp) THEN Continue(t, [req[t] EXCEPT !.todo = @ \ {sp}]) ELSE Return(t)
    BY <1>5 DEF CheckSpace
  <2>2. CASE ~HasUserSpace(sp)
    BY <1>0, <1>5, <1>r, <2>1, <2>2 DEF CheckSpace
  <2>3. CASE HasUserSpace(sp)
    <3> DEFINE r == [req[t] EXCEPT !.todo = @ \ {sp}]
    <3>1. sp \in DevSpaces /\ req[t].pc = "guard"
      BY <1>0, <1>5, <2>3 DEF HasUserSpace, UserSpaces, CheckSpace, At
    <3>2. r \in Requests /\ r.pc = req[t].pc /\ r.todo = req[t].todo \ {sp} /\ r.ps = req[t].ps /\ r.admin = req[t].admin
      BY <1>0 DEF Requests
    <3> HIDE DEF r
    <3>3. Guarded(r)
      BY <1>0, <3>1, <3>2 DEF Guarded
    <3>4. req' = [req EXCEPT ![t] = r] /\ UNCHANGED <<live, dev, clean>>
      BY <2>1, <2>3 DEF Continue, r
    <3> QED BY <1>0, <1>5, <3>2, <3>3, <3>4, ContinueLemma DEF CheckSpace
  <2> QED BY <2>2, <2>3
<1>6. ASSUME NEW t \in Threads, GuardPassed(t) PROVE Inv'
  <2> DEFINE r == [req[t] EXCEPT !.pc = AfterGuard(t)]
  <2>1. req' = [req EXCEPT ![t] = r] /\ req[t].pc = "guard" /\ req[t].todo = {}
    BY <1>6 DEF GuardPassed, Continue, At
  <2>2. AfterGuard(t) \in {"quota", "store"} /\ (AfterGuard(t) = "quota" => req[t].kind = "create")
    BY DEF AfterGuard
  <2>3. /\ r \in Requests /\ r.pc = AfterGuard(t) /\ r.ps = req[t].ps
        /\ r.admin = req[t].admin /\ r.kind = req[t].kind
    BY <1>0, <2>2 DEF Requests
  <2> HIDE DEF r
  <2>4. Guarded(r)
    BY <1>0, <2>1, <2>2, <2>3 DEF Guarded
  <2> QED BY <1>0, <1>6, <2>1, <2>3, <2>4, ContinueLemma DEF GuardPassed, Continue
<1>7. ASSUME NEW t \in Threads, QuotaCheck(t) PROVE Inv'
  <2>1. CASE Return(t)
    BY <1>0, <1>7, <1>r, <2>1 DEF QuotaCheck
  <2>2. CASE Continue(t, [req[t] EXCEPT !.pc = "store"])
    <3> DEFINE r == [req[t] EXCEPT !.pc = "store"]
    <3>1. req[t].pc = "quota"
      BY <1>7 DEF QuotaCheck, At
    <3>2. r \in Requests /\ r.pc = "store" /\ r.ps = req[t].ps /\ r.admin = req[t].admin
      BY <1>0 DEF Requests
    <3> HIDE DEF r
    <3>3. Guarded(r)
      BY <1>0, <3>1, <3>2 DEF Guarded
    <3>4. req' = [req EXCEPT ![t] = r] /\ UNCHANGED <<live, dev, clean>>
      BY <2>2 DEF Continue, r
    <3> QED BY <1>0, <1>7, <3>2, <3>3, <3>4, ContinueLemma DEF QuotaCheck
  <2> QED BY <1>7, <2>1, <2>2 DEF QuotaCheck
<1>8. ASSUME NEW t \in Threads, StoreCreate(t) PROVE Inv'
  BY <1>0, <1>8, <1>r DEF StoreCreate, Create, Requests
<1>9. ASSUME NEW t \in Threads, StoreDelete(t) PROVE Inv'
  BY <1>0, <1>9, <1>r DEF StoreDelete, Delete
<1>10. ASSUME NEW t \in Threads, ListPolicies(t) PROVE Inv'
  <2> DEFINE to == IF req[t].admin THEN "respond" ELSE "appSpaces"
  <2>1. PICK ps \in Selections(All) :
          Continue(t, [req[t] EXCEPT !.ps = ps, !.todo = AppsOf(ps), !.pc = to])
    BY <1>10 DEF ListPolicies
  <2> DEFINE r == [req[t] EXCEPT !.ps = ps, !.todo = AppsOf(ps), !.pc = to]
  <2>2. ps \subseteq Policy
    BY <1>0 DEF Selections, All
  <2>3. AppsOf(ps) \subseteq Apps
    BY <2>2, AppsOfLemma
  <2>4. to \in {"respond", "appSpaces"} /\ (to = "respond" => req[t].admin)
    OBVIOUS
  <2> HIDE DEF to
  <2>5. r \in Requests /\ r.pc = to /\ r.admin = req[t].admin
    BY <1>0, <2>2, <2>3, <2>4 DEF Requests
  <2> HIDE DEF r
  <2>6. Guarded(r)
    BY <2>4, <2>5 DEF Guarded
  <2>7. req' = [req EXCEPT ![t] = r] /\ UNCHANGED <<live, dev, clean>>
    BY <2>1 DEF Continue, r
  <2> QED BY <1>0, <1>10, <2>5, <2>6, <2>7, ContinueLemma DEF ListPolicies
<1>11. ASSUME NEW t \in Threads, GetAppSpaces(t) PROVE Inv'
  <2>1. PICK chunk \in Chunks(req[t].todo) :
          Continue(t, [req[t] EXCEPT !.todo = @ \ chunk, !.known = @ \cup (chunk \cap live)])
    BY <1>11 DEF GetAppSpaces
  <2> DEFINE r == [req[t] EXCEPT !.todo = @ \ chunk, !.known = @ \cup (chunk \cap live)]
  <2>2. r \in Requests /\ r.pc = req[t].pc /\ r.admin = req[t].admin
    BY <1>0 DEF Requests
  <2>3. req[t].pc = "appSpaces"
    BY <1>11 DEF GetAppSpaces, At
  <2> HIDE DEF r
  <2>4. Guarded(r)
    BY <2>2, <2>3 DEF Guarded
  <2>5. req' = [req EXCEPT ![t] = r] /\ UNCHANGED <<live, dev, clean>>
    BY <2>1 DEF Continue, r
  <2> QED BY <1>0, <1>11, <2>2, <2>4, <2>5, ContinueLemma DEF GetAppSpaces
<1>12. ASSUME NEW t \in Threads, FilterPolicies(t) PROVE Inv'
  <2> DEFINE ps == Filter(req[t].ps, req[t].known, UserSpaces)
             r == [req[t] EXCEPT !.pc = "respond", !.ps = ps]
  <2>1. req' = [req EXCEPT ![t] = r]
    BY <1>12 DEF FilterPolicies, Continue
  <2>2. ps \subseteq Policy /\ \A a \in AppsOf(ps) : SpaceOf[a] \in DevSpaces
    BY <1>0 DEF Filter, UserSpaces, AppsOf, Requests
  <2> HIDE DEF ps
  <2>3. r \in Requests /\ r.pc = "respond" /\ r.ps = ps
    BY <1>0, <2>2 DEF Requests
  <2> HIDE DEF r
  <2>4. Guarded(r)
    BY <2>2, <2>3 DEF Guarded
  <2> QED BY <1>0, <1>12, <2>1, <2>3, <2>4, ContinueLemma DEF FilterPolicies, Continue
<1>13. ASSUME NEW t \in Threads, Respond(t) \/ RequestError(t) PROVE Inv'
  BY <1>0, <1>13, <1>r DEF Respond, RequestError
<1>14. ASSUME NEW c \in Cleaners, CleanList(c) PROVE Inv'
  <2> DEFINE r == [NoRun EXCEPT !.pc = "chunk", !.snapshot = All, !.todo = AppsOf(All)]
  <2>1. r \in Runs /\ r.delete = {}
    BY <1>0, AppsOfLemma DEF Runs, All
  <2>2. clean' = [clean EXCEPT ![c] = r] /\ UNCHANGED <<live, dev, req>> /\ policies' = policies
    BY <1>14 DEF CleanList, CleanTo
  <2> HIDE DEF r
  <2>3. Sound(r)
    BY <2>1 DEF Sound
  <2> QED BY <1>0, <2>1, <2>2, <2>3, CleanLemma
<1>15. ASSUME NEW c \in Cleaners, CleanChunk(c) PROVE Inv'
  <2>1. PICK chunk \in Chunks(clean[c].todo) :
          CleanTo(c, [clean[c] EXCEPT !.pc = "delete", !.todo = @ \ chunk,
                        !.delete = Stale(clean[c].snapshot, chunk, LiveAppGUIDs(chunk))])
    BY <1>15 DEF CleanChunk
  <2> DEFINE stale == Stale(clean[c].snapshot, chunk, LiveAppGUIDs(chunk))
             r == [clean[c] EXCEPT !.pc = "delete", !.todo = @ \ chunk, !.delete = stale]
  <2>2. /\ stale \subseteq clean[c].snapshot
        /\ \A p \in stale : {p.src, p.dst} \ live # {}
    BY DEF Stale, LiveAppGUIDs
  <2> HIDE DEF stale
  <2>3. r \in Runs /\ r.delete = stale /\ r.snapshot = clean[c].snapshot
    BY <1>0, <2>2 DEF Runs
  <2>4. clean' = [clean EXCEPT ![c] = r] /\ UNCHANGED <<live, dev, req>> /\ policies' = policies
    BY <1>15, <2>1 DEF CleanChunk, CleanTo, stale
  <2> HIDE DEF r
  <2>5. Sound(r)
    BY <2>2, <2>3 DEF Sound
  <2> QED BY <1>0, <2>3, <2>4, <2>5, CleanLemma
<1>16. ASSUME NEW c \in Cleaners, CleanDelete(c) PROVE Inv'
  <2> DEFINE r == [clean[c] EXCEPT !.pc = "chunk", !.delete = {}]
  <2>1. r \in Runs /\ r.delete = {}
    BY <1>0 DEF Runs
  <2>2. /\ clean' = [clean EXCEPT ![c] = r] /\ UNCHANGED <<live, dev, req>>
        /\ policies' \subseteq policies
    BY <1>16 DEF CleanDelete, CleanTo, Delete
  <2> HIDE DEF r
  <2>3. Sound(r)
    BY <2>1 DEF Sound
  <2> QED BY <1>0, <2>1, <2>2, <2>3, CleanLemma
<1>17. ASSUME NEW c \in Cleaners, CleanEnd(c) \/ CleanError(c) PROVE Inv'
  BY <1>0, <1>g, <1>17, CleanLemma DEF CleanEnd, CleanError, CleanTo
<1>18. CASE UNCHANGED psvars
  BY <1>18, ShrinkLemma DEF psvars
<1>19. Bodies \subseteq SUBSET Policy /\ {} \in SUBSET Policy
  BY DEF Policy
<1> QED
  BY <1>1, <1>2, <1>3, <1>4, <1>5, <1>6, <1>7, <1>8, <1>9, <1>10, <1>11, <1>12,
     <1>13, <1>14, <1>15, <1>16, <1>17, <1>18, <1>19
  DEF Next, HandlerStep, CleanStep

---------------------------------------------------------------------------
(* The quota *)

\* An app is within its limit, and each request that has passed the quota guard
\* still has room for what it is about to write.
Quota(a) ==
  /\ CountFrom(policies, a) <= MaxPolicies
  /\ \A t \in Pending(a) :
       CountFrom(policies, a) + CountFrom(req[t].ps, a) <= MaxPolicies

Finite ==
  /\ IsFiniteSet(policies)
  /\ \A t \in Threads :
       req[t].pc \in {"spaces", "guard", "quota", "store"} => req[t].ps \in Bodies

QuotaInv == Finite /\ \A a \in Apps \ (unlimited \cup raced) : Quota(a)

LEMMA CountLemma ==
  ASSUME NEW ps, IsFiniteSet(ps), NEW a
  PROVE  /\ CountFrom(ps, a) \in Nat
         /\ (\A p \in ps : p.src # a) => CountFrom(ps, a) = 0
         /\ \A qs : (\A q \in qs : q.src = a => q \in ps) => CountFrom(qs, a) <= CountFrom(ps, a)
<1> DEFINE F == {p \in ps : p.src = a}
<1>1. IsFiniteSet(F) /\ Cardinality(F) \in Nat
  BY FS_Subset, FS_CardinalityType
<1>2. ASSUME NEW qs, \A q \in qs : q.src = a => q \in ps
      PROVE  CountFrom(qs, a) <= CountFrom(ps, a)
  <2>1. {q \in qs : q.src = a} \in SUBSET F
    BY <1>2
  <2> QED BY <1>1, <2>1, FS_Subset DEF CountFrom
<1>3. ASSUME \A p \in ps : p.src # a PROVE CountFrom(ps, a) = 0
  <2>1. F = {}
    BY <1>3
  <2> QED BY <2>1, FS_EmptySet DEF CountFrom
<1> QED BY <1>1, <1>2, <1>3 DEF CountFrom

LEMMA CountUnion ==
  ASSUME NEW ps, IsFiniteSet(ps), NEW qs, IsFiniteSet(qs), NEW a
  PROVE  CountFrom(ps \cup qs, a) <= CountFrom(ps, a) + CountFrom(qs, a)
<1> DEFINE F == {p \in ps : p.src = a}  G == {p \in qs : p.src = a}
<1>1. /\ IsFiniteSet(F) /\ IsFiniteSet(G) /\ IsFiniteSet(F \cap G)
      /\ Cardinality(F) \in Nat /\ Cardinality(G) \in Nat /\ Cardinality(F \cap G) \in Nat
  <2>1. IsFiniteSet(F) /\ IsFiniteSet(G)
    BY FS_Subset
  <2>2. IsFiniteSet(F \cap G)
    BY <2>1, FS_Subset
  <2> QED BY <2>1, <2>2, FS_CardinalityType
<1>2. {p \in ps \cup qs : p.src = a} = F \cup G
  OBVIOUS
<1>3. Cardinality(F \cup G) = Cardinality(F) + Cardinality(G) - Cardinality(F \cap G)
  BY <1>1, FS_Union
<1> HIDE DEF F, G
<1>4. Cardinality(F \cup G) <= Cardinality(F) + Cardinality(G)
  BY <1>1, <1>3
<1> QED BY <1>2, <1>4 DEF CountFrom, F, G

---------------------------------------------------------------------------
\* The sets that are counted are finite.
LEMMA FiniteNext == Inv /\ Finite /\ [Next]_psvars => Finite'
<1> SUFFICES ASSUME Inv, Finite, [Next]_psvars PROVE Finite'
  OBVIOUS
<1> USE RecordLemma
<1>0. req \in [Threads -> Requests]
  BY DEF Inv, RequestsOK
<1>f. ASSUME NEW t \in Threads, req[t].pc = "store" PROVE IsFiniteSet(req[t].ps)
  BY <1>f DEF Finite
<1>p. IsFiniteSet(policies)
  BY DEF Finite
<1>1. ASSUME NEW t \in Threads, NEW r, req' = [req EXCEPT ![t] = r],
             r.pc \in {"spaces", "guard", "quota", "store"} => r.ps \in Bodies,
             IsFiniteSet(policies')
      PROVE  Finite'
  BY <1>0, <1>1 DEF Finite
<1>2. ASSUME req' = req, policies' \subseteq policies PROVE Finite'
  BY <1>2, FS_Subset DEF Finite
<1>r. ASSUME NEW t \in Threads, Return(t), IsFiniteSet(policies') PROVE Finite'
  BY <1>r, <1>1 DEF Return, Continue
<1>3. ASSUME NEW t \in Threads, NEW kind \in {"create", "delete", "index"},
             NEW admin \in BOOLEAN, NEW body,
             Receive(t, kind, admin, body), kind = "index" \/ body \in Bodies
      PROVE  Finite'
  <2> DEFINE pc == IF kind = "index" THEN "list" ELSE IF admin THEN "store" ELSE "spaces"
             r == [NoRequest EXCEPT !.kind = kind, !.admin = admin, !.ps = body, !.pc = pc]
  <2>1. kind = "index" => pc = "list"
    BY <1>3
  <2>2. req' = [req EXCEPT ![t] = r] /\ policies' = policies
    BY <1>3 DEF Receive
  <2> HIDE DEF pc
  <2>3. r.pc = pc /\ r.ps = body
    BY DEF NoRequest
  <2> HIDE DEF r
  <2> QED BY <1>p, <1>1, <1>3, <2>1, <2>2, <2>3
<1>5. ASSUME NEW t \in Threads,
             GetSpaceGUIDs(t) \/ CheckSpace(t) \/ GuardPassed(t) \/ QuotaCheck(t)
      PROVE  Finite'
  <2>1. policies' = policies /\ req[t].pc \in {"spaces", "guard", "quota", "store"}
    BY <1>5 DEF GetSpaceGUIDs, CheckSpace, GuardPassed, QuotaCheck, At
  <2>2. Return(t) \/ \E r : req' = [req EXCEPT ![t] = r] /\ r.ps = req[t].ps
    <3>1. \A x, y : /\ [req[t] EXCEPT !.pc = x].ps = req[t].ps
                    /\ [req[t] EXCEPT !.todo = y].ps = req[t].ps
      BY <1>0 DEF Requests
    <3>2. CASE GetSpaceGUIDs(t)
      <4> DEFINE spaces == {SpaceOf[a] : a \in AppsOf(req[t].ps) \cap live}
      <4>1. req' = [req EXCEPT ![t] = [req[t] EXCEPT !.pc = "guard", !.todo = spaces]]
        BY <3>2 DEF GetSpaceGUIDs, Continue
      <4> HIDE DEF spaces
      <4> DEFINE r == [req[t] EXCEPT !.pc = "guard", !.todo = spaces]
      <4>2. r.ps = req[t].ps
        BY <1>0 DEF Requests
      <4> QED BY <4>1, <4>2
    <3>4. CASE GuardPassed(t)
      BY <3>1, <3>4 DEF GuardPassed, Continue
    <3>5. CASE QuotaCheck(t)
      BY <3>1, <3>5 DEF QuotaCheck, Continue
    <3>3. CASE CheckSpace(t)
      <4>1. PICK sp \in req[t].todo :
              IF HasUserSpace(sp) THEN Continue(t, [req[t] EXCEPT !.todo = req[t].todo \ {sp}])
              ELSE Return(t)
        BY <3>3 DEF CheckSpace
      <4> QED BY <3>1, <4>1 DEF Continue
    <3> QED BY <1>5, <3>2, <3>3, <3>4, <3>5
  <2>3. req[t].ps \in Bodies
    BY <2>1 DEF Finite
  <2> QED BY <1>p, <1>r, <1>1, <2>1, <2>2, <2>3
<1>6. ASSUME NEW t \in Threads, ListPolicies(t) \/ GetAppSpaces(t) \/ FilterPolicies(t)
      PROVE  Finite'
  <2>1. policies' = policies
    BY <1>6 DEF ListPolicies, GetAppSpaces, FilterPolicies
  <2>2. \E r : req' = [req EXCEPT ![t] = r] /\ r.pc \in {"appSpaces", "respond"}
    <3>1. CASE ListPolicies(t)
      <4> DEFINE to == IF req[t].admin THEN "respond" ELSE "appSpaces"
                 r(ps) == [req[t] EXCEPT !.ps = ps, !.todo = AppsOf(ps), !.pc = to]
      <4>1. PICK ps \in Selections(All) : req' = [req EXCEPT ![t] = r(ps)]
        BY <3>1 DEF ListPolicies, Continue
      <4>2. r(ps).pc \in {"appSpaces", "respond"}
        BY <1>0 DEF Requests
      <4> QED BY <4>1, <4>2
    <3>2. CASE GetAppSpaces(t)
      <4> DEFINE r(chunk) == [req[t] EXCEPT !.todo = req[t].todo \ chunk,
                                            !.known = req[t].known \cup (chunk \cap live)]
      <4>1. PICK chunk \in Chunks(req[t].todo) : req' = [req EXCEPT ![t] = r(chunk)]
        BY <3>2 DEF GetAppSpaces, Continue
      <4>2. r(chunk).pc = "appSpaces"
        BY <1>0, <3>2 DEF Requests, GetAppSpaces, At
      <4> QED BY <4>1, <4>2
    <3>3. CASE FilterPolicies(t)
      <4> DEFINE r == [req[t] EXCEPT !.pc = "respond",
                                     !.ps = Filter(req[t].ps, req[t].known, UserSpaces)]
      <4>1. req' = [req EXCEPT ![t] = r]
        BY <3>3 DEF FilterPolicies, Continue
      <4>2. r.pc = "respond"
        BY <1>0 DEF Requests
      <4> QED BY <4>1, <4>2
    <3> QED BY <1>6, <3>1, <3>2, <3>3
  <2> QED BY <1>p, <1>1, <2>1, <2>2
<1>7. ASSUME NEW t \in Threads, Respond(t) \/ RequestError(t) PROVE Finite'
  BY <1>p, <1>7, <1>r DEF Respond, RequestError
<1>8. ASSUME NEW t \in Threads, StoreCreate(t) PROVE Finite'
  <2>1. IsFiniteSet(policies')
    BY <1>p, <1>f, <1>8, FS_Union DEF StoreCreate, Create, At
  <2> QED BY <1>8, <1>r, <2>1 DEF StoreCreate
<1>9. ASSUME NEW t \in Threads, StoreDelete(t) PROVE Finite'
  <2>1. IsFiniteSet(policies')
    BY <1>p, <1>9, FS_Subset DEF StoreDelete, Delete
  <2> QED BY <1>9, <1>r, <2>1 DEF StoreDelete
<1>10. ASSUME NEW c \in Cleaners, CleanStep(c) \/ CleanError(c) PROVE Finite'
  BY <1>2, <1>10 DEF CleanStep, CleanError, CleanList, CleanChunk, CleanDelete, CleanEnd, CleanTo, Delete
<1>11. CASE UNCHANGED psvars \/ (\E a \in Apps : DeleteApp(a)) \/ (\E sp \in Spaces : RemoveRole(sp))
  BY <1>2, <1>11 DEF psvars, DeleteApp, RemoveRole
<1> QED BY <1>3, <1>5, <1>6, <1>7, <1>8, <1>9, <1>10, <1>11 DEF Next, HandlerStep

---------------------------------------------------------------------------
\* A request leaves: it has added what it had counted, or nothing, and it was
\* alone if it has added something.
LEMMA QuotaLeave ==
  ASSUME Inv, Finite, Finite', NEW a \in Apps, Quota(a), NEW t \in Threads,
         \A u \in Threads : u # t => req'[u] = req[u],
         req'[t].pc = "store" => req'[t].kind # "create" \/ req'[t].admin,
         \/ policies' \subseteq policies
         \/ /\ \A p \in policies' : p.src = a => p \in policies \/ p \in req[t].ps
            /\ Pending(a) = {t}
  PROVE  Quota(a)'
<1> DEFINE c == CountFrom(policies, a)  d == CountFrom(policies, a)'
<1>1. Pending(a)' = Pending(a) \ {t}
  BY DEF Pending, At
<1>2. \A u \in Pending(a) : IsFiniteSet(req[u].ps) /\ CountFrom(req[u].ps, a) \in Nat
  BY CountLemma DEF Finite, Pending, At
<1>3. c \in Nat /\ d \in Nat
  BY CountLemma DEF Finite
<1>4. CASE policies' \subseteq policies
  <2>1. d <= c
    BY <1>4, CountLemma DEF Finite
  <2>2. \A u \in Pending(a) \ {t} : req'[u] = req[u]
    BY DEF Pending
  <2>3. ASSUME NEW u \in Pending(a) \ {t}
        PROVE  CountFrom(policies, a)' + CountFrom(req[u].ps, a)' <= MaxPolicies
    <3>1. CountFrom(req[u].ps, a)' = CountFrom(req[u].ps, a)
      BY <2>2
    <3>2. c + CountFrom(req[u].ps, a) <= MaxPolicies
      BY DEF Quota
    <3> QED BY <1>2, <1>3, <2>1, <3>1, <3>2
  <2>4. d <= MaxPolicies
    BY <1>3, <2>1 DEF Quota
  <2> QED BY <1>1, <2>3, <2>4 DEF Quota
<1>5. ASSUME \A p \in policies' : p.src = a => p \in policies \/ p \in req[t].ps,
             Pending(a) = {t}
      PROVE  Quota(a)'
  <2>1. IsFiniteSet(policies) /\ IsFiniteSet(req[t].ps)
    BY <1>2, <1>5 DEF Finite
  <2>2. d <= CountFrom(policies \cup req[t].ps, a) /\ CountFrom(policies \cup req[t].ps, a) \in Nat
    BY <1>5, <2>1, CountLemma, FS_Union
  <2>3. CountFrom(policies \cup req[t].ps, a) <= c + CountFrom(req[t].ps, a)
    BY <2>1, CountUnion
  <2>4. c + CountFrom(req[t].ps, a) <= MaxPolicies
    BY <1>5 DEF Quota
  <2>5. d <= MaxPolicies
    BY <1>2, <1>3, <1>5, <2>2, <2>3, <2>4
  <2> QED BY <1>1, <1>5, <2>5 DEF Quota
<1> QED BY <1>4, <1>5

\* A request passes the quota guard.
LEMMA QuotaEnter ==
  ASSUME Inv, Finite, Finite', NEW a \in Apps, Quota(a), NEW t \in Threads,
         \A u \in Threads : u # t => req'[u] = req[u],
         policies' = policies, req[t].pc = "quota", req'[t].ps = req[t].ps,
         \A b \in AppsOf(req[t].ps) :
           ~(CountFrom(policies, b) + CountFrom(req[t].ps, b) > MaxPolicies)
  PROVE  Quota(a)'
<1>1. CountFrom(policies, a) \in Nat /\ CountFrom(policies, a)' = CountFrom(policies, a)
  BY CountLemma DEF Finite
<1>2. CountFrom(policies, a)' <= MaxPolicies
  BY <1>1 DEF Quota
<1>3. ASSUME NEW u \in Pending(a)'
      PROVE  CountFrom(policies, a)' + CountFrom(req[u].ps, a)' <= MaxPolicies
  <2>1. CASE u # t
    <3>1. u \in Pending(a) /\ req'[u] = req[u]
      BY <1>3, <2>1 DEF Pending, At
    <3> QED BY <1>1, <3>1 DEF Quota
  <2>2. CASE u = t
    <3>1. a \in AppsOf(req[t].ps) /\ CountFrom(req[t].ps, a)' = CountFrom(req[t].ps, a)
      BY <1>3, <2>2, AppsOfLemma DEF Pending
    <3>2. IsFiniteSet(req[t].ps)
      BY DEF Finite
    <3>3. CountFrom(req[t].ps, a) \in Nat
      BY <3>2, CountLemma
    <3> QED BY <1>1, <2>2, <3>1, <3>3
  <2> QED BY <2>1, <2>2
<1> QED BY <1>2, <1>3 DEF Quota

\* Every step keeps the quota.
LEMMA QuotaNext == Inv /\ QuotaInv /\ [Next]_psvars => QuotaInv'
<1> SUFFICES ASSUME Inv, QuotaInv, [Next]_psvars PROVE QuotaInv'
  OBVIOUS
<1>f. Finite /\ Finite'
  BY FiniteNext DEF QuotaInv
<1>0. req \in [Threads -> Requests] /\ \A t \in Threads : Guarded(req[t])
  BY DEF Inv, RequestsOK
<1> USE RecordLemma
<1>q. \A a \in Apps \ (unlimited \cup raced) : Quota(a)
  BY DEF QuotaInv
<1>l. ASSUME NEW t \in Threads, \A u \in Threads : u # t => req'[u] = req[u],
             req'[t].pc = "store" => req'[t].kind # "create" \/ req'[t].admin,
             policies' \subseteq policies, unlimited' = unlimited /\ raced' = raced
      PROVE  QuotaInv'
  <2>1. ASSUME NEW a \in Apps \ (unlimited \cup raced) PROVE Quota(a)'
    BY <1>f, <1>q, <1>l, QuotaLeave
  <2> QED BY <1>f, <1>l, <2>1 DEF QuotaInv
<1>c. ASSUME req' = req, policies' \subseteq policies, unlimited' = unlimited /\ raced' = raced
      PROVE  QuotaInv'
  <2>1. ASSUME NEW a \in Apps \ (unlimited \cup raced) PROVE Quota(a)'
    <3>1. Pending(a)' = Pending(a)
      BY <1>c DEF Pending, At
    <3>2. \A t \in Pending(a) : CountFrom(req[t].ps, a) \in Nat
      BY <1>f, CountLemma DEF Finite, Pending, At
    <3>3. /\ CountFrom(policies, a) \in Nat /\ CountFrom(policies, a)' \in Nat
          /\ CountFrom(policies, a)' <= CountFrom(policies, a)
      BY <1>c, <1>f, CountLemma DEF Finite
    <3>4. Quota(a)
      BY <1>q
    <3>5. /\ CountFrom(policies, a)' <= MaxPolicies
          /\ \A t \in Pending(a) :
               CountFrom(policies, a)' + CountFrom(req[t].ps, a) <= MaxPolicies
      BY <3>2, <3>3, <3>4 DEF Quota
    <3> QED BY <1>c, <3>1, <3>5 DEF Quota
  <2> QED BY <1>c, <1>f, <2>1 DEF QuotaInv
<1>o. ASSUME NEW t \in Threads, NEW r, Continue(t, r) PROVE req'[t] = r /\ \A u \in Threads : u # t => req'[u] = req[u]
  BY <1>0, <1>o DEF Continue
<1>r. ASSUME NEW t \in Threads, Return(t), policies' \subseteq policies, unlimited' = unlimited /\ raced' = raced
      PROVE  QuotaInv'
  BY <1>r, <1>o, <1>l DEF Return
<1>1. ASSUME NEW t \in Threads, NEW kind \in {"create", "delete", "index"},
             NEW admin \in BOOLEAN, NEW body, Receive(t, kind, admin, body)
      PROVE  QuotaInv'
  <2> DEFINE pc == IF kind = "index" THEN "list" ELSE IF admin THEN "store" ELSE "spaces"
             r == [NoRequest EXCEPT !.kind = kind, !.admin = admin, !.ps = body, !.pc = pc]
  <2>1. pc = "store" => admin
    OBVIOUS
  <2>2. /\ req'[t] = r /\ \A u \in Threads : u # t => req'[u] = req[u]
        /\ policies' = policies /\ unlimited' = unlimited /\ raced' = raced
    BY <1>0, <1>1 DEF Receive
  <2> HIDE DEF pc
  <2>3. r.pc = pc /\ r.admin = admin
    BY DEF NoRequest
  <2> HIDE DEF r
  <2> QED BY <1>l, <2>1, <2>2, <2>3
<1>2. ASSUME NEW t \in Threads, GetSpaceGUIDs(t) PROVE QuotaInv'
  <2> DEFINE spaces == {SpaceOf[a] : a \in AppsOf(req[t].ps) \cap live}
             r == [req[t] EXCEPT !.pc = "guard", !.todo = spaces]
  <2>1. Continue(t, r) /\ policies' = policies /\ unlimited' = unlimited /\ raced' = raced
    BY <1>2 DEF GetSpaceGUIDs
  <2>2. r.pc = "guard"
    BY <1>0 DEF Requests
  <2> HIDE DEF r
  <2> QED BY <1>l, <1>o, <2>1, <2>2
<1>3. ASSUME NEW t \in Threads, CheckSpace(t) PROVE QuotaInv'
  <2>1. PICK sp \in req[t].todo :
          IF HasUserSpace(sp) THEN Continue(t, [req[t] EXCEPT !.todo = @ \ {sp}]) ELSE Return(t)
    BY <1>3 DEF CheckSpace
  <2>2. policies' = policies /\ unlimited' = unlimited /\ raced' = raced /\ req[t].pc = "guard"
    BY <1>3 DEF CheckSpace, At
  <2> DEFINE r == [req[t] EXCEPT !.todo = @ \ {sp}]
  <2>3. r.pc = "guard"
    BY <1>0, <2>2 DEF Requests
  <2>4. Continue(t, r) \/ Return(t)
    BY <2>1
  <2> HIDE DEF r
  <2> QED BY <1>l, <1>o, <1>r, <2>2, <2>3, <2>4
<1>4. ASSUME NEW t \in Threads, GuardPassed(t) PROVE QuotaInv'
  <2> DEFINE r == [req[t] EXCEPT !.pc = AfterGuard(t)]
  <2>1. Continue(t, r) /\ policies' = policies /\ unlimited' = unlimited /\ raced' = raced
    BY <1>4 DEF GuardPassed
  <2>2. r.pc = AfterGuard(t) /\ r.kind = req[t].kind
    BY <1>0 DEF Requests
  <2>3. AfterGuard(t) = "store" => req[t].kind # "create"
    BY DEF AfterGuard
  <2> HIDE DEF r
  <2> QED BY <1>l, <1>o, <2>1, <2>2, <2>3
<1>5. ASSUME NEW t \in Threads, QuotaCheck(t) PROVE QuotaInv'
  <2>1. policies' = policies /\ unlimited' = unlimited /\ raced' = raced /\ req[t].pc = "quota"
    BY <1>5 DEF QuotaCheck, At
  <2> DEFINE r == [req[t] EXCEPT !.pc = "store"]
             over == \E a \in AppsOf(req[t].ps) :
                       CountFrom(policies, a) + CountFrom(req[t].ps, a) > MaxPolicies
  <2>2. CASE over
    BY <1>5, <1>r, <2>1, <2>2 DEF QuotaCheck, All
  <2>3. CASE ~over
    <3>1. Continue(t, r)
      BY <1>5, <2>3 DEF QuotaCheck, All
    <3>2. r.ps = req[t].ps
      BY <1>0 DEF Requests
    <3>3. req'[t].ps = req[t].ps /\ \A u \in Threads : u # t => req'[u] = req[u]
      BY <1>o, <3>1, <3>2
    <3>4. ASSUME NEW a \in Apps \ (unlimited \cup raced) PROVE Quota(a)'
      BY <1>f, <1>q, <2>1, <2>3, <3>3, QuotaEnter
    <3> QED BY <1>f, <2>1, <3>4 DEF QuotaInv
  <2> QED BY <2>2, <2>3
<1>6. ASSUME NEW t \in Threads, StoreCreate(t) PROVE QuotaInv'
  <2>1. req'[t] = NoRequest /\ \A u \in Threads : u # t => req'[u] = req[u]
    BY <1>6, <1>o DEF StoreCreate, Return
  <2>2. /\ policies' = policies \cup req[t].ps
        /\ unlimited' = IF req[t].admin THEN unlimited \cup {p.src : p \in req[t].ps} ELSE unlimited
        /\ raced' = raced \cup {a \in Apps : t \in Pending(a) /\ Pending(a) # {t}}
        /\ req[t].pc = "store" /\ req[t].kind = "create"
    BY <1>6 DEF StoreCreate, Create, At
  <2>3. ASSUME NEW a \in Apps \ (unlimited \cup raced)' PROVE Quota(a)'
    <3>1. a \in Apps \ (unlimited \cup raced) /\ (t \in Pending(a) => Pending(a) = {t})
      BY <2>2
    <3>2. (\E p \in req[t].ps : p.src = a) => t \in Pending(a)
      BY <2>2, <2>3 DEF Pending, At
    <3>3. CASE \E p \in req[t].ps : p.src = a
      BY <1>f, <1>q, <2>1, <2>2, <3>1, <3>2, <3>3, QuotaLeave DEF NoRequest
    <3>4. CASE \A p \in req[t].ps : p.src # a
      <4>1. t \notin Pending(a) /\ Pending(a)' = Pending(a)
        BY <2>1, <3>4 DEF Pending, At, NoRequest
      <4>2. \A p : p \in policies' /\ p.src = a <=> p \in policies /\ p.src = a
        BY <2>2, <3>4
      <4>3. {p \in policies' : p.src = a} = {p \in policies : p.src = a}
        BY <4>2
      <4>4. CountFrom(policies, a)' = CountFrom(policies, a)
        BY <4>3 DEF CountFrom
      <4>5. \A u \in Pending(a) : CountFrom(req[u].ps, a)' = CountFrom(req[u].ps, a)
        BY <2>1, <4>1 DEF Pending
      <4> QED BY <1>q, <3>1, <4>1, <4>4, <4>5 DEF Quota
    <3> QED BY <3>3, <3>4
  <2> QED BY <1>f, <2>3 DEF QuotaInv
<1>7. ASSUME NEW t \in Threads, StoreDelete(t) \/ Respond(t) \/ RequestError(t) PROVE QuotaInv'
  BY <1>7, <1>r DEF StoreDelete, Respond, RequestError, Delete
<1>8. ASSUME NEW t \in Threads, ListPolicies(t) PROVE QuotaInv'
  <2> DEFINE to == IF req[t].admin THEN "respond" ELSE "appSpaces"
             r(ps) == [req[t] EXCEPT !.ps = ps, !.todo = AppsOf(ps), !.pc = to]
  <2>1. PICK ps \in Selections(All) : Continue(t, r(ps))
    BY <1>8 DEF ListPolicies
  <2>2. r(ps).pc # "store" /\ policies' = policies /\ unlimited' = unlimited /\ raced' = raced
    BY <1>0, <1>8 DEF Requests, ListPolicies
  <2> HIDE DEF r
  <2> QED BY <1>l, <1>o, <2>1, <2>2
<1>9. ASSUME NEW t \in Threads, GetAppSpaces(t) PROVE QuotaInv'
  <2> DEFINE r(chunk) == [req[t] EXCEPT !.todo = @ \ chunk, !.known = @ \cup (chunk \cap live)]
  <2>1. PICK chunk \in Chunks(req[t].todo) : Continue(t, r(chunk))
    BY <1>9 DEF GetAppSpaces
  <2>2. r(chunk).pc # "store" /\ policies' = policies /\ unlimited' = unlimited /\ raced' = raced
    BY <1>0, <1>9 DEF Requests, GetAppSpaces, At
  <2> HIDE DEF r
  <2> QED BY <1>l, <1>o, <2>1, <2>2
<1>10. ASSUME NEW t \in Threads, FilterPolicies(t) PROVE QuotaInv'
  <2> DEFINE r == [req[t] EXCEPT !.pc = "respond",
                                 !.ps = Filter(@, req[t].known, UserSpaces)]
  <2>1. Continue(t, r) /\ policies' = policies /\ unlimited' = unlimited /\ raced' = raced
    BY <1>10 DEF FilterPolicies
  <2>2. r.pc # "store"
    BY <1>0 DEF Requests
  <2> HIDE DEF r
  <2> QED BY <1>l, <1>o, <2>1, <2>2
<1>11. ASSUME NEW c \in Cleaners, CleanStep(c) \/ CleanError(c) PROVE QuotaInv'
  BY <1>c, <1>11 DEF CleanStep, CleanError, CleanList, CleanChunk, CleanDelete, CleanEnd, CleanTo, Delete
<1>12. CASE UNCHANGED psvars \/ (\E a \in Apps : DeleteApp(a)) \/ (\E sp \in Spaces : RemoveRole(sp))
  BY <1>c, <1>12 DEF psvars, DeleteApp, RemoveRole
<1> QED BY <1>1, <1>2, <1>3, <1>4, <1>5, <1>6, <1>7, <1>8, <1>9, <1>10, <1>11, <1>12
        DEF Next, HandlerStep

---------------------------------------------------------------------------
(* The theorems *)

LEMMA InvInit == Init => Inv /\ QuotaInv
<1> SUFFICES ASSUME Init PROVE Inv /\ QuotaInv
  OBVIOUS
<1> USE RecordLemma
<1>1. Inv
  BY DEF Init, Inv, World, RequestsOK, CleanersOK, Guarded, Sound
<1>2. Finite
  BY FS_EmptySet DEF Init, Finite
<1>3. ASSUME NEW a \in Apps PROVE Quota(a)
  <2>1. Pending(a) = {}
    BY DEF Init, Pending, At
  <2>2. CountFrom(policies, a) = 0
    BY FS_EmptySet, CountLemma DEF Init
  <2> QED BY <2>1, <2>2 DEF Quota
<1> QED BY <1>1, <1>2, <1>3 DEF QuotaInv

LEMMA InvAlways == Spec => []Inv
  BY InvInit, InvNext, PTL DEF Spec

\* PolicyCleaner: what a run is about to delete names an app that is gone,
\* however old its snapshot and Cloud Controller's answer are.
THEOREM CleanerSafe == Spec => []CleanerDeletesOnlyStale
<1>1. Inv => TypeOK
  BY DEF Inv, World, RequestsOK, CleanersOK, Requests, Runs, Guarded, Sound, TypeOK, At
<1>2. Inv => CleanerDeletesOnlyStale
  BY <1>1 DEF Inv, CleanersOK, Sound, CleanerDeletesOnlyStale
<1> QED BY <1>2, InvAlways, PTL

\* PolicyGuard: a developer's change names no live app outside the spaces in
\* which the role was held, whatever is deleted or revoked in between.
THEOREM GuardSafe == Spec => []ChangesStayInOwnSpaces
<1>1. Inv => ChangesStayInOwnSpaces
  BY DEF Inv, RequestsOK, Guarded, ChangesStayInOwnSpaces, At
<1> QED BY <1>1, InvAlways, PTL

\* PolicyFilter: a developer is shown only policies between apps of those
\* spaces.
THEOREM FilterSafe == Spec => []IndexStaysInOwnSpaces
<1>1. Inv => IndexStaysInOwnSpaces
  BY DEF Inv, RequestsOK, Guarded, IndexStaysInOwnSpaces, At
<1> QED BY <1>1, InvAlways, PTL

\* QuotaGuard: whatever the other requests and the cleaner do, an app that no
\* admin made a source, and whose creates did not overlap, stays within
\* max_policies_per_app_source.
THEOREM QuotaBounded == Spec => []QuotaHolds
<1>1. QuotaInv => QuotaHolds
  BY DEF QuotaInv, Quota, QuotaHolds
<1>2. QuotaInv /\ Inv /\ [Next]_psvars => QuotaInv'
  BY QuotaNext
<1> QED BY <1>1, <1>2, InvInit, InvAlways, PTL DEF Spec

=============================================================================
