---------------------------- MODULE AddressTable ----------------------------
(***************************************************************************)
(* The address table of the service-discovery-controller: the ips that     *)
(* each internal hostname resolves to, and the goroutine that prunes       *)
(* entries which have not been registered again in time.                   *)
(*                                                                         *)
(* The methods each hold the table's mutex, so each is one step.  A        *)
(* pruning cycle is three critical sections and therefore three steps:     *)
(* may I prune, which hostnames have stale entries, prune them.            *)
(*                                                                         *)
(* The code only ever compares clock.Since(t) with a threshold.  The model *)
(* keeps that age instead of t, and stops counting once it is past the     *)
(* threshold; time is otherwise unbounded.                                 *)
(***************************************************************************)
EXTENDS Naturals

CONSTANTS
  Names,          \* hostnames as messages and requests spell them
  Hosts,          \* the fully qualified ones among them
  Fqdn,           \* fqdn: adds the trailing dot if there is none
  IPs,
  Threshold,      \* stalenessThreshold, in clock ticks
  ResumeDelay     \* resumePruningDelay, in clock ticks

ASSUME AddressTableAssumption ==
  /\ Hosts \subseteq Names
  /\ Fqdn \in [Names -> Hosts] /\ \A h \in Hosts : Fqdn[h] = h
  /\ Threshold \in Nat /\ ResumeDelay \in Nat

VARIABLES
  keys,         \* the hostnames that are keys of the addresses map
  addresses,    \* the entries of each hostname
  paused,       \* pausedPruning
  sinceResume,  \* time since lastResume
  warm,
  stopped,      \* Shutdown has stopped the ticker
  pc,           \* the pruning goroutine: "wait", "scan" or "prune"
  candidates    \* the hostnames its scan returned

tablevars == <<keys, addresses, paused, sinceResume, warm, stopped, pc, candidates>>

\* Ages past the threshold are all alike.
Ages == 0..(Threshold + 1)
Entry == [ip : IPs, age : Ages]

Stale(e) == e.age > Threshold

\* lastResume is the zero time at first, which is long ago.
TableInit ==
  /\ keys = {} /\ addresses = [h \in Hosts |-> {}]
  /\ paused = FALSE /\ sinceResume = ResumeDelay
  /\ warm = FALSE /\ stopped = FALSE
  /\ pc = "wait" /\ candidates = {}

---------------------------------------------------------------------------
\* Time passes.
Older(e) == [e EXCEPT !.age = IF @ <= Threshold THEN @ + 1 ELSE @]

TableTick ==
  /\ addresses' = [h \in Hosts |-> {Older(e) : e \in addresses[h]}]
  /\ sinceResume' = IF sinceResume < ResumeDelay THEN sinceResume + 1 ELSE sinceResume
  /\ UNCHANGED <<keys, paused, warm, stopped, pc, candidates>>

---------------------------------------------------------------------------
(* Methods *)

\* Mutant: an entry is appended without looking for the ip.
Registered_Append(es, ip) == es \cup {[ip |-> ip, age |-> 0]}

\* The entry of the ip gets a new update time, or is appended.
Registered(es, ip) ==
  IF \E e \in es : e.ip = ip
  THEN {IF e.ip = ip THEN [e EXCEPT !.age = 0] ELSE e : e \in es}
  ELSE es \cup {[ip |-> ip, age |-> 0]}

\* Mutant: names are stored as they are spelled.
FqdnsOf_AsSpelled(names) == names

FqdnsOf(names) == {Fqdn[n] : n \in names}

Add(names, ip) ==
  /\ keys' = keys \cup FqdnsOf(names)
  /\ addresses' = [h \in Hosts |-> IF h \in FqdnsOf(names)
                                   THEN Registered(addresses[h], ip)
                                   ELSE addresses[h]]
  /\ UNCHANGED <<paused, sinceResume, warm, stopped, pc, candidates>>

Without(es, ip) == {e \in es : e.ip # ip}

\* A hostname whose only entry goes is deleted from the map.
Remove(names, ip) ==
  /\ keys' = keys \ {h \in FqdnsOf(names) :
                       \E e \in addresses[h] : addresses[h] = {e} /\ e.ip = ip}
  /\ addresses' = [h \in Hosts |-> IF h \in FqdnsOf(names)
                                   THEN Without(addresses[h], ip)
                                   ELSE addresses[h]]
  /\ UNCHANGED <<paused, sinceResume, warm, stopped, pc, candidates>>

\* The answers of Lookup and of GetAllAddresses.
Lookup(name) == {e.ip : e \in addresses[Fqdn[name]]}
GetAllAddresses == [h \in keys |-> Lookup(h)]

SetWarm ==
  /\ warm' = TRUE
  /\ UNCHANGED <<keys, addresses, paused, sinceResume, stopped, pc, candidates>>

PausePruning ==
  /\ paused' = TRUE
  /\ UNCHANGED <<keys, addresses, sinceResume, warm, stopped, pc, candidates>>

ResumePruning ==
  /\ paused' = FALSE /\ sinceResume' = 0
  /\ UNCHANGED <<keys, addresses, warm, stopped, pc, candidates>>

\* The ticker stops; the goroutine waits for it for ever.
Shutdown ==
  /\ stopped' = TRUE
  /\ UNCHANGED <<keys, addresses, paused, sinceResume, warm, pc, candidates>>

---------------------------------------------------------------------------
(* The pruning goroutine, once the ticker has fired *)

MayPrune == ~paused /\ sinceResume >= ResumeDelay

PruneCheck ==
  /\ pc = "wait" /\ ~stopped
  /\ pc' = IF MayPrune THEN "scan" ELSE "wait"
  /\ UNCHANGED <<keys, addresses, paused, sinceResume, warm, stopped, candidates>>

\* Mutant: only a hostname all of whose entries are stale is a candidate.
StaleHosts_AllStale ==
  {h \in keys : addresses[h] # {} /\ \A e \in addresses[h] : Stale(e)}

\* addressesWithStaleEntriesWithReadLock.
StaleHosts == {h \in keys : \E e \in addresses[h] : Stale(e)}

PruneScan ==
  /\ pc = "scan"
  /\ pc' = "prune" /\ candidates' = StaleHosts
  /\ UNCHANGED <<keys, addresses, paused, sinceResume, warm, stopped>>

\* Mutant: the scan's answer is trusted, the candidates go as a whole.
Pruned_Trusting(h) == IF h \in candidates THEN {} ELSE addresses[h]

\* Staleness is looked at again under the write lock.
Pruned(h) == IF h \in candidates
             THEN {e \in addresses[h] : ~Stale(e)}
             ELSE addresses[h]

\* pruneStaleEntriesWithWriteLock: a hostname that loses all its entries stays
\* a key of the map.
PruneDelete ==
  /\ pc = "prune"
  /\ addresses' = [h \in Hosts |-> Pruned(h)]
  /\ pc' = "wait" /\ candidates' = {}
  /\ UNCHANGED <<keys, paused, sinceResume, warm, stopped>>

Prune == PruneCheck \/ PruneScan \/ PruneDelete

---------------------------------------------------------------------------
TableNext ==
  \/ TableTick
  \/ \E names \in SUBSET Names, ip \in IPs : Add(names, ip) \/ Remove(names, ip)
  \/ SetWarm \/ PausePruning \/ ResumePruning \/ Shutdown
  \/ Prune

TableSpec == TableInit /\ [][TableNext]_tablevars

\* Time passes and the ticker keeps firing.
TableFairSpec == TableSpec /\ WF_tablevars(TableTick) /\ WF_tablevars(Prune)

---------------------------------------------------------------------------
(* Properties *)

\* Type correctness; only keys of the map have entries.
TableTypeOK ==
  /\ keys \subseteq Hosts /\ addresses \in [Hosts -> SUBSET Entry]
  /\ \A h \in Hosts : addresses[h] # {} => h \in keys
  /\ paused \in BOOLEAN /\ sinceResume \in 0..ResumeDelay
  /\ warm \in BOOLEAN /\ stopped \in BOOLEAN
  /\ pc \in {"wait", "scan", "prune"} /\ candidates \subseteq Hosts

\* A hostname lists an ip once, whichever spellings of the name it was
\* registered under and however often (Add with fqdn and indexOf).
IpOnce ==
  \A h \in Hosts : \A e, f \in addresses[h] : e.ip = f.ip => e = f

\* Pruning takes only entries that are stale when they go: one that was
\* registered again after the scan stays, and so do the fresh entries of the
\* same hostname (pruneStaleEntriesWithWriteLock).
PruneTakesOnlyStale ==
  [][PruneDelete => \A h \in Hosts : \A e \in addresses[h] \ addresses'[h] : Stale(e)]_tablevars

IsStale(h, ip) == \E e \in addresses[h] : e.ip = ip /\ Stale(e)

\* While pruning is allowed and the ticker runs, a stale entry is pruned or
\* registered again: a fresh entry of the same hostname does not keep it.
StaleEntryGoes ==
  <>[](MayPrune /\ ~stopped) =>
    \A h \in Hosts, ip \in IPs : IsStale(h, ip) ~> ~IsStale(h, ip)
=============================================================================
