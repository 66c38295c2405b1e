----------------------------- MODULE PolicySpec -----------------------------
(***************************************************************************)
(* What the policy store promises its callers: a set of policies and an    *)
(* injective assignment of tags to the guids in use.  A call of Create or  *)
(* Delete takes effect at once for its whole list, or not at all.          *)
(***************************************************************************)
EXTENDS Naturals

CONSTANTS Guids, Services, NumTags

VARIABLES
  policies,   \* the policies that hold
  tag,        \* the tag of each guid that has one
  call        \* the call that has not been answered yet, with its policies

avars == <<policies, tag, call>>

Policy == [src : Guids, dst : Guids, svc : Services]

\* The guids that a set of policies names.
GuidsOf(ps) == {p.src : p \in ps} \cup {p.dst : p \in ps}

NoCall == [op |-> "none", ps |-> {}]

Init == policies = {} /\ tag = [g \in {} |-> 0] /\ call = NoCall

\* A caller hands over a list.
Ask(kind, ps) ==
  /\ call = NoCall
  /\ call' = [op |-> kind, ps |-> ps]
  /\ UNCHANGED <<policies, tag>>

\* f keeps the tags of the guids that have one and gives each guid of gs one
\* that no other guid has.
Extends(f, gs) ==
  /\ DOMAIN f = DOMAIN tag \cup gs
  /\ \A g \in DOMAIN tag : f[g] = tag[g]
  /\ \A g, h \in DOMAIN f : f[g] = f[h] => g = h

CreateTags(gs) ==
  \E f \in [DOMAIN tag \cup gs -> 1..NumTags] : Extends(f, gs) /\ tag' = f

Create ==
  /\ call.op = "create"
  /\ policies' = policies \cup call.ps
  /\ CreateTags(GuidsOf(call.ps))
  /\ call' = NoCall

\* A guid gives its tag back when its last policy goes.  A guid that only
\* CreateTag named may lose its tag if the deleted list names it.
Delete ==
  /\ call.op = "delete"
  /\ policies' = policies \ call.ps
  /\ \E gone \in SUBSET (GuidsOf(call.ps) \ GuidsOf(policies')) :
       /\ GuidsOf(policies) \ GuidsOf(policies') \subseteq gone
       /\ tag' = [g \in DOMAIN tag \ gone |-> tag[g]]
  /\ call' = NoCall

\* The call returns an error: nothing has happened.
Refuse ==
  /\ call # NoCall
  /\ call' = NoCall
  /\ UNCHANGED <<policies, tag>>

CreateTag(g) ==
  /\ call = NoCall
  /\ CreateTags({g})
  /\ UNCHANGED <<policies, call>>

Next ==
  \/ \E kind \in {"create", "delete"}, ps \in SUBSET Policy : Ask(kind, ps)
  \/ Create \/ Delete \/ Refuse
  \/ \E g \in Guids : CreateTag(g)

Spec == Init /\ [][Next]_avars
=============================================================================
