------------------------------ MODULE Hostnames ------------------------------
(* Hostnames of listeners and routes: which hosts a pattern claims           *)
(* (portus-dataplane-core's router.rs) and which patterns a route is         *)
(* compiled for under a listener (portus-controller's reconcilers/mod.rs and *)
(* compiler.rs).                                                             *)
(*                                                                           *)
(* A name is the sequence of its labels from the root, so that "ends with    *)
(* .example.com" is "starts with <<com, example>>"; letters' case, which the *)
(* code folds away, is left out.  A pattern is "" or "*" (any host),         *)
(* "*.name" (every host below name) or a name.                               *)
EXTENDS Integers, Sequences

AnyHost == [kind |-> "any", name |-> <<>>]
Wild(n) == [kind |-> "wild", name |-> n]
Exact(n) == [kind |-> "exact", name |-> n]

Patterns(Label) ==
  {x \in [kind : {"any", "wild", "exact"}, name : Seq(Label)] : x.kind = "any" => Len(x.name) = 0}

\* n lies below the domain d: it ends with ".d" and something comes before.
Below(n, d) == Len(n) > Len(d) /\ \A i \in 1 .. Len(d) : n[i] = d[i]

\* The suffix d, or anything below it: a wildcard's suffix ends with another's.
Within(n, d) == Len(n) >= Len(d) /\ \A i \in 1 .. Len(d) : n[i] = d[i]

listener_hostname_claims(p, h) ==
  \/ p.kind = "any"
  \/ p.kind = "wild" /\ Below(h, p.name)
  \/ p.kind = "exact" /\ h = p.name

\* Among the patterns that claim one host a longer name has more labels, so
\* labels are counted where the code counts characters.
listener_specificity(p) ==
  CASE p.kind = "any" -> 1
    [] p.kind = "wild" -> 1000 + Len(p.name)
    [] OTHER -> 10000 + Len(p.name)

\* The hosts both patterns claim, as a set of at most one pattern; neither is
\* "any", which compute_effective_hostnames has set apart.
intersect_hostnames(l, r) ==
  CASE l.kind = "exact" /\ r.kind = "exact" -> IF l.name = r.name THEN {l} ELSE {}
    [] l.kind = "wild" /\ r.kind = "exact" -> IF Below(r.name, l.name) THEN {r} ELSE {}
    [] l.kind = "exact" /\ r.kind = "wild" -> IF Below(l.name, r.name) THEN {l} ELSE {}
    [] OTHER -> IF Within(r.name, l.name) THEN {r}
                ELSE IF Within(l.name, r.name) THEN {l} ELSE {}

\* Whether a route's hostname can meet a listener's, neither being "any": the
\* reconcilers' test, where the compiler takes the intersection above.
hostname_matches(l, r) ==
  \/ l = r
  \/ l.kind = "wild" /\ r.kind = "wild" /\ (Within(r.name, l.name) \/ Within(l.name, r.name))
  \/ l.kind = "wild" /\ r.kind = "exact" /\ Below(r.name, l.name)
  \/ l.kind = "exact" /\ r.kind = "wild" /\ Below(l.name, r.name)

\* The patterns a route is compiled for under one listener; no hostname of the
\* route's own means the listener's.
compute_effective_hostnames(l, hostnames) ==
  IF hostnames = {} THEN {l}
  ELSE IF l.kind = "any" THEN hostnames
  ELSE UNION {intersect_hostnames(l, r) : r \in hostnames}
=============================================================================
