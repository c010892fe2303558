------------------------------ MODULE Filters ------------------------------
(* What the data plane decides about one request before a byte of it reaches *)
(* a backend: plan_request of portus-dataplane-core's plan.rs with the       *)
(* checks it calls in auth.rs, jwt.rs and ext_auth.rs, and the header        *)
(* mutations it leaves for rama/proxy.rs to apply.                           *)
(*                                                                           *)
(* A check that depends on nothing but the request and its route (an address *)
(* against a CIDR list, a password against its hash) is a fact of the        *)
(* request: cred = "good" is a credential the route's policy accepts.        *)
EXTENDS Integers, Sequences, FiniteSets, FiniteSetsExt

Statuses == {0, 101, 200, 301, 400, 401, 403, 404, 413, 421, 429, 500, 502, 503, 504}

\* What is known of a request: acme, a challenge an ACME order waits for;
\* body, "none" or whether it fits the route's limit and the retry buffer
\* (short), the limit only (long), declares more than the limit (over) or grows
\* past it while it streams (grows); spoofs, it carries a header that
\* authentication owns; session, it carries an MCP session id.
Facts == [acme : BOOLEAN, misdirected : BOOLEAN, metadata : BOOLEAN,
          body : {"none", "short", "long", "over", "grows"},
          origin : {"none", "allowed", "other"}, preflight : BOOLEAN, denied : BOOLEAN,
          cred : {"none", "bad", "good"}, key : {"none", "bad", "good", "limited"},
          spoofs : BOOLEAN, session : BOOLEAN, upgrade : BOOLEAN]

\* A PathRoute as far as the request path reads it.
Routes == [found : BOOLEAN, oauth : BOOLEAN, needs_body : BOOLEAN, redirect : BOOLEAN, cors : BOOLEAN,
           ip_rules : BOOLEAN, auth : {"none", "basic", "key", "jwt"},
           ext_auth : {"none", "unpermitted", "closed", "open"}, backend : BOOLEAN, rate_limited : BOOLEAN,
           max_retries : Nat, retry_codes : SUBSET Statuses, retry_connect : BOOLEAN, deadline : BOOLEAN,
           has_timeout : BOOLEAN, key_required : BOOLEAN, budget : {"none", "closed", "open"},
           fallback : BOOLEAN, federated : BOOLEAN, session_affinity : BOOLEAN, h2 : BOOLEAN]

----------------------------------------------------------------------------
(* plan_request, up to the authorization service *)

reply(status) == [kind |-> "respond", status |-> status]
Go(kind) == [kind |-> kind, status |-> 0]

\* The first of a sequence of checks whose condition holds decides.
Decide(checks) == checks[Min({i \in DOMAIN checks : checks[i].when})].then
Check(when, then) == [when |-> when, then |-> then]

\* Mutant: any credential will do.
AnyCredential(rt, q) == rt.auth # "none" /\ q.cred = "none"

\* validate_basic_auth, validate_api_key, JwtAuth::authenticate
Unauthenticated(rt, q) == rt.auth # "none" /\ q.cred # "good"

plan_request(rt, q, scanned) == Decide(<<
  Check(q.acme, reply(200)),
  Check(q.misdirected, reply(421)),
  Check(q.metadata /\ rt.found /\ rt.oauth, reply(200)),
  Check(~scanned /\ rt.needs_body /\ q.body # "none", Go("needs_body")),
  Check(~rt.found, reply(404)),
  Check(rt.redirect, reply(301)),
  Check(rt.cors /\ q.origin = "other" /\ q.preflight, reply(403)),
  Check(rt.cors /\ q.origin = "allowed" /\ q.preflight, reply(200)),
  Check(rt.ip_rules /\ q.denied, reply(403)),
  Check(q.body = "over", reply(413)),
  Check(Unauthenticated(rt, q), reply(401)),
  Check(rt.ext_auth = "unpermitted", reply(500)),
  Check(rt.ext_auth # "none", Go("ask")),
  Check(TRUE, Go("admit")) >>)

\* ExtAuth::check: the service allows, denies with its own status, or does not
\* answer in time (or has no endpoint), and then the policy decides.
check(rt, answer) == Decide(<<
  Check(answer = "allow", Go("allow")),
  Check(answer = "deny", reply(403)),
  Check(rt.ext_auth = "open", Go("open")),
  Check(TRUE, reply(503)) >>)

----------------------------------------------------------------------------
(* The one header both the client and the authentication may set: who wrote  *)
(* the value a backend sees.                                                  *)

Writers == {"nobody", "client", "claim", "service"}

\* Mutant: what the client sent is kept when nothing is set.
AppliedOver(value, remove, set) == IF set = "nobody" THEN value ELSE set

\* HeaderMutations::apply for auth_headers: the headers it owns are removed,
\* then the verified values are set.
apply(value, remove, set) ==
  IF set # "nobody" THEN set ELSE IF remove THEN "nobody" ELSE value

\* What authentication sets and whether it owns the header: a JWT policy and an
\* authorization service own the headers they may set, whether they set them or
\* not; the service's value is set after the token's.
AuthHeaders(rt, asked) ==
  [remove |-> rt.auth = "jwt" \/ rt.ext_auth \in {"closed", "open"},
   set |-> IF asked = "allow" THEN "service" ELSE IF rt.auth = "jwt" THEN "claim" ELSE "nobody"]

\* The header as the backend gets it.
Forwarded(rt, q, asked) ==
  LET auth == AuthHeaders(rt, asked) IN
  apply(IF q.spoofs THEN "client" ELSE "nobody", auth.remove, auth.set)
=============================================================================
