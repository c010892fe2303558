---------------------------- MODULE FrontendTls ----------------------------
(* Frontend TLS of the data plane (tls.rs, and bootstrap.rs's frontend_tls): *)
(* the slot apply_config fills with the listeners' certificates, the thread  *)
(* that puts them into the resolver and rebuilds the ports' client           *)
(* validation, and what a handshake is answered with.                        *)
(*                                                                           *)
(* A certificate is a record of its id and whether its PEM loads; a CA       *)
(* bundle is "none", "good" or "broken" (no usable anchor), with the mode of *)
(* the validation.                                                           *)
EXTENDS L4

VARIABLES
  tls_slot,        \* TlsCertSlot, in a set that is empty before the first certificate
  permit,          \* tls_cert_notify holds a permit
  reloading,       \* what the hot-reload thread loaded and works on
  fingerprint,     \* last_fingerprint
  resolver,        \* the entries of ReloadableCertResolver, in order
  port_configs     \* PortServerConfigs: port -> verifier

tlsVars == <<tls_slot, permit, reloading, fingerprint, resolver, port_configs>>

----------------------------------------------------------------------------
(* apply_config *)

\* Each listener with a certificate, in order.
TlsEntries(config) ==
  LET with == SelectSeq(config.listeners, LAMBDA l : l.cert.id # 0)
  IN [i \in DOMAIN with |-> [hostname |-> with[i].hostname, cert |-> with[i].cert]]

\* client_validation_from_listeners: the first policy of a port with a CA.
Validated(config) ==
  {i \in DOMAIN config.listeners :
    config.listeners[i].protocol = "HTTPS" /\ config.listeners[i].ca # "none"}

client_validation_from_listeners(config) ==
  LET first(q) == CHOOSE i \in Validated(config) :
                    /\ config.listeners[i].port = q
                    /\ \A j \in Validated(config) : config.listeners[j].port = q => i <= j
  IN [q \in {config.listeners[i].port : i \in Validated(config)} |->
        [ca |-> config.listeners[first(q)].ca, mode |-> config.listeners[first(q)].mode]]

\* A config without a certificate leaves the slot, and what was in it, alone.
StoreTls(config) ==
  /\ IF TlsEntries(config) = <<>> THEN UNCHANGED <<tls_slot, permit>>
     ELSE /\ tls_slot' = {[entries |-> TlsEntries(config), validation |-> client_validation_from_listeners(config)]}
          /\ permit' = TRUE
  /\ UNCHANGED <<reloading, fingerprint, resolver, port_configs>>

----------------------------------------------------------------------------
(* start_tls_cert_hot_reload *)

\* Mutant: the PEMs' lengths, which a renewed certificate keeps.
LengthsOf(data) == <<Len(data.entries), data.validation>>

\* tls_entries_fingerprint and client_validation_fingerprint: sums of the
\* entries' hashes, in which the order does not count.
FingerprintOf(data) == <<ToBag(data.entries), data.validation>>

Loading(data) == SelectSeq(data.entries, LAMBDA e : e.cert.loads)

\* Woken by the permit; permits do not add up.
Wake ==
  /\ reloading.pc = "wait" /\ permit
  /\ permit' = FALSE
  /\ reloading' = [reloading EXCEPT !.pc = "load"]
  /\ UNCHANGED <<tls_slot, fingerprint, resolver, port_configs>>

\* The slot, unless it is empty or what it holds is installed already.
LoadSlot ==
  /\ reloading.pc = "load"
  /\ reloading' = IF \E data \in tls_slot : fingerprint # {FingerprintOf(data)}
                  THEN [pc |-> "install", data |-> tls_slot] ELSE [pc |-> "wait", data |-> {}]
  /\ UNCHANGED <<tls_slot, permit, fingerprint, resolver, port_configs>>

\* swap_map with the entries that load; if none does, the certificates and the
\* validation in force stay.
InstallCerts ==
  /\ reloading.pc = "install"
  /\ \E data \in reloading.data :
       IF Loading(data) = <<>>
       THEN reloading' = [pc |-> "wait", data |-> {}] /\ UNCHANGED resolver
       ELSE reloading' = [reloading EXCEPT !.pc = "ports"] /\ resolver' = Loading(data)
  /\ UNCHANGED <<tls_slot, permit, fingerprint, port_configs>>

InstallPorts ==
  /\ reloading.pc = "ports"
  /\ \E data \in reloading.data :
       /\ port_configs' = data.validation
       /\ fingerprint' = {FingerprintOf(data)}
  /\ reloading' = [pc |-> "wait", data |-> {}]
  /\ UNCHANGED <<tls_slot, permit, resolver>>

----------------------------------------------------------------------------
(* frontend_tls, after the first config *)

SelfSigned == [id |-> -1, loads |-> TRUE]

\* The certificate the resolver starts with; a first one that does not load
\* ends the process.
FirstCert ==
  IF tls_slot = {} THEN SelfSigned ELSE (CHOOSE data \in tls_slot : TRUE).entries[1].cert

BootTls ==
  /\ resolver' = <<[hostname |-> AnyHost, cert |-> FirstCert]>>
  /\ reloading' = [pc |-> "load", data |-> {}]
  /\ UNCHANGED <<tls_slot, permit, fingerprint, port_configs>>

TlsInit ==
  /\ tls_slot = {} /\ permit = FALSE
  /\ reloading = [pc |-> "wait", data |-> {}]
  /\ fingerprint = {} /\ resolver = <<>>
  /\ port_configs = <<>>

TlsTypeOK ==
  /\ Cardinality(tls_slot) <= 1 /\ permit \in BOOLEAN
  /\ reloading.pc \in {"wait", "load", "install", "ports"}
  /\ Cardinality(reloading.data) = (IF reloading.pc \in {"install", "ports"} THEN 1 ELSE 0)

----------------------------------------------------------------------------
(* A handshake: ReloadableCertResolver::resolve *)

\* The last entry of a name has it.
ExactEntry(sni) == {i \in DOMAIN resolver :
  resolver[i].hostname = Exact(sni) /\ \A j \in i + 1 .. Len(resolver) : resolver[j].hostname # Exact(sni)}

\* The first wildcard one label above it.
WildEntry(sni) ==
  LET claims(i) == resolver[i].hostname.kind = "wild" /\ Below(sni, resolver[i].hostname.name)
                     /\ Len(sni) = Len(resolver[i].hostname.name) + 1
  IN {i \in DOMAIN resolver : claims(i) /\ \A j \in 1 .. i - 1 : ~claims(j)}

\* The last without a hostname, or the first of all.
DefaultEntry ==
  LET open == {i \in DOMAIN resolver : resolver[i].hostname = AnyHost}
  IN IF open = {} THEN {1} ELSE {i \in open : \A j \in open : j <= i}

resolve(sni) ==
  LET found == IF ExactEntry(sni) # {} THEN ExactEntry(sni)
               ELSE IF WildEntry(sni) # {} THEN WildEntry(sni) ELSE DefaultEntry
  IN resolver[CHOOSE i \in found : TRUE].cert

\* build_client_cert_verifier: whether a client certificate ("none", "bad" or
\* "good") passes on a port.
Accepts(q, client) ==
  \/ q \notin DOMAIN port_configs
  \/ port_configs[q].mode = "fallback"
  \/ port_configs[q].ca = "good" /\ client = "good"
=============================================================================
