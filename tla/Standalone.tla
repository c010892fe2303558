----------------------------- MODULE Standalone -----------------------------
(* Standalone mode (portus-dataplane-core's standalone/mod.rs): what a YAML  *)
(* file is compiled to, with the certificate files it names, the DNS table   *)
(* and the ACME cache, and what config_receiver.rs's validate_config makes   *)
(* of the result.                                                            *)
(*                                                                           *)
(* A YAML is a record: parses; listeners (port, protocol, hostname, tls:     *)
(* none, file, acme or mixed; file; domains); routes (port of the listener,  *)
(* hosts, path, method, headers, redirect, backends: host, port, weight);    *)
(* challenge: http01 or alpn.  The rest of a route (timeouts, retries,       *)
(* limits, CORS, headers to add) is copied field by field and left out.      *)
(*                                                                           *)
(* The second part is hot reload (standalone/reload.rs): the thread that     *)
(* owns the last good YAML and applies it again when a watched file, a       *)
(* backend's addresses or an ACME certificate changes.  apply_config, which  *)
(* the thread calls, is Frontend's part, and so is Manager::update.          *)
EXTENDS L4

Unreadable == [id |-> 0, loads |-> FALSE]

----------------------------------------------------------------------------
(* DNS *)

\* Every backend has a host; an IP literal is one that is not in names, and
\* not in the table.
backend_hostnames(yaml, names) ==
  UNION {{backend.host : backend \in ToSet(route.backends)} : route \in ToSet(yaml.routes)} \cap names

\* Mutant: a host that does not resolve has no address.
ResolveOrNothing(hosts, previous, lookup) == [h \in hosts |-> lookup[h]]

\* A lookup that fails or is empty keeps the host's last addresses.
resolve_backend_hosts(hosts, previous, lookup) ==
  [h \in hosts |-> IF lookup[h] # {} THEN lookup[h] ELSE IF h \in DOMAIN previous THEN previous[h] ELSE {}]

----------------------------------------------------------------------------
(* Backend groups *)

Addresses(backends) == {[host |-> backends[i].host, port |-> backends[i].port] : i \in DOMAIN backends}

\* synthetic_service_name names the set of addresses; the port of a group is
\* the first backend's, and so is the port of a route that uses it.
Group(backends) == [service |-> Addresses(backends), port |-> backends[1].port]

unequal_weights(backends) == \E i \in 1 .. Len(backends) - 1 : backends[i].weight # backends[i + 1].weight

\* The groups a route asks for, in order: one of all its backends, or one each
\* if their weights differ.
GroupsOf(route) ==
  IF route.backends = <<>> THEN <<>>
  ELSE IF unequal_weights(route.backends) THEN [i \in DOMAIN route.backends |-> Group(<<route.backends[i]>>)]
  ELSE <<Group(route.backends)>>

AllGroups(yaml) == FlattenSeq([i \in DOMAIN yaml.routes |-> GroupsOf(yaml.routes[i])])

\* backend_group registers a service the first time it is asked for.
FirstOfName(asked, i) == \A j \in 1 .. i - 1 : asked[j].service # asked[i].service

Groups(yaml) == LET asked == AllGroups(yaml) IN {asked[i] : i \in {j \in DOMAIN asked : FirstOfName(asked, j)}}

----------------------------------------------------------------------------
(* Certificates *)

\* listener_domains
ListenerDomains(yaml, l) ==
  IF l.domains # <<>> THEN l.domains
  ELSE IF l.hostname # AnyHost THEN <<l.hostname>>
  ELSE LET hosts == FlattenSeq([i \in DOMAIN yaml.routes |->
                      IF yaml.routes[i].port = l.port THEN SetToSeq(yaml.routes[i].hosts) ELSE <<>>])
       IN SelectSeq(hosts, LAMBDA h : h.kind = "exact")

\* validate_domain
ValidDomains(domains) == domains # <<>> /\ \A i \in DOMAIN domains : domains[i].kind = "exact"

\* listener_tls fails: a file that cannot be read, an ACME listener that is not
\* HTTPS or has no valid domain, both kinds of certificate at once.
TlsFails(yaml, l, files) ==
  \/ l.tls = "mixed"
  \/ l.tls = "file" /\ files[l.file] = Unreadable
  \/ l.tls = "acme" /\ (l.protocol # "HTTPS" \/ ~ValidDomains(ListenerDomains(yaml, l)))

Placeholder(d) == [id |-> -2, loads |-> TRUE]

\* current_cert
current_cert(cache, d) == IF d \in DOMAIN cache /\ cache[d] # Unreadable THEN cache[d] ELSE Placeholder(d)

\* The listeners of a YAML listener: itself and one per further ACME domain.
CompiledListeners(yaml, l, files, cache) ==
  LET domains == ListenerDomains(yaml, l)
      main == IF \E i \in DOMAIN domains : domains[i] = l.hostname THEN l.hostname ELSE domains[1]
      extra == SelectSeq(domains, LAMBDA d : d # main)
      with(hostname, cert) == [port |-> l.port, protocol |-> l.protocol, hostname |-> hostname, cert |-> cert,
                               ca |-> "none", mode |-> "strict"]
  IN CASE l.tls = "none" -> <<with(l.hostname, NoCert)>>
       [] l.tls = "file" -> <<with(l.hostname, files[l.file])>>
       [] OTHER -> <<with(l.hostname, current_cert(cache, main))>>
                     \o [i \in DOMAIN extra |-> with(extra[i], current_cert(cache, extra[i]))]

AcmeListeners(yaml) == {i \in DOMAIN yaml.listeners : yaml.listeners[i].tls = "acme"}

\* AcmePlan: the domains of every ACME listener.
PlanOf(yaml) == UNION {ToSet(ListenerDomains(yaml, yaml.listeners[i])) : i \in AcmeListeners(yaml)}

check_challenge_reachable(yaml) ==
  AcmeListeners(yaml) # {} /\ yaml.challenge = "http01" =>
    \E i \in DOMAIN yaml.listeners : yaml.listeners[i].protocol = "HTTP"

----------------------------------------------------------------------------
(* validate_config, the rejections *)

\* A route per host; headers are not part of its key.
RouteKeys(route) == {<<h, route.path, route.method, route.port>> : h \in IF route.hosts = {} THEN {AnyHost} ELSE route.hosts}

Duplicated(yaml) ==
  \E i, j \in DOMAIN yaml.routes : i < j /\ RouteKeys(yaml.routes[i]) \cap RouteKeys(yaml.routes[j]) # {}

validate_config(yaml) ==
  /\ \A i \in DOMAIN yaml.routes :
       LET route == yaml.routes[i] IN
       /\ route.backends = <<>> => route.redirect
       /\ (\A j \in DOMAIN GroupsOf(route) : GroupsOf(route)[j].port # 0) \/ (route.redirect /\ ~unequal_weights(route.backends))
  /\ \A i \in DOMAIN yaml.listeners : yaml.listeners[i].port # 0
  /\ ~Duplicated(yaml)

----------------------------------------------------------------------------
\* to_compiled_config, then validate_config: whether the YAML can be applied
\* with these files.
Compiles(yaml, files) ==
  /\ yaml.parses
  /\ \A i \in DOMAIN yaml.listeners : ~TlsFails(yaml, yaml.listeners[i], files)
  /\ check_challenge_reachable(yaml)
  /\ validate_config(yaml)

to_compiled_config(yaml, files, cache) ==
  [listeners |-> FlattenSeq([i \in DOMAIN yaml.listeners |-> CompiledListeners(yaml, yaml.listeners[i], files, cache)]),
   tls |-> <<>>, claims |-> {}, tcp |-> <<>>, udp |-> <<>>, pools |-> <<>>, groups |-> Groups(yaml)]

\* The files a compilation read, with what was in them.
ReadFiles(yaml, files) ==
  [f \in {yaml.listeners[i].file : i \in {j \in DOMAIN yaml.listeners : yaml.listeners[j].tls = "file"}} |-> files[f]]

----------------------------------------------------------------------------
(* Hot reload *)

CONSTANTS
  Files,         \* certificate files
  Hosts          \* backend host names; other hosts are IP literals

VARIABLES
  disk,          \* the YAML and the certificate files as they are
  lookup,        \* lookup[h]: what DNS answers
  triggers,      \* the trigger channel, a run of one trigger being one
  watching,      \* files whose events reach the channel
  reloader,      \* the thread: where it is, what it read and works on
  last,          \* the last good YAML, in a set that is empty while it is taken out
  dns,           \* DnsTable
  seen,          \* the files read and their contents
  lost           \* history: files that changed while nothing watched them

reloadVars == <<disk, lookup, triggers, watching, reloader, last, dns, seen, lost>>

Yaml == "yaml"
NoYaml == [parses |-> FALSE, listeners |-> <<>>, routes |-> <<>>, challenge |-> "alpn"]

At(pc) == [pc |-> pc, yaml |-> NoYaml, dns |-> <<>>, files |-> <<>>, cert |-> FALSE]

ReloadInit(yaml, files, addresses) ==
  /\ disk = [yaml |-> yaml, files |-> files]
  /\ lookup = addresses
  /\ triggers = <<>> /\ watching = {} /\ last = {} /\ dns = <<>> /\ seen = <<>> /\ lost = {}
  /\ reloader = At("read")

ReloadTypeOK ==
  /\ reloader.pc \in {"wait", "settle", "check", "read", "compile", "apply", "finish", "sync"}
  /\ Cardinality(last) <= 1
  /\ watching \subseteq {Yaml} \cup Files /\ DOMAIN seen \subseteq {Yaml} \cup Files
  /\ DOMAIN dns \subseteq Hosts

----------------------------------------------------------------------------
(* The world outside *)

Raise(trigger) ==
  triggers' = IF triggers # <<>> /\ triggers[Len(triggers)] = trigger THEN triggers ELSE Append(triggers, trigger)

Noticed(f) ==
  IF f \in watching THEN Raise("file") /\ UNCHANGED lost ELSE lost' = lost \cup {f} /\ UNCHANGED triggers

Edit(yaml) ==
  /\ disk.yaml # yaml
  /\ disk' = [disk EXCEPT !.yaml = yaml]
  /\ Noticed(Yaml)
  /\ UNCHANGED <<lookup, watching, reloader, last, dns, seen>>

EditFile(f, cert) ==
  /\ disk.files[f] # cert
  /\ disk' = [disk EXCEPT !.files[f] = cert]
  /\ Noticed(f)
  /\ UNCHANGED <<lookup, watching, reloader, last, dns, seen>>

\* Another file in a watched directory.
Touch ==
  /\ watching # {} /\ triggers = <<>>
  /\ Raise("file")
  /\ UNCHANGED <<disk, lookup, watching, reloader, last, dns, seen, lost>>

DnsChanges(h, addresses) ==
  /\ lookup[h] # addresses
  /\ lookup' = [lookup EXCEPT ![h] = addresses]
  /\ UNCHANGED <<disk, triggers, watching, reloader, last, dns, seen, lost>>

----------------------------------------------------------------------------
(* Reloader::run *)

outside == <<disk, lookup, lost>>
kept == <<watching, last, dns, seen>>

Compile(config, table) == [At("compile") EXCEPT !.yaml = config, !.dns = table]

\* reapply: the last good YAML, taken out.
Reapply ==
  /\ last' = {}
  /\ \E config \in last : reloader' = Compile(config, dns)
  /\ UNCHANGED <<watching, dns, seen>>

TakeTrigger ==
  /\ reloader.pc = "wait" /\ triggers # <<>>
  /\ triggers' = Tail(triggers)
  /\ IF Head(triggers) = "cert" THEN Reapply ELSE reloader' = At("settle") /\ UNCHANGED kept
  /\ UNCHANGED outside

\* Mutant: what else arrived while the files settled is forgotten.
SettleFiles ==
  /\ reloader.pc = "settle" /\ triggers # <<>>
  /\ triggers' = Tail(triggers)
  /\ UNCHANGED <<reloader, kept, outside>>

\* settle: one more trigger of the burst.
settle ==
  /\ reloader.pc = "settle" /\ triggers # <<>>
  /\ triggers' = Tail(triggers)
  /\ reloader' = [reloader EXCEPT !.cert = @ \/ Head(triggers) = "cert"]
  /\ UNCHANGED <<kept, outside>>

\* QUIET since the last one, or MAX_SETTLE since the first.
SettleEnds ==
  /\ reloader.pc = "settle"
  /\ reloader' = [reloader EXCEPT !.pc = "check"]
  /\ UNCHANGED <<triggers, kept, outside>>

Content(f) == IF f = Yaml THEN disk.yaml ELSE disk.files[f]

\* A file that cannot be read differs from all that was seen.
inputs_unchanged == \A f \in DOMAIN seen : seen[f] = Content(f) /\ Content(f) # Unreadable

CheckInputs ==
  /\ reloader.pc = "check"
  /\ CASE ~inputs_unchanged -> reloader' = At("read") /\ UNCHANGED kept
       [] inputs_unchanged /\ reloader.cert -> Reapply
       [] inputs_unchanged /\ ~reloader.cert -> reloader' = At("sync") /\ UNCHANGED kept
  /\ UNCHANGED <<triggers, outside>>

\* dns_refresh_secs are over.
refresh_dns ==
  /\ reloader.pc = "wait"
  /\ \E config \in last : \E table \in {resolve_backend_hosts(backend_hostnames(config, Hosts), dns, lookup)} :
       /\ table # dns
       /\ reloader' = Compile(config, table)
  /\ last' = {}
  /\ UNCHANGED <<triggers, watching, dns, seen, outside>>

\* reload_from_disk up to apply: the YAML counts as seen even if it is broken.
reload_from_disk ==
  /\ reloader.pc = "read"
  /\ seen' = [f \in DOMAIN seen \cup {Yaml} |-> IF f = Yaml THEN disk.yaml ELSE seen[f]]
  /\ reloader' = IF ~disk.yaml.parses THEN At("sync")
                 ELSE Compile(disk.yaml, resolve_backend_hosts(backend_hostnames(disk.yaml, Hosts), dns, lookup))
  /\ UNCHANGED <<triggers, watching, last, dns, outside>>

\* Mutant: the YAML that failed becomes the last one.
Refuse == last' = {reloader.yaml}

\* get_or_insert: only what reapply and refresh_dns took out goes back.
HandBack == last' = IF last = {} THEN {reloader.yaml} ELSE last

\* apply up to apply_config: the certificate files are read afresh.
CompileStep ==
  /\ reloader.pc = "compile"
  /\ IF Compiles(reloader.yaml, disk.files)
     THEN reloader' = [reloader EXCEPT !.pc = "apply", !.files = ReadFiles(reloader.yaml, disk.files)] /\ UNCHANGED last
     ELSE reloader' = At("sync") /\ HandBack
  /\ UNCHANGED <<triggers, watching, dns, seen, outside>>

\* The rest of apply.
FinishApply ==
  /\ reloader.pc = "finish"
  /\ seen' = [f \in {Yaml} \cup DOMAIN reloader.files |-> IF f = Yaml THEN seen[Yaml] ELSE reloader.files[f]]
  /\ dns' = reloader.dns
  /\ last' = {reloader.yaml}
  /\ reloader' = At("sync")
  /\ UNCHANGED <<triggers, watching, outside>>

\* Mutant: events that came in during the reload are taken for its own.
SyncDropping ==
  /\ reloader.pc = "sync"
  /\ watching' = DOMAIN seen
  /\ reloader' = At("wait")
  /\ triggers' = <<>>
  /\ UNCHANGED <<last, dns, seen, outside>>

\* sync_watches: exactly the files seen.
sync_watches ==
  /\ reloader.pc = "sync"
  /\ watching' = DOMAIN seen
  /\ reloader' = At("wait")
  /\ UNCHANGED <<triggers, last, dns, seen, outside>>
=============================================================================
