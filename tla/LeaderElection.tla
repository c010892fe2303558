--------------------------- MODULE LeaderElection ---------------------------
(* Which controller replica leads: the lease of                              *)
(* portus-controller/src/leader_election.rs and what main.rs does with it.   *)
(*                                                                           *)
(* try_acquire_or_renew reads the lease and then writes it unconditionally;  *)
(* the two are separate calls.  Every replica writes by server-side apply    *)
(* under the one field manager "portus-leader-election", and an apply        *)
(* removes the fields its manager owned and no longer mentions.  Time is     *)
(* counted in renewal intervals, and a call takes less than one.             *)
EXTENDS Naturals, FiniteSets

CONSTANTS
  Pods,              \* identities of the replicas (HOSTNAME)
  Nobody,            \* no lease; no holder
  LeaseDuration,     \* LEASE_DURATION_SECONDS, in renewal intervals
  MaxRenewalFailures,\* MAX_RENEWAL_FAILURES
  MaxFaults,         \* bound: calls to the API server that fail
  MaxCrashes,        \* bound: processes that die
  MaxTerms           \* bound: leaders that get a SIGTERM

ASSUME ElectionAssumption ==
  /\ Nobody \notin Pods
  /\ LeaseDuration \in Nat \ {0} /\ MaxRenewalFailures \in Nat \ {0}
  /\ {MaxFaults, MaxCrashes, MaxTerms} \subseteq Nat

VARIABLES
  lease,    \* the Lease: its holder, its age since renewTime and its duration
  owned,    \* whether the field manager owns holderIdentity
  pod,      \* pod[p]: the process of replica p
  spent     \* how much of each bound is used

electionVars == <<lease, owned, pod, spent>>

RenewalInterval == 1

\* The lease outlives a renewal that failed, and so does its holder: 15s, 5s
\* and 3 failures in the code.
ASSUME TimingAssumption == LeaseDuration > 2 * RenewalInterval /\ MaxRenewalFailures > 1

\* role: standby in acquire_lease, leader in the renewal task; call: the write
\* that follows the read; release: main.rs has read the lease to release it.
Process == [role : {"down", "standby", "leader"}, wait : 0 .. LeaseDuration + RenewalInterval,
            failures : 0 .. MaxRenewalFailures - 1,
            call : {"none", "create", "renew", "takeover"}, release : BOOLEAN]
Down == [role |-> "down", wait |-> 0, failures |-> 0, call |-> "none", release |-> FALSE]
Started == [Down EXCEPT !.role = "standby"]

Lease == [holder : Pods \cup {Nobody}, age : 0 .. LeaseDuration, duration : 1 .. LeaseDuration]

ASSUME NobodyIsNoLease == Nobody \notin Lease

ElectionTypeOK ==
  /\ lease \in Lease \cup {Nobody}
  /\ owned \in BOOLEAN
  /\ pod \in [Pods -> Process]
  /\ spent \in [faults : 0 .. MaxFaults, crashes : 0 .. MaxCrashes, terms : 0 .. MaxTerms]

ElectionInit ==
  /\ lease = Nobody
  /\ owned = FALSE
  /\ pod = [p \in Pods |-> Started]
  /\ spent = [faults |-> 0, crashes |-> 0, terms |-> 0]

Uses(what, bound) == spent[what] < bound /\ spent' = [spent EXCEPT ![what] = @ + 1]

----------------------------------------------------------------------------
(* What an attempt leaves of the process *)

Won(s) == [s EXCEPT !.role = "leader", !.failures = 0, !.wait = RenewalInterval, !.call = "none"]

\* Mutant: the renewal task never gives up.
MissedAgain(s, pause) ==
  CASE s.role = "standby" -> [s EXCEPT !.wait = RenewalInterval, !.call = "none"]
    [] OTHER -> [s EXCEPT !.failures = @ + 1, !.wait = pause, !.call = "none"]

\* A leader counts the failure and at the last one tells main, which exits
\* unless it is busy releasing.
Missed(s, pause) ==
  IF s.role = "standby" THEN [s EXCEPT !.wait = RenewalInterval, !.call = "none"]
  ELSE IF s.failures + 1 < MaxRenewalFailures
  THEN [s EXCEPT !.failures = @ + 1, !.wait = pause, !.call = "none"]
  ELSE IF s.release THEN [s EXCEPT !.wait = pause, !.call = "none"]
  ELSE Down

\* A leader that finds another holder waits for the lease to expire, then for
\* the next turn of its loop.
Refused(s) == Missed(s, LeaseDuration + RenewalInterval)
Errored(s) == Missed(s, RenewalInterval)

----------------------------------------------------------------------------
(* try_acquire_or_renew *)

\* Mutant: a lease is free only when its holder gave it up.
ReleasedOnly(l) == l.holder = Nobody

lease_is_free(l) == l.holder = Nobody \/ l.age >= l.duration

Due(p) == pod[p].role # "down" /\ pod[p].call = "none" /\ pod[p].wait = 0

\* The get: what it finds decides the write.
Get(p) ==
  /\ Due(p)
  /\ pod' = [pod EXCEPT ![p] =
       CASE lease = Nobody -> [@ EXCEPT !.call = "create"]
         [] lease # Nobody /\ lease.holder = p -> [@ EXCEPT !.call = "renew"]
         [] lease # Nobody /\ lease.holder # p /\ lease_is_free(lease) -> [@ EXCEPT !.call = "takeover"]
         [] OTHER -> Refused(@)]
  /\ UNCHANGED <<lease, owned, spent>>

Held(p, duration) == [holder |-> p, age |-> 0, duration |-> duration]

\* An apply without holderIdentity drops it if the manager owned it; a create
\* is an update by another manager.
Renew == /\ lease' = Held(IF owned THEN Nobody ELSE lease.holder, LeaseDuration)
         /\ owned' = FALSE
Takeover(p) == lease' = Held(p, LeaseDuration) /\ owned' = TRUE
Create(p) == lease' = Held(p, LeaseDuration) /\ owned' = FALSE

Conflict(p) == pod[p].call = "create" /\ lease # Nobody

\* The write at the API server.
Written(p) ==
  \/ pod[p].call = "renew" /\ Renew
  \/ pod[p].call = "takeover" /\ Takeover(p)
  \/ pod[p].call = "create" /\ lease = Nobody /\ Create(p)

\* Mutant: a create that meets a lease replaces it.
PutOver(p) ==
  /\ Written(p) \/ (Conflict(p) /\ Create(p))
  /\ pod' = [pod EXCEPT ![p] = Won(@)]
  /\ UNCHANGED spent

WriteLease(p) ==
  \/ /\ Written(p)
     /\ pod' = [pod EXCEPT ![p] = Won(@)]
     /\ UNCHANGED spent
  \/ /\ Conflict(p)
     /\ pod' = [pod EXCEPT ![p] = Errored(@)]
     /\ UNCHANGED <<lease, owned, spent>>

\* The get or the write fails, the write perhaps after it was carried out.
CallFails(p) ==
  /\ Uses("faults", MaxFaults)
  /\ Due(p) \/ pod[p].call # "none"
  /\ Written(p) \/ UNCHANGED <<lease, owned>>
  /\ pod' = [pod EXCEPT ![p] = Errored(@)]

----------------------------------------------------------------------------
(* The process *)

Crash(p) ==
  /\ pod[p].role # "down" /\ Uses("crashes", MaxCrashes)
  /\ pod' = [pod EXCEPT ![p] = Down]
  /\ UNCHANGED <<lease, owned>>

\* SIGTERM at a leader: release_lease reads the lease.  The renewal task runs
\* until the process is gone.
SigTerm(p) ==
  /\ pod[p].role = "leader" /\ ~pod[p].release /\ Uses("terms", MaxTerms)
  /\ pod' = [pod EXCEPT ![p] = IF lease # Nobody /\ lease.holder = p
                               THEN [@ EXCEPT !.release = TRUE] ELSE Down]
  /\ UNCHANGED <<lease, owned>>

\* Mutant: the process ends without the apply.
ExitOnly(p) ==
  /\ pod[p].release
  /\ pod' = [pod EXCEPT ![p] = Down]
  /\ UNCHANGED <<lease, owned, spent>>

release_lease(p) ==
  /\ pod[p].release
  /\ lease' = Held(Nobody, 1) /\ owned' = TRUE
  /\ pod' = [pod EXCEPT ![p] = Down]
  /\ UNCHANGED spent

\* The container restarts under the identity of its pod.
Restart(p) ==
  /\ pod[p].role = "down"
  /\ pod' = [pod EXCEPT ![p] = Started]
  /\ UNCHANGED <<lease, owned, spent>>

\* An interval passes once every call of the last one has been answered.
Tick ==
  /\ \A p \in Pods : ~Due(p) /\ pod[p].call = "none" /\ ~pod[p].release
  /\ pod' = [p \in Pods |-> IF pod[p].role = "down" THEN pod[p] ELSE [pod[p] EXCEPT !.wait = @ - 1]]
  /\ lease' = IF lease = Nobody THEN Nobody
              ELSE [lease EXCEPT !.age = IF @ < LeaseDuration THEN @ + 1 ELSE @]
  /\ UNCHANGED <<owned, spent>>

Try(p) == Get(p) \/ WriteLease(p)

ElectionNext ==
  \/ \E p \in Pods : Try(p) \/ CallFails(p) \/ Crash(p) \/ SigTerm(p) \/ release_lease(p) \/ Restart(p)
  \/ Tick

\* Replicas run on and time passes; a replica that went down may stay down.
ElectionFairness ==
  /\ \A p \in Pods : WF_electionVars(Try(p)) /\ WF_electionVars(release_lease(p))
  /\ WF_electionVars(Tick)

ElectionSpec == ElectionInit /\ [][ElectionNext]_electionVars /\ ElectionFairness

----------------------------------------------------------------------------
(* Properties *)

Leaders == {p \in Pods : pod[p].role = "leader"}

\* "Only the leader reconciles; extra replicas stand by."
OneLeader == Cardinality(Leaders) <= 1

\* It is so for the first leader, which creates the lease: as long as no
\* replica goes and at most one call fails, one create wins and the lease it
\* leaves is renewed before it expires.
OneFirstLeader == spent.crashes = 0 /\ spent.terms = 0 /\ spent.faults <= 1 => OneLeader

\* Whatever became of the last leader, as long as a replica is up one leads
\* again.
SomeoneLeads == []<>(Leaders # {} \/ \A p \in Pods : pod[p].role = "down")

\* While leaders go only by SIGTERM, a standby finds the lease taken only as
\* long as some replica leads: whoever leaves has released it.
HandedOver ==
  \A p \in Pods :
    /\ spent'.crashes = 0 /\ spent'.faults = 0
    /\ Due(p) /\ pod[p].role = "standby" /\ pod'[p] = Refused(pod[p])
    => Leaders # {}
PromptHandover == [][HandedOver]_electionVars

\* The Lease and the replicas are well formed, and the first lease has one
\* leader (try_acquire_lease, renew_lease).
LeasesSound == ElectionTypeOK /\ OneFirstLeader
=============================================================================
