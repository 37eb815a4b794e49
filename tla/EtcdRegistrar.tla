---------------------------- MODULE EtcdRegistrar ----------------------------
(***************************************************************************)
(* The lease-bound registrar of pkg/registry/etcd/registrar.go and the     *)
(* etcd server as far as the registrar uses it.                            *)
(*                                                                         *)
(* Every call to etcd is a step of its own, so a lease can be lost, a call *)
(* can fail and Deregister can run between any two of them.  An actor is   *)
(* the goroutine inside Register (actor 0) or the monitorLease goroutine   *)
(* of a lease (actor l for lease l).                                       *)
(***************************************************************************)
EXTENDS Naturals, FiniteSets

CONSTANT MaxLeases   \* bound on the leases etcd grants in a behaviour

ASSUME LeaseAssumption == MaxLeases \in Nat

Lease == 1..MaxLeases
Actor == 0..MaxLeases
NoLease == 0

VARIABLES
    registered,    \* r.registered
    leaseID,       \* r.leaseID; NoLease also stands for r.cancel = nil
    pc,            \* where each actor is, see Phase
    new,           \* the lease an actor was granted inside registerOnce
    dereg,         \* progress of the Deregister call
    revoke,        \* the lease ID Deregister read under the lock
    granted,       \* leases granted so far; lease IDs are 1..granted
    live,          \* leases etcd holds
    key,           \* the lease the instance key is bound to, NoLease if absent
    closed,        \* leases whose keepalive channel is closed
    clientClosed   \* client.Close() was called

vars == <<registered, leaseID, pc, new, dereg, revoke, granted, live, key, closed, clientClosed>>

\* Inside registerOnce: "grant", "put", "keepalive", "commit".  A monitor is
\* "draining" its channel or about to re-register ("loop").
Phase == {"none", "grant", "put", "keepalive", "commit", "draining", "loop", "done", "failed"}

TypeOK ==
    /\ registered \in BOOLEAN /\ leaseID \in Actor
    /\ registered => leaseID # NoLease
    /\ pc \in [Actor -> Phase] /\ new \in [Actor -> Actor]
    /\ dereg \in {"none", "revoking", "done", "failed"} /\ revoke \in Actor
    /\ granted \in Actor /\ live \in SUBSET Lease /\ key \in Actor
    /\ closed \in SUBSET Lease /\ clientClosed \in BOOLEAN

Init ==
    /\ registered = FALSE /\ leaseID = NoLease
    /\ pc = [a \in Actor |-> IF a = 0 THEN "grant" ELSE "none"]
    /\ new = [a \in Actor |-> NoLease]
    /\ dereg = "none" /\ revoke = NoLease
    /\ granted = 0 /\ live = {} /\ key = NoLease
    /\ closed = {} /\ clientClosed = FALSE

registrarVars == <<registered, leaseID>>
deregVars == <<dereg, revoke, clientClosed>>
etcdVars == <<granted, live, key>>

-----------------------------------------------------------------------------
(* registerOnce, one step per call.                                        *)

Goto(a, phase) == pc' = [pc EXCEPT ![a] = phase]

\* An error returns from registerOnce: Register reports it, a monitor sleeps
\* its backoff and tries again.
Fail(a) == Goto(a, IF a = 0 THEN "failed" ELSE "loop") /\ new' = [new EXCEPT ![a] = NoLease]

GrantOK(a) ==
    /\ pc[a] = "grant" /\ ~clientClosed /\ granted < MaxLeases
    /\ granted' = granted + 1
    /\ live' = live \cup {granted + 1}
    /\ new' = [new EXCEPT ![a] = granted + 1]
    /\ Goto(a, "put")
    /\ UNCHANGED <<registrarVars, deregVars, key, closed>>

PutOK(a) ==
    /\ pc[a] = "put" /\ ~clientClosed /\ new[a] \in live
    /\ key' = new[a]
    /\ Goto(a, "keepalive")
    /\ UNCHANGED <<registrarVars, deregVars, new, granted, live, closed>>

KeepAliveOK(a) ==
    /\ pc[a] = "keepalive" /\ ~clientClosed
    /\ Goto(a, "commit")
    /\ UNCHANGED <<registrarVars, deregVars, etcdVars, new, closed>>

\* A call fails; a Put whose answer is lost may still have written the key.
CallFails(a) ==
    /\ pc[a] \in {"grant", "put", "keepalive"}
    /\ Fail(a)
    /\ \/ UNCHANGED key
       \/ pc[a] = "put" /\ new[a] \in live /\ ~clientClosed /\ key' = new[a]
    /\ UNCHANGED <<registrarVars, deregVars, granted, live, closed>>

\* Faulty variant: the re-registering monitor keeps running beside the one it
\* has just started.
CommitAndStay(a) ==
    /\ pc[a] = "commit"
    /\ closed' = closed \cup ({leaseID} \ {NoLease})
    /\ leaseID' = new[a] /\ registered' = TRUE
    /\ pc' = [pc EXCEPT ![a] = IF a = 0 THEN "done" ELSE "loop", ![new[a]] = "draining"]
    /\ new' = [new EXCEPT ![a] = NoLease]
    /\ UNCHANGED <<deregVars, etcdVars>>

\* The critical section that ends registerOnce cancels the previous keepalive,
\* records the new lease, and a monitor starts for it.
Commit(a) ==
    /\ pc[a] = "commit"
    /\ closed' = closed \cup ({leaseID} \ {NoLease})
    /\ leaseID' = new[a] /\ registered' = TRUE
    /\ pc' = [pc EXCEPT ![a] = "done", ![new[a]] = "draining"]
    /\ new' = [new EXCEPT ![a] = NoLease]
    /\ UNCHANGED <<deregVars, etcdVars>>

-----------------------------------------------------------------------------
(* monitorLease.                                                           *)

\* Faulty variant: a closed channel always counts as an explicit Deregister.
DrainedQuit(l) ==
    /\ pc[l] = "draining" /\ l \in closed
    /\ Goto(l, "done")
    /\ UNCHANGED <<registrarVars, deregVars, etcdVars, new, closed>>

\* The channel is closed: an explicit Deregister, or a lease loss?
Drained(l) ==
    /\ pc[l] = "draining" /\ l \in closed
    /\ Goto(l, IF registered THEN "loop" ELSE "done")
    /\ UNCHANGED <<registrarVars, deregVars, etcdVars, new, closed>>

\* One round of the re-registration loop: give up if deregistered meanwhile.
Loop(l) ==
    /\ pc[l] = "loop"
    /\ Goto(l, IF registered THEN "grant" ELSE "done")
    /\ UNCHANGED <<registrarVars, deregVars, etcdVars, new, closed>>

-----------------------------------------------------------------------------
(* Deregister.                                                             *)

\* The critical section and cancel(); not registered is a no-op.
Deregister ==
    /\ dereg = "none" /\ pc[0] \in {"done", "failed"}
    /\ IF registered
         THEN /\ revoke' = leaseID /\ registered' = FALSE
              /\ closed' = closed \cup {leaseID}
              /\ dereg' = "revoking"
         ELSE dereg' = "done" /\ UNCHANGED <<revoke, registered, closed>>
    /\ UNCHANGED <<leaseID, pc, new, etcdVars, clientClosed>>

Removed(l) == /\ live' = live \ {l}
              /\ key' = IF key = l THEN NoLease ELSE key

\* Revoke succeeds on a lease etcd still holds, and the client is closed.
RevokeOK ==
    /\ dereg = "revoking" /\ revoke \in live
    /\ Removed(revoke)
    /\ clientClosed' = TRUE /\ dereg' = "done"
    /\ closed' = Lease
    /\ UNCHANGED <<registrarVars, pc, new, revoke, granted>>

\* Faulty variant: the error of Revoke is dropped.
RevokeFailsSilently ==
    /\ dereg = "revoking"
    /\ dereg' = "done"
    /\ UNCHANGED <<registrarVars, pc, new, revoke, etcdVars, closed, clientClosed>>

\* Revoke fails (an expired lease is not found): the client stays open.
RevokeFails ==
    /\ dereg = "revoking"
    /\ dereg' = "failed"
    /\ UNCHANGED <<registrarVars, pc, new, revoke, etcdVars, closed, clientClosed>>

-----------------------------------------------------------------------------
(* etcd and the network.                                                   *)

\* The registrar renews l as long as its keepalive channel is open.
Renewed(l) ==
    /\ l \notin closed /\ ~clientClosed
    /\ \/ pc[l] = "draining"
       \/ \E a \in Actor : pc[a] = "commit" /\ new[a] = l

\* A lease expires and the key bound to it goes.
Expire(l) ==
    /\ l \in live
    /\ Removed(l)
    /\ UNCHANGED <<registrarVars, pc, new, deregVars, granted, closed>>

\* The keepalive channel closes: the lease is gone, or nothing gets through.
KeepaliveLost(l) ==
    /\ l \in 1..granted \ closed
    /\ closed' = closed \cup {l}
    /\ UNCHANGED <<registrarVars, pc, new, deregVars, etcdVars>>

RegisterStep(a) == GrantOK(a) \/ PutOK(a) \/ KeepAliveOK(a) \/ CallFails(a) \/ Commit(a)

Next ==
    \/ \E a \in Actor : RegisterStep(a)
    \/ \E l \in Lease : Drained(l) \/ Loop(l) \/ Expire(l) \/ KeepaliveLost(l)
    \/ Deregister \/ RevokeOK \/ RevokeFails

Spec == Init /\ [][Next]_vars

\* Goroutines run and calls return; etcd does not fail every call; a lease
\* nobody renews expires and the channel of an expired lease closes.
FairSpec ==
    /\ Spec
    /\ SF_vars(\E a \in Actor : GrantOK(a)) /\ SF_vars(\E a \in Actor : PutOK(a))
    /\ SF_vars(\E a \in Actor : KeepAliveOK(a))
    /\ \A a \in Actor : WF_vars(RegisterStep(a))
    /\ \A l \in Lease : /\ WF_vars(Drained(l)) /\ WF_vars(Loop(l))
                        /\ WF_vars(Expire(l) /\ ~Renewed(l))
                        /\ WF_vars(KeepaliveLost(l) /\ l \notin live)

-----------------------------------------------------------------------------
(* Properties.                                                             *)

Active == {a \in Actor : pc[a] \notin {"none", "done", "failed"}}

\* A single goroutine tends the registration at any time: the Register call,
\* then one monitor after the other, across every lease loss and retry.  Two
\* would re-register against each other for ever.
OneTender == Cardinality(Active) <= 1

\* The lease the registrar has on record was granted, and no lease granted
\* later is being renewed: the record never falls behind the renewals.
RecordsNewestLease ==
    \A l \in Lease : pc[l] = "draining" => l = leaseID /\ l <= granted

\* A registration that loses its lease comes back: until Deregister is called
\* (or the bound on leases is reached) the key is always restored.
Reregisters ==
    []<>(~registered \/ key # NoLease \/ dereg # "none" \/ granted = MaxLeases)

\* When Deregister reports success the key disappears and stays away, even if
\* a monitor was re-registering at that moment.
DeregisterRemovesKey == <>[](dereg = "done" => key = NoLease)
=============================================================================
