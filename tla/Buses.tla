-------------------------------- MODULE Buses --------------------------------
(***************************************************************************)
(* The in-process message paths: the memory broker (pkg/broker/memory),    *)
(* whose Publish runs the subscribers' handlers on the publisher's own     *)
(* goroutine, the event bus and the bounded event queue (pkg/event).       *)
(*                                                                         *)
(* Both Publish and Dispatch copy the receivers under the lock and call    *)
(* them without it, so receivers come and go while a copy is being worked  *)
(* off.  Publish looks at a subscription's done channel just before its    *)
(* handler and gives up at the first handler error; Dispatch calls every   *)
(* callback of its copy, in the random order of a Go map.  The memory      *)
(* broker never removes a subscription from its list.                      *)
(***************************************************************************)
EXTENDS Naturals, Sequences, SequencesExt, FiniteSets

CONSTANTS
    Receivers,      \* handlers and callbacks
    Publishers,     \* goroutines calling memoryBroker.Publish
    Dispatchers,    \* goroutines calling bus.Dispatch
    callbackID,     \* the code pointer of each callback (equal for the
                    \* closures of one function literal)
    Capacity,       \* of the event queue, 0 for an unbounded one
    MaxPushes       \* bound: events pushed on the queue

VARIABLES
    subs,           \* memoryBroker.subs of the topic, a list
    done,           \* subscriptions whose done channel is closed
    watchers,       \* bus.watchers of the name: callbacks, one per callbackID
    pc,             \* "idle", "next", "handler" (before a handler), "ok", "err"
    rest,           \* the part of its copy a caller has yet to work off
    stayed,         \* history: receivers there when the call began and ever since
    gone,           \* history: subscriptions already cancelled when it began
    got,            \* history: receivers the call reached
    events,         \* queue.events
    pushed          \* history: all events pushed

memoryVars == <<subs, done>>
callVars == <<pc, rest, stayed, gone, got>>
queueVars == <<events, pushed>>
vars == <<memoryVars, watchers, callVars, queueVars>>

Senders == Publishers \cup Dispatchers

Init ==
    /\ subs = << >> /\ done = {} /\ watchers = {}
    /\ pc = [c \in Senders |-> "idle"]
    /\ rest = [c \in Senders |-> << >>]
    /\ stayed = [c \in Senders |-> {}]
    /\ gone = [c \in Senders |-> {}]
    /\ got = [c \in Senders |-> {}]
    /\ events = << >> /\ pushed = << >>

------------------------------------------------------------------------------
(* Subscriptions and watches.                                              *)

Subscribe(r) ==
    /\ r \notin Range(subs)
    /\ subs' = Append(subs, r)
    /\ UNCHANGED <<done, watchers, callVars, queueVars>>

\* once.Do: closing the channel is all that happens; the list keeps the entry.
Unsubscribe(r) ==
    /\ r \in Range(subs) \ done
    /\ done' = done \cup {r}
    /\ stayed' = [c \in Senders |-> IF c \in Publishers THEN stayed[c] \ {r} ELSE stayed[c]]
    /\ UNCHANGED <<subs, watchers, pc, rest, gone, got, queueVars>>

SameID(r) == {w \in watchers : callbackID[w] = callbackID[r]}

\* The dispatches for which a callback of R is no longer there throughout.
Departs(R) == [c \in Senders |-> IF c \in Dispatchers THEN stayed[c] \ R ELSE stayed[c]]

\* A callback with the same code pointer is replaced.
Watch(r) ==
    /\ r \notin watchers
    /\ watchers' = (watchers \ SameID(r)) \cup {r}
    /\ stayed' = Departs(SameID(r))
    /\ UNCHANGED <<memoryVars, pc, rest, gone, got, queueVars>>

Unwatch(r) ==
    /\ SameID(r) # {}
    /\ watchers' = watchers \ SameID(r)
    /\ stayed' = Departs(SameID(r))
    /\ UNCHANGED <<memoryVars, pc, rest, gone, got, queueVars>>

------------------------------------------------------------------------------
(* Publish and Dispatch.                                                   *)

\* b.mu.RLock ... RUnlock: the copy of the subscriptions.
Publish(p) ==
    /\ pc[p] = "idle"
    /\ pc' = [pc EXCEPT ![p] = "next"]
    /\ rest' = [rest EXCEPT ![p] = subs]
    /\ stayed' = [stayed EXCEPT ![p] = Range(subs) \ done]
    /\ gone' = [gone EXCEPT ![p] = done]
    /\ UNCHANGED <<memoryVars, watchers, got, queueVars>>

\* Faulty: stops at a cancelled subscription instead of skipping it.
CheckDoneReturns(p) ==
    /\ pc[p] = "next" /\ rest[p] # << >>
    /\ pc' = [pc EXCEPT ![p] = IF Head(rest[p]) \in done THEN "ok" ELSE "handler"]
    /\ UNCHANGED <<memoryVars, watchers, rest, stayed, gone, got, queueVars>>

\* select on s.done: skip a cancelled subscription, else go on to its handler.
CheckDone(p) ==
    /\ pc[p] = "next" /\ rest[p] # << >>
    /\ IF Head(rest[p]) \in done
         THEN /\ rest' = [rest EXCEPT ![p] = Tail(@)]
              /\ UNCHANGED pc
         ELSE /\ pc' = [pc EXCEPT ![p] = "handler"]
              /\ UNCHANGED rest
    /\ UNCHANGED <<memoryVars, watchers, stayed, gone, got, queueVars>>

\* s.handler(...) returns; an error ends the Publish.
Handle(p, ok) ==
    /\ pc[p] = "handler"
    /\ got' = [got EXCEPT ![p] = @ \cup {Head(rest[p])}]
    /\ rest' = [rest EXCEPT ![p] = Tail(@)]
    /\ pc' = [pc EXCEPT ![p] = IF ok THEN "next" ELSE "err"]
    /\ UNCHANGED <<memoryVars, watchers, stayed, gone, queueVars>>

\* The copy of the callbacks, in some order.
Dispatch(d) ==
    /\ pc[d] = "idle"
    /\ pc' = [pc EXCEPT ![d] = "next"]
    /\ \E order \in SetToSeqs(watchers) : rest' = [rest EXCEPT ![d] = order]
    /\ stayed' = [stayed EXCEPT ![d] = watchers]
    /\ UNCHANGED <<memoryVars, watchers, gone, got, queueVars>>

Callback(d) ==
    /\ pc[d] = "next" /\ rest[d] # << >>
    /\ got' = [got EXCEPT ![d] = @ \cup {Head(rest[d])}]
    /\ rest' = [rest EXCEPT ![d] = Tail(@)]
    /\ UNCHANGED <<memoryVars, watchers, pc, stayed, gone, queueVars>>

\* The loop is over: nil.
Return(c) ==
    /\ pc[c] = "next" /\ rest[c] = << >>
    /\ pc' = [pc EXCEPT ![c] = "ok"]
    /\ UNCHANGED <<memoryVars, watchers, rest, stayed, gone, got, queueVars>>

\* The event queue: append, then drop from the front what exceeds the capacity.
Push ==
    /\ Len(pushed) < MaxPushes
    /\ LET e == Len(pushed) + 1
           all == Append(events, e)
       IN /\ pushed' = Append(pushed, e)
          /\ events' = IF Capacity > 0 /\ Len(all) > Capacity
                         THEN SubSeq(all, Len(all) - Capacity + 1, Len(all))
                         ELSE all
    /\ UNCHANGED <<memoryVars, watchers, callVars>>

Next ==
    \/ \E r \in Receivers : Subscribe(r) \/ Unsubscribe(r) \/ Watch(r) \/ Unwatch(r)
    \/ \E p \in Publishers : Publish(p) \/ CheckDone(p) \/ \E ok \in BOOLEAN : Handle(p, ok)
    \/ \E d \in Dispatchers : Dispatch(d) \/ Callback(d)
    \/ \E c \in Senders : Return(c)
    \/ Push

Spec == Init /\ [][Next]_vars

------------------------------------------------------------------------------

(***************************************************************************)
(* Publish (memory.go:52) and Dispatch (bus.go:61) work on a copy of the   *)
(* receivers.  Even so, one that returns without error has reached every   *)
(* receiver that was there when it began and stayed until it returned,     *)
(* however many left meanwhile, and a Publish never reaches a subscription *)
(* cancelled before it began although the list still holds it.  The event  *)
(* queue (queue.go:33) keeps exactly the newest Capacity events.           *)
(***************************************************************************)
ReachesThoseWhoStay ==
    /\ \A c \in Senders :
          /\ pc[c] = "ok" => stayed[c] \subseteq got[c]
          /\ got[c] \cap gone[c] = {}
    /\ Capacity > 0 =>
          \A n \in 1..Len(pushed) :
             (pushed[n] \in Range(events)) <=> (Len(pushed) - n < Capacity)
==============================================================================
