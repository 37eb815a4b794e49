----------------------------- MODULE RedisBroker -----------------------------
(***************************************************************************)
(* The Redis Streams broker (pkg/broker/redis): one topic, its stream, the *)
(* consumer groups Redis keeps for it and the consume goroutine of every   *)
(* subscriber.                                                             *)
(*                                                                         *)
(* A group has the last position handed out and the pending messages that  *)
(* were handed out and not acknowledged.  XREADGROUP with ">" hands out    *)
(* only messages nobody of the group has had, so what stays pending is     *)
(* never seen again: the broker has no pass that claims it.  A subscriber  *)
(* without a queue joins the group "default".  The consumer looks at its   *)
(* context only between two reads, so a read under way when it is          *)
(* cancelled still hands out its message.                                  *)
(***************************************************************************)
EXTENDS Integers, FiniteSets

CONSTANTS
    Subscribers,    \* subscriptions, one consume goroutine each
    Queue,          \* the queue each asks for, "" for none
    MaxMessages,    \* bound: messages published
    MaxFaults       \* bound: replies and acknowledgements lost

VARIABLES
    stream,         \* number of messages in the stream (ids 1, 2, ...)
    cursor,         \* last id handed out per group, or None (no group)
    pending,        \* ids handed out and not acknowledged, per group
    pc,             \* "out", "loop", "read", "handler", "ack", "over"
    msg,            \* the message a consumer handles
    canceled,       \* subscribers whose context is cancelled
    got,            \* history: messages each subscriber's handler was given
    settled,        \* history: per group, messages whose handler succeeded or
                    \* was willing to acknowledge
    faults          \* replies and acknowledgements lost so far

vars == <<stream, cursor, pending, pc, msg, canceled, got, settled, faults>>

None == -1
group(s) == IF Queue[s] = "" THEN "default" ELSE Queue[s]
Groups == {group(s) : s \in Subscribers}

Init ==
    /\ stream = 0
    /\ cursor = [g \in Groups |-> None]
    /\ pending = [g \in Groups |-> {}]
    /\ pc = [s \in Subscribers |-> "out"]
    /\ msg = [s \in Subscribers |-> 0]
    /\ canceled = {}
    /\ got = [s \in Subscribers |-> {}]
    /\ settled = [g \in Groups |-> {}]
    /\ faults = 0

\* XADD.
Publish ==
    /\ stream < MaxMessages
    /\ stream' = stream + 1
    /\ UNCHANGED <<cursor, pending, pc, msg, canceled, got, settled, faults>>

\* XGROUP CREATE at "$" (BUSYGROUP ignored), then the consumer is started.
Subscribe(s) ==
    /\ pc[s] = "out"
    /\ cursor' = [cursor EXCEPT ![group(s)] = IF @ = None THEN stream ELSE @]
    /\ pc' = [pc EXCEPT ![s] = "loop"]
    /\ UNCHANGED <<stream, pending, msg, canceled, got, settled, faults>>

Unsubscribe(s) ==
    /\ pc[s] # "out" /\ s \notin canceled
    /\ canceled' = canceled \cup {s}
    /\ UNCHANGED <<stream, cursor, pending, pc, msg, got, settled, faults>>

\* The select at the top of the loop.
LoopTop(s) ==
    /\ pc[s] = "loop"
    /\ pc' = [pc EXCEPT ![s] = IF s \in canceled THEN "over" ELSE "read"]
    /\ UNCHANGED <<stream, cursor, pending, msg, canceled, got, settled, faults>>

\* XREADGROUP answers with the next message of the group, which is now pending.
\* The answer may be lost: the consumer sees an error and goes on.
XReadGroup(s, lost) ==
    LET g == group(s)
        id == cursor[g] + 1
    IN /\ pc[s] = "read" /\ id <= stream
       /\ lost => faults < MaxFaults
       /\ cursor' = [cursor EXCEPT ![g] = id]
       /\ pending' = [pending EXCEPT ![g] = @ \cup {id}]
       /\ pc' = [pc EXCEPT ![s] = IF lost THEN "loop" ELSE "handler"]
       /\ msg' = [msg EXCEPT ![s] = IF lost THEN @ ELSE id]
       /\ got' = [got EXCEPT ![s] = IF lost THEN @ ELSE @ \cup {id}]
       /\ faults' = faults + (IF lost THEN 1 ELSE 0)
       /\ UNCHANGED <<stream, canceled, settled>>

\* Nothing within Block, or the context is done: redis.Nil or an error, continue.
ReadFails(s) ==
    /\ pc[s] = "read"
    /\ pc' = [pc EXCEPT ![s] = "loop"]
    /\ UNCHANGED <<stream, cursor, pending, msg, canceled, got, settled, faults>>

\* Faulty: AutoAck acknowledges whatever the handler returned.
HandlerAcksAll(s, ok) ==
    /\ pc[s] = "handler"
    /\ pc' = [pc EXCEPT ![s] = "ack"]
    /\ settled' = [settled EXCEPT ![group(s)] = IF ok THEN @ \cup {msg[s]} ELSE @]
    /\ UNCHANGED <<stream, cursor, pending, msg, canceled, got, faults>>

\* The handler returns.  ok: it returned nil and AutoAck acknowledges for it, or,
\* without AutoAck, it calls Event.Ack itself.
Handler(s, ok) ==
    /\ pc[s] = "handler"
    /\ pc' = [pc EXCEPT ![s] = IF ok THEN "ack" ELSE "loop"]
    /\ settled' = [settled EXCEPT ![group(s)] = IF ok THEN @ \cup {msg[s]} ELSE @]
    /\ UNCHANGED <<stream, cursor, pending, msg, canceled, got, faults>>

\* ev.Ack: XACK in the background context; its error is ignored.
Ack(s, lost) ==
    /\ pc[s] = "ack"
    /\ lost => faults < MaxFaults
    /\ pending' = [pending EXCEPT ![group(s)] = IF lost THEN @ ELSE @ \ {msg[s]}]
    /\ faults' = faults + (IF lost THEN 1 ELSE 0)
    /\ pc' = [pc EXCEPT ![s] = "loop"]
    /\ UNCHANGED <<stream, cursor, msg, canceled, got, settled>>

consume(s) ==
    \/ LoopTop(s)
    \/ \E lost \in BOOLEAN : XReadGroup(s, lost)
    \/ ReadFails(s)
    \/ \E ok \in BOOLEAN : Handler(s, ok)
    \/ \E lost \in BOOLEAN : Ack(s, lost)

Next == Publish \/ \E s \in Subscribers : Subscribe(s) \/ Unsubscribe(s) \/ consume(s)

Spec == Init /\ [][Next]_vars

------------------------------------------------------------------------------

(***************************************************************************)
(* At least once (redis.go:5): whatever is lost on the way and whoever     *)
(* unsubscribes in the middle of a message, a message a group has handed   *)
(* out is either settled by a handler that succeeded or still pending,     *)
(* where it could be claimed; and two consumers of a group are never given *)
(* the same message.  (Subscribers without a queue are one such group, so  *)
(* they share the messages.)                                               *)
(***************************************************************************)
SettledOrPending ==
    \A g \in Groups :
       /\ \A s, t \in {x \in Subscribers : group(x) = g} :
             s # t => got[s] \cap got[t] = {}
       /\ \A s \in {x \in Subscribers : group(x) = g} :
             got[s] \subseteq pending[g] \cup settled[g]
==============================================================================
