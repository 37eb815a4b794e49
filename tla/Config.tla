-------------------------------- MODULE Config --------------------------------
(***************************************************************************)
(* pkg/config: Load merges the sources in their order into the reader, and *)
(* Watch follows each of them in a goroutine of its own.  A file source    *)
(* polls modification times, a Polaris source receives pushed versions.    *)
(*                                                                         *)
(* A version of a source defines some keys, and may fail to decode.  The   *)
(* nested maps of the reader are their leaf paths, the keys here: mergeMap *)
(* overlays those the new version has and leaves the others.               *)
(***************************************************************************)
EXTENDS Naturals, Sequences, FiniteSets

CONSTANTS
    Sources,        \* 1..n, in the order of WithSource
    Files,          \* those that are file sources; the others are Polaris
    Keys,
    MaxChanges      \* bound: versions published after the first ones

VARIABLES
    version,        \* what each source holds now: number, keys, decodable
    values,         \* reader.values: per key the source and version it came from
    loaded,         \* Load has returned without an error
    at,             \* where each source's watchLoop is
    lastMod,        \* file watcher: the version whose modification time it has
    events,         \* Polaris watcher: its channel
    pending,        \* what Next has returned and watchLoop has not merged
    stopped,        \* the watcher's stop channel is closed
    watchers,       \* config.watchers
    closed,         \* config.closed
    missed,         \* ghost: the version a source had when its watch began
    lost            \* ghost: the newest version whose read failed

vars == <<version, values, loaded, at, lastMod, events, pending, stopped, watchers, closed,
          missed, lost>>

MaxVersion == MaxChanges + 1
Versions == [number : 0..MaxVersion, keys : SUBSET Keys, valid : BOOLEAN]
NoVersion == [number |-> 0, keys |-> {}, valid |-> TRUE]

TypeOK ==
    /\ version \in [Sources -> Versions] /\ pending \in [Sources -> Versions]
    /\ values \in [Keys -> (Sources \cup {0}) \X (0..MaxVersion)]
    /\ loaded \in BOOLEAN /\ closed \in BOOLEAN
    /\ at \in [Sources -> {"new", "next", "read", "merge", "unwatched", "ended"}]
    /\ lastMod \in [Sources -> 0..MaxVersion] /\ \A s \in Sources : events[s] \in Seq(Versions)
    /\ stopped \subseteq Sources /\ watchers \subseteq Sources
    /\ missed \in [Sources -> 0..MaxVersion] /\ lost \in [Sources -> 0..MaxVersion]

Init ==
    /\ version = [s \in Sources |-> [number |-> 1, keys |-> Keys, valid |-> TRUE]]
    /\ values = [k \in Keys |-> <<0, 0>>] /\ loaded = FALSE
    /\ at = [s \in Sources |-> "new"] /\ lastMod = [s \in Sources |-> 0]
    /\ events = [s \in Sources |-> <<>>] /\ pending = [s \in Sources |-> NoVersion]
    /\ stopped = {} /\ watchers = {} /\ closed = FALSE
    /\ missed = [s \in Sources |-> 0] /\ lost = [s \in Sources |-> 0]

\* mergeMap: the keys of the new version, and no others.
Overlay(vals, s, v) == [k \in Keys |-> IF k \in v.keys THEN <<s, v.number>> ELSE vals[k]]

\* Faulty variant: only keys that are not there yet are taken over.
MergeNew(s, v) == [k \in Keys |-> IF k \in v.keys /\ values[k][1] = 0 THEN <<s, v.number>> ELSE values[k]]

Merge(s, v) == Overlay(values, s, v)

\* reader.values after the sources up to s have been merged in their order.
MergedUpTo[s \in Sources \cup {0}] ==
    IF s = 0 THEN values ELSE Overlay(MergedUpTo[s - 1], s, version[s])

\* loader.Load: every source is read first; then Merge stops at the first
\* version that does not decode, with the ones before it merged.
Load ==
    /\ ~loaded /\ \A s \in Sources : at[s] = "new"
    /\ \/ /\ \A s \in Sources : version[s].valid
          /\ loaded' = TRUE
          /\ \E n \in Sources : (\A s \in Sources : s <= n) /\ values' = MergedUpTo[n]
       \/ /\ \E s \in Sources :
               /\ ~version[s].valid /\ \A r \in Sources : r < s => version[r].valid
               /\ values' = MergedUpTo[s - 1]
          /\ UNCHANGED <<loaded>>
    /\ UNCHANGED <<version, at, lastMod, events, pending, stopped, watchers, closed, missed, lost>>

\* The source's owner publishes a version; Polaris pushes it to its listener.
Publish(s) ==
    /\ Cardinality({c \in Sources \X (2..MaxVersion) : c[2] <= version[c[1]].number}) < MaxChanges
    /\ \E ks \in SUBSET Keys, ok \in BOOLEAN :
         version' = [version EXCEPT ![s] = [number |-> @.number + 1, keys |-> ks, valid |-> ok]]
    /\ events' = IF s \notin Files /\ at[s] \in {"next", "merge"}
                 THEN [events EXCEPT ![s] = Append(@, version'[s])] ELSE events
    /\ UNCHANGED <<values, loaded, at, lastMod, pending, stopped, watchers, closed, missed, lost>>

Goto(s, l) == at' = [at EXCEPT ![s] = l]

\* Watch, source by source.  A Polaris source that cannot be asked is skipped;
\* a file watcher notes the modification time, or none if Stat fails.
Watch(s) ==
    /\ loaded /\ at[s] = "new" /\ \A r \in Sources : r < s => at[r] # "new"
    /\ \/ /\ Goto(s, "next") /\ watchers' = watchers \cup {s}
          /\ \/ /\ lastMod' = [lastMod EXCEPT ![s] = version[s].number]
                /\ missed' = [missed EXCEPT ![s] = version[s].number]
             \/ s \in Files /\ UNCHANGED <<lastMod, missed>>
       \/ /\ s \notin Files /\ Goto(s, "unwatched")
          /\ UNCHANGED <<watchers, lastMod, missed>>
    /\ UNCHANGED <<version, values, loaded, events, pending, stopped, closed, lost>>

\* Next's select: the stop channel, the ticker or the channel of events.
NextStopped(s) ==
    /\ at[s] = "next" /\ s \in stopped
    /\ Goto(s, "ended") /\ events' = [events EXCEPT ![s] = <<>>]
    /\ UNCHANGED <<version, values, loaded, lastMod, pending, stopped, watchers, closed, missed, lost>>

\* check, first half: a changed modification time is recorded at once.
Stat(s) ==
    /\ s \in Files /\ at[s] = "next" /\ lastMod[s] # version[s].number
    /\ lastMod' = [lastMod EXCEPT ![s] = version[s].number] /\ Goto(s, "read")
    /\ UNCHANGED <<version, values, loaded, events, pending, stopped, watchers, closed, missed, lost>>

\* check, second half: the file, as it is by now; if it cannot be read the
\* change is gone until the next one.
ReadFile(s) ==
    /\ at[s] = "read"
    /\ \/ pending' = [pending EXCEPT ![s] = version[s]] /\ Goto(s, "merge") /\ UNCHANGED lost
       \/ Goto(s, "next") /\ lost' = [lost EXCEPT ![s] = lastMod[s]] /\ UNCHANGED pending
    /\ UNCHANGED <<version, values, loaded, lastMod, events, stopped, watchers, closed, missed>>

NextEvent(s) ==
    /\ s \notin Files /\ at[s] = "next" /\ events[s] # <<>>
    /\ pending' = [pending EXCEPT ![s] = Head(events[s])]
    /\ events' = [events EXCEPT ![s] = Tail(@)] /\ Goto(s, "merge")
    /\ UNCHANGED <<version, values, loaded, lastMod, stopped, watchers, closed, missed, lost>>

\* watchLoop: a version that does not decode is skipped, any other is merged
\* and fn is called.
WatchLoop(s) ==
    /\ at[s] = "merge" /\ Goto(s, "next")
    /\ pending' = [pending EXCEPT ![s] = NoVersion]
    /\ IF pending[s].valid
       THEN values' = Merge(s, pending[s])
       ELSE UNCHANGED values
    /\ UNCHANGED <<version, loaded, lastMod, events, stopped, watchers, closed, missed, lost>>

\* Only the watchers registered so far are stopped.
Close ==
    /\ ~closed /\ closed' = TRUE
    /\ stopped' = stopped \cup watchers /\ watchers' = {}
    /\ UNCHANGED <<version, values, loaded, at, lastMod, events, pending, missed, lost>>

Step(s) == NextStopped(s) \/ Stat(s) \/ ReadFile(s) \/ NextEvent(s) \/ WatchLoop(s)
Next == Load \/ Close \/ \E s \in Sources : Publish(s) \/ Watch(s) \/ Step(s)

\* Tickers tick and goroutines run; a select that finds nothing but the stop
\* channel closed takes it in the end.
Spec ==
    /\ Init /\ [][Next]_vars
    /\ \A s \in Sources : WF_vars(Step(s)) /\ WF_vars(NextStopped(s))

\* The keys that came from s are at its newest version, unless that one came
\* between Load and Watch or could not be read when it was noticed; and a
\* watcher that Close found has ended its goroutine.
Newest(s) ==
    /\ \/ at[s] \in {"new", "unwatched", "ended"} \/ ~version[s].valid
       \/ version[s].number \in {missed[s], lost[s]}
       \/ \A k \in version[s].keys : values[k][1] = s => values[k][2] = version[s].number
    /\ s \in stopped => at[s] = "ended"

\* Once the sources rest, no watched key is left at an older version of the
\* very source it came from, whatever order the watchLoops merge in.
NewestOfEachSource == \A s \in Sources : <>[]Newest(s)
=============================================================================
