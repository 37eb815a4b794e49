-------------------------------- MODULE Hedge --------------------------------
(***************************************************************************)
(* resilience.Hedge: a primary request, backups when it is slow, and the   *)
(* error rate of backups that the callers share.  Each request runs in a   *)
(* goroutine that sends its result to a buffered channel; whoever is still *)
(* running when the call returns finds nobody at the other end.            *)
(***************************************************************************)
EXTENDS Naturals, Sequences, FiniteSets

CONSTANTS
    Callers,
    MaxBackups,         \* hedgeConfig.maxBackups
    RateNum, RateDen,   \* hedgeConfig.backupErrRate
    MaxTotal            \* bound: backup results counted

VARIABLES
    at,                 \* where each call is
    primary, backup,    \* its two channels: the results sent and not received
    flying,             \* its goroutines still running: <<primaries, backups>>
    backupTotal, backupSuccess

vars == <<at, primary, backup, flying, backupTotal, backupSuccess>>
counters == <<backupTotal, backupSuccess>>

TypeOK ==
    /\ at \in [Callers -> {"idle", "timer", "throttle", "primary", "both", "won", "returned"}]
    /\ \A c \in Callers : Len(primary[c]) <= 1 /\ Len(backup[c]) <= MaxBackups
    /\ flying \in [Callers -> (0..1) \X (0..MaxBackups)]
    /\ backupSuccess \in 0..backupTotal /\ backupTotal \in 0..MaxTotal

Init ==
    /\ at = [c \in Callers |-> "idle"]
    /\ primary = [c \in Callers |-> <<>>] /\ backup = [c \in Callers |-> <<>>]
    /\ flying = [c \in Callers |-> <<0, 0>>]
    /\ backupTotal = 0 /\ backupSuccess = 0

Goto(c, l) == at' = [at EXCEPT ![c] = l]

Begin(c) ==
    /\ at[c] = "idle"
    /\ backupTotal + Cardinality({d \in Callers : at[d] # "idle"}) < MaxTotal
    /\ flying' = [flying EXCEPT ![c] = <<1, 0>>]
    /\ Goto(c, "timer")
    /\ UNCHANGED <<primary, backup, counters>>

\* runHedge: next returns, or panics and is recovered, and the result is sent.
PrimaryEnds(c) ==
    /\ flying[c][1] > 0
    /\ Len(primary[c]) < 1
    /\ \E r \in {"ok", "error"} : primary' = [primary EXCEPT ![c] = Append(@, r)]
    /\ flying' = [flying EXCEPT ![c][1] = @ - 1]
    /\ UNCHANGED <<at, backup, counters>>

\* Faulty variant: the backups' channel has room for one result only.
BackupRoomForOne == 1

BackupRoom == MaxBackups

BackupEnds(c) ==
    /\ flying[c][2] > 0
    /\ Len(backup[c]) < BackupRoom
    /\ \E r \in {"ok", "error"} : backup' = [backup EXCEPT ![c] = Append(@, r)]
    /\ flying' = [flying EXCEPT ![c][2] = @ - 1]
    /\ UNCHANGED <<at, primary, counters>>

\* The primary's result arrives at whatever select the call has reached.
TakePrimary(c) ==
    /\ at[c] \in {"timer", "primary", "both"}
    /\ primary[c] # <<>>
    /\ primary' = [primary EXCEPT ![c] = Tail(@)]
    /\ Goto(c, "returned")
    /\ UNCHANGED <<backup, flying, counters>>

TimerFires(c) ==
    /\ at[c] = "timer"
    /\ Goto(c, "throttle")
    /\ UNCHANGED <<primary, backup, flying, counters>>

Throttled == backupTotal > 0 /\ (backupTotal - backupSuccess) * RateDen >= backupTotal * RateNum

\* Mostly failing backups: wait for the primary alone.
Throttle(c) ==
    /\ at[c] = "throttle"
    /\ IF Throttled
         THEN Goto(c, "primary") /\ UNCHANGED flying
         ELSE Goto(c, "both") /\ flying' = [flying EXCEPT ![c][2] = MaxBackups]
    /\ UNCHANGED <<primary, backup, counters>>

\* A backup wins: the two counters are changed one after the other.
TakeBackup(c) ==
    /\ at[c] = "both"
    /\ backup[c] # <<>>
    /\ backupTotal' = backupTotal + 1
    /\ Goto(c, IF Head(backup[c]) = "ok" THEN "won" ELSE "returned")
    /\ backup' = [backup EXCEPT ![c] = Tail(@)]
    /\ UNCHANGED <<primary, flying, backupSuccess>>

CountSuccess(c) ==
    /\ at[c] = "won"
    /\ backupSuccess' = backupSuccess + 1
    /\ Goto(c, "returned")
    /\ UNCHANGED <<primary, backup, flying, backupTotal>>

\* The call is over, its context canceled, and its goroutines have ended; their
\* channels are garbage.
Over(c) ==
    /\ at[c] = "returned"
    /\ flying[c] = <<0, 0>>
    /\ Goto(c, "idle")
    /\ primary' = [primary EXCEPT ![c] = <<>>] /\ backup' = [backup EXCEPT ![c] = <<>>]
    /\ UNCHANGED <<flying, counters>>

CallProceeds(c) == TakePrimary(c) \/ Throttle(c) \/ TakeBackup(c) \/ CountSuccess(c)

Step(c) ==
    PrimaryEnds(c) \/ BackupEnds(c) \/ TimerFires(c) \/ CallProceeds(c) \/ Over(c)

Next == \E c \in Callers : Begin(c) \/ Step(c)

Spec == Init /\ [][Next]_vars

-----------------------------------------------------------------------------
\* Every hedged call returns, and the losing requests end too: none stays
\* blocked on a result that nobody will read.
CallAndLosersEnd == \A c \in Callers : at[c] = "timer" ~> at[c] = "returned" /\ flying[c] = <<0, 0>>
=============================================================================
