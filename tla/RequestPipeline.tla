--------------------------- MODULE RequestPipeline ---------------------------
(***************************************************************************)
(* A request on its way through the server: the bridges that put the       *)
(* unified middleware chain around an HTTP or a gRPC handler               *)
(* (pkg/middleware), the pooled Transporter they share with it             *)
(* (pkg/transport), the chain the options assemble (options/compose.go,    *)
(* middleware/matcher) and the handler of a Method (server/service.go).    *)
(*                                                                         *)
(* Two layouts exist.  "flat": every middleware has a bridge of its own.   *)
(* "matched": one bridge around a Matcher, which chains the middlewares of *)
(* the operation itself.  gin's Next runs all remaining handlers in a      *)
(* loop: a handler that returns without Abort does not stop the rest.      *)
(*                                                                         *)
(* frames holds the middlewares whose next is running, innermost last.     *)
(* The value of a status is abstracted to "ok", "refused", "failed" and    *)
(* "panic" (a recovered panic, 500 or Unknown); "" is a status not set.    *)
(* The handler may panic; that a middleware does so itself is left out.    *)
(***************************************************************************)
EXTENDS Naturals, Sequences, SequencesExt, FiniteSets

CONSTANTS
    Requests,
    Kinds,          \* "http", "grpc" (unary and stream)
    Layouts,        \* "flat", "matched"
    RouteChain      \* what the Matcher adds for the operation

VARIABLES
    layout,
    kind,           \* of each request
    at,             \* "new", "chain", "unwind", "panic", "late", "done"
    i,              \* the next middleware of the chain to enter
    frames,
    err,            \* the error on its way out: "ok" for nil
    written,        \* http: the status of the response, "" before it is written
    pool,           \* transporterPool: the grpcCodes left in released transporters
    tr,             \* the transporters a request holds, the latest last
    refused,        \* history: a middleware refused the request
    handled,        \* history: the business handler ran
    span, metric,   \* what tracing and metrics recorded, "" for nothing
    active          \* http.server.active_requests

requestVars == <<at, i, frames, err, written, refused, handled>>
objectVars == <<pool, tr>>
recordVars == <<span, metric, active>>
vars == <<layout, kind, requestVars, objectVars, recordVars>>

\* The chain, outermost first.  reqval stands for every middleware that may
\* answer on its own: request validation, RateLimit, Auth.
BuildMiddleware == <<"recovery", "tracing", "logging", "metrics", "timeout", "reqval">>
Chain == IF layout = "flat" THEN BuildMiddleware ELSE BuildMiddleware \o RouteChain
Refusing == {"reqval", "ratelimit"}

Init ==
    /\ layout \in Layouts
    /\ kind \in [Requests -> Kinds]
    /\ at = [r \in Requests |-> "new"] /\ i = [r \in Requests |-> 1]
    /\ frames = [r \in Requests |-> << >>]
    /\ err = [r \in Requests |-> "ok"] /\ written = [r \in Requests |-> ""]
    /\ pool = {} /\ tr = [r \in Requests |-> << >>]
    /\ refused = {} /\ handled = {}
    /\ span = [r \in Requests |-> ""] /\ metric = [r \in Requests |-> ""]
    /\ active = 0

http(r) == kind[r] = "http"
PerMiddleware(r) == ~http(r) /\ layout = "flat"   \* a transporter per interceptor
Top(r) == Last(tr[r])
Goto(r, l) == at' = [at EXCEPT ![r] = l]

Held(r, s, c) == [tr[r] EXCEPT ![Len(tr[r])] = [statusCode |-> s, grpcCode |-> c]]

\* sync.Pool hands out a new transporter or any released one, and forgets
\* released ones when it likes: only the codes they carry matter.
NewTransporter(r) ==
    \E c \in pool \cup {"ok"} :
       tr' = [tr EXCEPT ![r] = Append(@, [statusCode |-> "", grpcCode |-> c])]

\* Release clears every field but grpcCode.
Release(r, code) ==
    /\ pool' = pool \cup {code}
    /\ tr' = [tr EXCEPT ![r] = Front(@)]

\* RenderError: the first status written stays.
Rendered(r, s) == written' = [written EXCEPT ![r] = IF @ = "" THEN s ELSE @]

------------------------------------------------------------------------------
(* Inwards.                                                                *)

\* The outermost GinHandler, or the interceptor around the Matcher.
Begin(r) ==
    /\ at[r] = "new" /\ Goto(r, "chain")
    /\ IF PerMiddleware(r) THEN UNCHANGED tr ELSE NewTransporter(r)
    /\ UNCHANGED <<layout, kind, i, frames, err, written, refused, handled, pool, recordVars>>

\* A middleware calls next.
Enter(r) ==
    /\ at[r] = "chain" /\ i[r] <= Len(Chain)
    /\ IF PerMiddleware(r) THEN NewTransporter(r) ELSE UNCHANGED tr
    /\ frames' = [frames EXCEPT ![r] = Append(@, Chain[i[r]])]
    /\ i' = [i EXCEPT ![r] = @ + 1]
    /\ active' = IF http(r) /\ Chain[i[r]] = "metrics" THEN active + 1 ELSE active
    /\ UNCHANGED <<layout, kind, at, err, written, refused, handled, pool, span, metric>>

\* A middleware returns an error without calling next.  A GinHandler of its own
\* renders the error and returns to gin, whose loop goes on with the next handler.
Refuse(r) ==
    /\ at[r] = "chain" /\ i[r] <= Len(Chain) /\ Chain[i[r]] \in Refusing
    /\ refused' = refused \cup {r}
    /\ IF http(r) /\ layout = "flat"
         THEN /\ Rendered(r, "refused")
              /\ i' = [i EXCEPT ![r] = @ + 1]
              /\ UNCHANGED <<at, err>>
         ELSE /\ err' = [err EXCEPT ![r] = "refused"] /\ Goto(r, "unwind")
              /\ UNCHANGED <<i, written>>
    /\ UNCHANGED <<layout, kind, frames, handled, objectVars, recordVars>>

\* The error the chain sees for a written status: none below 400.
httpStatusError(s) == IF s \in {"refused", "failed", "panic"} THEN s ELSE "ok"

\* Method.httpHandler, or the gRPC handler, with what it ends with.  Binding and
\* validation may fail before the business handler is called.  Whatever bridge is
\* innermost records the outcome in its transporter as the handler returns.
Run(r, out, called) ==
    /\ handled' = IF called THEN handled \cup {r} ELSE handled
    /\ called \/ out = "failed"
    /\ IF http(r)
         THEN IF out = "panic" THEN UNCHANGED written ELSE Rendered(r, out)
         ELSE UNCHANGED written
    /\ err' = [err EXCEPT ![r] = IF http(r) /\ out # "panic" THEN httpStatusError(written'[r]) ELSE out]
    /\ UNCHANGED <<layout, kind, i, frames, refused, pool, recordVars>>

Handler(r, out, called) ==
    /\ at[r] = "chain" /\ i[r] = Len(Chain) + 1
    /\ Run(r, out, called)
    /\ Goto(r, IF out = "panic" THEN "panic" ELSE "unwind")
    /\ IF out = "panic" \/ layout = "flat" THEN UNCHANGED tr
       ELSE tr' = [tr EXCEPT ![r] = IF http(r) THEN Held(r, written'[r], Top(r).grpcCode)
                                               ELSE Held(r, "", out)]

------------------------------------------------------------------------------
(* Outwards.                                                               *)

\* rpcStatusCode: the transport's code unless it reads as success.
rpcStatusCode(c, e) == IF c # "ok" THEN c ELSE e

\* What tracing and metrics make of the request, given its transporter's fields.
Outcome(r, s, c) == IF http(r) THEN s ELSE rpcStatusCode(c, err[r])

\* Flat only: a bridge's next records the outcome before its middleware goes on.
StatusNow(r) == IF http(r) /\ layout = "flat" THEN written[r] ELSE Top(r).statusCode

\* Faulty: only a failure is recorded.
CodeNowFailuresOnly(r) == IF PerMiddleware(r) /\ err[r] # "ok" THEN err[r] ELSE Top(r).grpcCode
CodeNow(r) == IF PerMiddleware(r) THEN err[r] ELSE Top(r).grpcCode

Record(r, m) ==
    /\ span' = IF m = "tracing" THEN [span EXCEPT ![r] = Outcome(r, StatusNow(r), CodeNow(r))] ELSE span
    /\ metric' = IF m = "metrics" THEN [metric EXCEPT ![r] = Outcome(r, StatusNow(r), CodeNow(r))] ELSE metric

\* next has returned to the innermost frame; it does the rest of its work and
\* returns.  A frame with a transporter of its own releases it.
Unwind(r) ==
    /\ at[r] = "unwind" /\ frames[r] # << >>
    /\ LET m == Last(frames[r]) IN
       /\ Record(r, m)
       /\ active' = IF http(r) /\ m = "metrics" THEN active - 1 ELSE active
    /\ frames' = [frames EXCEPT ![r] = Front(@)]
    /\ IF PerMiddleware(r)
         THEN Release(r, CodeNow(r))
         ELSE /\ tr' = [tr EXCEPT ![r] = Held(r, StatusNow(r), CodeNow(r))]
              /\ UNCHANGED pool
    /\ UNCHANGED <<layout, kind, at, i, err, written, refused, handled>>

\* Faulty: the in-flight count is taken back after the handler, not deferred.
UnwindPanicLeaks(r) ==
    /\ at[r] = "panic"
    /\ IF Last(frames[r]) = "recovery"
         THEN Goto(r, "unwind") /\ err' = [err EXCEPT ![r] = "panic"]
         ELSE UNCHANGED <<at, err>>
    /\ frames' = [frames EXCEPT ![r] = Front(@)]
    /\ IF PerMiddleware(r) THEN Release(r, Top(r).grpcCode) ELSE UNCHANGED objectVars
    /\ UNCHANGED <<layout, kind, i, written, refused, handled, recordVars>>

\* A panic passes a frame: only deferred calls run.  recovery turns it into an
\* error.
UnwindPanic(r) ==
    /\ at[r] = "panic"
    /\ IF Last(frames[r]) = "recovery"
         THEN Goto(r, "unwind") /\ err' = [err EXCEPT ![r] = "panic"]
         ELSE UNCHANGED <<at, err>>
    /\ active' = IF http(r) /\ Last(frames[r]) = "metrics" THEN active - 1 ELSE active
    /\ frames' = [frames EXCEPT ![r] = Front(@)]
    /\ IF PerMiddleware(r) THEN Release(r, Top(r).grpcCode) ELSE UNCHANGED objectVars
    /\ UNCHANGED <<layout, kind, i, written, refused, handled, span, metric>>

\* The outermost bridge: an error nobody wrote is rendered, the transporter goes
\* back.  If the only GinHandler refused, gin goes on with the route's handler.
Bridge(r) ==
    /\ at[r] = "unwind" /\ frames[r] = << >>
    /\ IF http(r) /\ err[r] # "ok" THEN Rendered(r, err[r]) ELSE UNCHANGED written
    /\ IF PerMiddleware(r) THEN UNCHANGED objectVars ELSE Release(r, Top(r).grpcCode)
    /\ Goto(r, IF http(r) /\ layout = "matched" /\ r \in refused THEN "late" ELSE "done")
    /\ UNCHANGED <<layout, kind, i, frames, err, refused, handled, recordVars>>

HandlerLate(r, out, called) ==
    /\ at[r] = "late"
    /\ Run(r, out, called) /\ Goto(r, "done")
    /\ UNCHANGED tr

Next ==
    \E r \in Requests :
       \/ Begin(r) \/ Enter(r) \/ Refuse(r) \/ Unwind(r) \/ UnwindPanic(r) \/ Bridge(r)
       \/ \E out \in {"ok", "failed", "panic"}, called \in BOOLEAN :
             Handler(r, out, called) \/ HandlerLate(r, out, called)

Spec == Init /\ [][Next]_vars

------------------------------------------------------------------------------

(***************************************************************************)
(* metrics.go:87: the in-flight count comes down whatever ends a request,  *)
(* panics included: it is always the number of HTTP requests inside the    *)
(* metrics middleware.  And a span and a metric, recorded at different     *)
(* depths of the chain and from transporters used by other requests before *)
(* (semconv.go:21, "they must agree on what the request was"), agree with  *)
(* each other and with the answer the caller got.  Two cases are left to   *)
(* EveryRequestAccounted: a panic keeps both from recording anything, and  *)
(* the matched layout records nothing of its own for a refusal.            *)
(***************************************************************************)
RecordsAgree ==
    /\ active = Cardinality({r \in Requests : http(r) /\ "metrics" \in Range(frames[r])})
    /\ \A r \in Requests : at[r] = "done" =>
          LET answer == IF http(r) THEN written[r] ELSE err[r] IN
          \/ span[r] = answer /\ metric[r] = answer
          \/ err[r] = "panic" /\ span[r] = "" /\ metric[r] = ""
          \/ layout = "matched" /\ r \in refused

(***************************************************************************)
(* What the documents say of every request, refused and panicking ones     *)
(* included: it is recorded with its response status (metrics.go:26, :45), *)
(* a rejection too (compose.go:136), and what a middleware drops is not    *)
(* handled (ratelimit.go:14).  (Violated: in the matched layout nothing    *)
(* sets the status of an HTTP refusal and an RPC's may be the code of the  *)
(* transporter's last request; a panic is not recorded; and gin goes on    *)
(* with the handlers after a refusal.)                                     *)
(***************************************************************************)
EveryRequestAccounted ==
    \A r \in Requests : at[r] = "done" =>
       /\ {span[r], metric[r]} = {IF http(r) THEN written[r] ELSE err[r]}
       /\ r \notin refused \cap handled
==============================================================================
