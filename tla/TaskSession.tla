---------------------------- MODULE TaskSession ----------------------------
(***************************************************************************)
(* The parser process and its task session: the request loop of            *)
(* cmd/parser-go/main.go, TaskSession of internal/parse/parse.go, and the  *)
(* decisions of internal/parse/gopls_implements.go on where implementation *)
(* answers come from (the session's gopls, a one-shot gopls, or nowhere)   *)
(* and on what the delta says when there are none.                         *)
(*                                                                         *)
(* A gopls process is counted when it starts and when close() is called on *)
(* it; that a closed one then stops is LspClient's CloseStopsGopls, and    *)
(* that a batch returns is BatchQueries' BatchReturns.                     *)
(***************************************************************************)
EXTENDS Integers, FiniteSets

CONSTANTS
    Roots,         \* project roots a request may name
    NoRoot,        \* a request that names none
    MaxRequests    \* bound: requests of a stream

ASSUME RootsAssumption == NoRoot \notin Roots /\ MaxRequests \in Nat \ {0}

VARIABLES
    mode,        \* "stream" (--stdio-stream) or "single" (--stdio)
    stage,       \* where the parser is
    status,      \* how it ended
    decoded,     \* requests read so far
    req,         \* the request in hand
    session,     \* "none", "open" or "closed"
    taskRoot,    \* TaskSession.root
    gopls,       \* TaskSession.gopls: "none", "live" or, its process gone, "dead"
    goplsErr,    \* TaskSession.goplsErr: "none", "unavailable" or "failed"
    delta,       \* the delta being built, then the last one sent
    missing,     \* an implementation query of it got no answer
    started, closed    \* gopls processes

loop  == <<mode, status, decoded, req>>
task  == <<session, taskRoot, gopls, goplsErr>>
reply == <<delta, missing>>
procs == <<started, closed>>
vars  == <<mode, stage, status, decoded, req, session, taskRoot, gopls, goplsErr,
           delta, missing, started, closed>>

\* files: sourceFiles is not empty; tool: the command it names is installed.
Request == [root : Roots \cup {NoRoot}, files : BOOLEAN, enabled : BOOLEAN,
            required : BOOLEAN, tool : BOOLEAN]
Delta   == [attr : {"none", "enabled", "unavailable"}, diags : SUBSET {"ERROR", "WARN"}]
Blank   == [attr |-> "none", diags |-> {}]

Init ==
    /\ mode \in {"stream", "single"}
    /\ stage = "read" /\ status = "running" /\ decoded = 0
    /\ req \in {r \in Request : r.root = NoRoot /\ ~(r.files \/ r.enabled \/ r.required \/ r.tool)}
    /\ session = "none" /\ taskRoot = NoRoot /\ gopls = "none" /\ goplsErr = "none"
    /\ delta = Blank /\ missing = FALSE
    /\ started = 0 /\ closed = 0

Goto(next) == stage' = next

---------------------------------------------------------------------------
(* The loop: decode, open the session once, parse, encode.                 *)

Decode(r) ==
    /\ stage = "read" /\ decoded < MaxRequests
    /\ req' = r /\ decoded' = decoded + 1
    /\ delta' = Blank /\ missing' = FALSE
    /\ Goto(IF mode = "single" THEN "parse" ELSE IF session = "none" THEN "open" ELSE "check")
    /\ UNCHANGED <<mode, status, task, procs>>

\* Fault: close() is called whether or not there is a gopls.
CloseTask_Always == session' = "closed" /\ gopls' = "none" /\ closed' = closed + 1

\* TaskSession.Close.
CloseTask ==
    /\ session' = "closed" /\ gopls' = "none"
    /\ closed' = IF gopls = "none" THEN closed ELSE closed + 1

\* Leaving the loop, with or without an error, runs the deferred close.
Leave(how) ==
    /\ Goto("ended") /\ status' = how
    /\ IF session = "open" THEN CloseTask ELSE UNCHANGED <<session, gopls, closed>>
    /\ UNCHANGED <<mode, decoded, req, taskRoot, goplsErr, reply, started>>

\* The end of input ends a stream well; anything else that is no request is an error.
InputEnds ==
    /\ stage = "read"
    /\ Leave("error") \/ (mode = "stream" /\ Leave("ok"))

Emit ==
    /\ stage = "emit"
    /\ \/ Goto(IF mode = "single" THEN "sent" ELSE "read") /\ UNCHANGED <<loop, task, reply, procs>>
       \/ Leave("error")

SingleDone == stage = "sent" /\ Leave("ok")

---------------------------------------------------------------------------
(* OpenTaskSession and TaskSession.Parse.                                  *)

Opens(live, err) ==
    /\ session' = "open" /\ taskRoot' = req.root
    /\ gopls' = live /\ goplsErr' = err
    /\ Goto("parse")
    /\ UNCHANGED <<loop, reply>>

\* Fault: a handshake that fails leaves its process alone.
BadHandshake_Leaks == started' = started + 1 /\ UNCHANGED closed

\* Client.Open closes the process whose handshake fails.
BadHandshake == started' = started + 1 /\ closed' = closed + 1

\* A first request that is full, or disables gopls, opens a session that will
\* have no gopls, and no error either.
OpenTaskSession ==
    /\ stage = "open" /\ req.root # NoRoot
    /\ IF ~(req.files /\ req.enabled)
       THEN Opens("none", "none") /\ UNCHANGED procs
       ELSE \/ ~req.tool /\ Opens("none", "unavailable") /\ UNCHANGED procs
            \/ req.tool /\ Opens("live", "none") /\ started' = started + 1 /\ UNCHANGED closed
            \/ req.tool /\ Opens("none", "failed") /\ (BadHandshake \/ UNCHANGED procs)

WrongRoot == req.root = NoRoot \/ (session = "open" /\ req.root # taskRoot)

\* A request with no root, or with another root than the task's, ends the stream.
CheckRoot ==
    /\ stage \in {"open", "check"}
    /\ \/ WrongRoot /\ Leave("error")
       \/ ~WrongRoot /\ stage = "check" /\ Goto("parse") /\ UNCHANGED <<loop, task, reply, procs>>

---------------------------------------------------------------------------
(* parse(): load, the local phases, the implementation queries, endpoints. *)

Reports(attr, diags) == delta' = [delta EXCEPT !.attr = attr, !.diags = @ \cup diags]

\* A delta without root, or whose packages do not load, is an error diagnostic.
LoadFails ==
    /\ stage = "parse"
    /\ Reports("none", {"ERROR"})
    /\ Goto("emit")
    /\ UNCHANGED <<loop, task, missing, procs>>

Loads ==
    /\ stage = "parse" /\ req.root # NoRoot
    /\ Goto("gopls")
    /\ UNCHANGED <<loop, task, reply, procs>>

Asks == req.files /\ req.enabled

SkipsGopls ==
    /\ stage = "gopls" /\ ~Asks
    /\ Goto("endpoints")
    /\ UNCHANGED <<loop, task, reply, procs>>

\* Fault: only a missing executable is worth a word.
GoplsUnavailable_Quiet(err) ==
    /\ missing' = TRUE
    /\ IF err = "unavailable"
       THEN Reports("unavailable", IF req.required THEN {"ERROR"} ELSE {})
       ELSE UNCHANGED delta

\* handleGoplsUnavailable.
GoplsUnavailable(err) ==
    /\ missing' = TRUE
    /\ IF err = "unavailable"
       THEN Reports("unavailable", IF req.required THEN {"ERROR"} ELSE {})
       ELSE Reports("none", {"WARN"})

\* The batch answers every query, or some or all of them fail, each with a warning.
BatchEnds(mayAnswer) ==
    \/ mayAnswer /\ Reports("enabled", {}) /\ UNCHANGED missing
    \/ Reports("enabled", {"WARN"}) /\ missing' = TRUE

KnownBad ==
    /\ stage = "gopls" /\ Asks /\ goplsErr # "none"
    /\ GoplsUnavailable(goplsErr)
    /\ Goto("endpoints")
    /\ UNCHANGED <<loop, task, procs>>

\* A dead gopls answers nothing, but there may be nothing to ask.
AskSession ==
    /\ stage = "gopls" /\ Asks /\ goplsErr = "none" /\ gopls # "none"
    /\ BatchEnds(TRUE)
    /\ Goto("endpoints")
    /\ UNCHANGED <<loop, task, procs>>

\* Fault: the one-shot path is tried whether or not the session has a gopls.
NoSessionGopls_Ignored == stage = "gopls" /\ Asks /\ goplsErr = "none"

\* Without a session, or in one opened without gopls, each request looks again.
NoSessionGopls == stage = "gopls" /\ Asks /\ goplsErr = "none" /\ gopls = "none"

OneShotMissing ==
    /\ NoSessionGopls /\ ~req.tool
    /\ GoplsUnavailable("unavailable")
    /\ Goto("endpoints")
    /\ UNCHANGED <<loop, task, procs>>

\* No query, or no process that can be started: nothing to close.
OneShotNotStarted ==
    /\ NoSessionGopls /\ req.tool
    /\ BatchEnds(TRUE)
    /\ Goto("endpoints")
    /\ UNCHANGED <<loop, task, procs>>

OneShotOpens ==
    /\ NoSessionGopls /\ req.tool
    /\ started' = started + 1
    /\ Goto("oneshot")
    /\ UNCHANGED <<loop, task, reply, closed>>

\* Its deferred close runs after the batch and after a failed handshake alike.
OneShotEnds ==
    /\ stage = "oneshot"
    /\ BatchEnds(TRUE)
    /\ closed' = closed + 1
    /\ Goto("endpoints")
    /\ UNCHANGED <<loop, task, started>>

\* Endpoint rules that fail add an error and nothing else.
Endpoints ==
    /\ stage = "endpoints"
    /\ delta' \in {delta, [delta EXCEPT !.diags = @ \cup {"ERROR"}]}
    /\ Goto("emit")
    /\ UNCHANGED <<loop, task, missing, procs>>

\* External: the process of the session dies between or during requests.
GoplsDies ==
    /\ gopls = "live"
    /\ gopls' = "dead"
    /\ UNCHANGED <<stage, loop, session, taskRoot, goplsErr, reply, procs>>

Terminating == stage = "ended" /\ UNCHANGED vars

Next ==
    \/ \E r \in Request : Decode(r)
    \/ InputEnds \/ Emit \/ SingleDone
    \/ OpenTaskSession \/ CheckRoot
    \/ LoadFails \/ Loads \/ SkipsGopls \/ KnownBad \/ AskSession
    \/ OneShotMissing \/ OneShotNotStarted \/ OneShotOpens \/ OneShotEnds
    \/ Endpoints \/ GoplsDies \/ Terminating

Spec == Init /\ [][Next]_vars

---------------------------------------------------------------------------
TypeOK ==
    /\ mode \in {"stream", "single"}
    /\ stage \in {"read", "open", "check", "parse", "gopls", "oneshot", "endpoints",
                  "emit", "sent", "ended"}
    /\ status \in {"running", "ok", "error"}
    /\ decoded \in 0..MaxRequests
    /\ req \in Request
    /\ session \in {"none", "open", "closed"} /\ taskRoot \in Roots \cup {NoRoot}
    /\ gopls \in {"none", "live", "dead"}
    /\ goplsErr \in {"none", "unavailable", "failed"}
    /\ delta \in Delta /\ missing \in BOOLEAN
    /\ started \in 0..(MaxRequests + 1) /\ closed \in 0..started

\* close() has been called on every gopls the parser started by the time it
\* ends: by the session, by the one-shot path, after a failed handshake, and
\* also when a request or the encoder ends the stream with an error.
EveryGoplsClosed == stage = "ended" => closed = started

\* At most one gopls is open at any time: the one-shot path never runs beside
\* the process of the session.
OneOpenGopls == started - closed <= 1

\* The engine can tell a delta whose implementation relations are complete from
\* one whose are not: an unanswered query leaves a diagnostic or the attribute
\* "unavailable" behind, on every path and however old the failure is.
NoSilentLoss ==
    stage = "emit" /\ missing => delta.diags # {} \/ delta.attr = "unavailable"
=============================================================================
