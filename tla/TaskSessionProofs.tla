------------------------ MODULE TaskSessionProofs ------------------------
(***************************************************************************)
(* What the request loop keeps for any number of requests and of project   *)
(* roots, checked by TLAPS.                                                *)
(***************************************************************************)
EXTENDS TaskSession, TLAPS

USE RootsAssumption DEF loop, task, reply, procs, Goto

---------------------------------------------------------------------------
(* The inductive invariant.                                                *)

\* The processes not closed yet are the one of the session and the one-shot.
Open(is) == IF is THEN 1 ELSE 0
Counted ==
    /\ started = closed + Open(gopls # "none") + Open(stage = "oneshot")
    /\ session # "open" => gopls = "none"
    /\ stage = "oneshot" => gopls = "none"
    /\ stage \in {"open", "ended"} => session # "open"

\* A request starts one gopls at most: where it may start one it has not.
OncePerRequest ==
    /\ started <= decoded
    /\ stage \in {"open", "check"} => started < decoded
    /\ stage \in {"parse", "gopls"} /\ gopls = "none" /\ goplsErr = "none" => started < decoded

\* Nothing is missing before the queries, and what is missing after is told.
Told ==
    /\ stage \in {"open", "check", "parse", "gopls", "oneshot"} => ~missing
    /\ stage \in {"endpoints", "emit"} /\ missing =>
          delta.diags # {} \/ delta.attr = "unavailable"

SessionInv == Counted /\ OncePerRequest /\ Told

---------------------------------------------------------------------------
(* Leaving the loop, from any stage outside a one-shot.                    *)

\* The types of what Leave changes.
LEMMA LeaveTypes ==
    ASSUME TypeOK, Counted, stage # "oneshot", NEW how \in {"ok", "error"}, Leave(how)
    PROVE  TypeOK'
<1>1. gopls # "none" => session = "open" /\ closed + 1 = started
    BY DEF Counted, Open, TypeOK
<1>2. closed' \in 0..started /\ session' \in {"none", "open", "closed"} /\ gopls' \in {"none", "live", "dead"}
    BY <1>1 DEF Leave, CloseTask, TypeOK
<1>3. QED
    BY <1>2 DEF Leave, TypeOK

\* It closes the gopls of the session.
LEMMA LeaveInv ==
    ASSUME TypeOK, SessionInv, stage # "oneshot", NEW how, Leave(how)
    PROVE  SessionInv'
<1>1. gopls' = "none" /\ session' # "open" /\ stage' = "ended" /\ UNCHANGED <<started, decoded>>
    BY DEF Leave, CloseTask, SessionInv, Counted
<1>2. closed' = closed + Open(gopls # "none")
    BY DEF Leave, CloseTask, SessionInv, Counted, Open, TypeOK
<1>3. QED
    BY <1>1, <1>2 DEF SessionInv, Counted, OncePerRequest, Told, Open, TypeOK

---------------------------------------------------------------------------
(* The types.                                                              *)

\* What a report leaves is a delta.
LEMMA ReportsTypes ==
    ASSUME delta \in Delta, NEW attr \in {"none", "enabled", "unavailable"},
           NEW diags \in SUBSET {"ERROR", "WARN"}, Reports(attr, diags)
    PROVE  delta' \in Delta
BY DEF Reports, Delta

\* Both ways of answering the queries leave a delta and say whether one is missing.
LEMMA AnswerTypes ==
    ASSUME TypeOK, NEW err \in {"none", "unavailable", "failed"},
           BatchEnds(TRUE) \/ GoplsUnavailable(err)
    PROVE  delta' \in Delta /\ missing' \in BOOLEAN
<1>1. CASE BatchEnds(TRUE)
    BY <1>1, ReportsTypes DEF BatchEnds, TypeOK
<1>2. CASE GoplsUnavailable(err)
    BY <1>2, ReportsTypes DEF GoplsUnavailable, TypeOK
<1>3. QED
    BY <1>1, <1>2

\* Initially nothing has been read.
LEMMA InitTypes == Init => TypeOK /\ SessionInv
<1> SUFFICES ASSUME Init PROVE TypeOK /\ SessionInv
    OBVIOUS
<1>1. Blank \in Delta
    BY DEF Blank, Delta
<1>2. TypeOK
    <2>1. missing \in BOOLEAN
        BY DEF Init
    <2>2. req \in Request
        BY DEF Init
    <2>3. QED
        BY <1>1, <2>1, <2>2 DEF Init, TypeOK
<1>3. SessionInv
    BY DEF Init, SessionInv, Counted, OncePerRequest, Told, Open
<1>4. QED
    BY <1>2, <1>3

\* Every step keeps the types; that the processes are at most one per request,
\* and one more, is what OncePerRequest is for.
LEMMA TypeStep == TypeOK /\ SessionInv /\ [Next]_vars => TypeOK'
<1> SUFFICES ASSUME TypeOK, SessionInv, [Next]_vars PROVE TypeOK'
    OBVIOUS
<1>1. ASSUME NEW r \in Request, Decode(r) PROVE TypeOK'
    <2>1. Blank \in Delta /\ decoded' \in 0..MaxRequests
        BY <1>1 DEF Blank, Delta, Decode, TypeOK
    <2>2. QED
        BY <1>1, <2>1 DEF Decode, TypeOK
<1>2. CASE InputEnds \/ SingleDone \/ (CheckRoot /\ WrongRoot)
    <2>1. stage # "oneshot" /\ Counted /\ \E how \in {"ok", "error"} : Leave(how)
        BY <1>2 DEF InputEnds, SingleDone, CheckRoot, SessionInv
    <2>2. QED
        BY <2>1, LeaveTypes
<1>3. CASE Emit
    <2>1. CASE Leave("error")
        BY <1>3, <2>1, LeaveTypes DEF Emit, SessionInv
    <2>2. CASE ~Leave("error")
        BY <1>3, <2>2 DEF Emit, TypeOK
    <2>3. QED
        BY <2>1, <2>2
<1>4. CASE OpenTaskSession
    <2>1. started' \in 0..(MaxRequests + 1) /\ closed' \in 0..started'
        BY <1>4 DEF OpenTaskSession, BadHandshake, OncePerRequest, SessionInv, TypeOK
    <2>2. req.root \in Roots \cup {NoRoot}
        BY DEF TypeOK, Request
    <2>3. \E live \in {"none", "live"}, err \in {"none", "unavailable", "failed"} : Opens(live, err)
        BY <1>4 DEF OpenTaskSession
    <2>4. UNCHANGED <<mode, status, decoded, req, delta, missing>> /\ stage' = "parse"
             /\ session' = "open" /\ taskRoot' \in Roots \cup {NoRoot}
             /\ gopls' \in {"none", "live", "dead"}
             /\ goplsErr' \in {"none", "unavailable", "failed"}
        BY <2>2, <2>3 DEF Opens
    <2>5. QED
        BY <2>1, <2>4 DEF TypeOK
<1>5. CASE CheckRoot /\ ~WrongRoot
    BY <1>5 DEF CheckRoot, TypeOK
<1>6. CASE LoadFails
    BY <1>6, ReportsTypes DEF LoadFails, TypeOK
<1>7. CASE Loads \/ SkipsGopls
    BY <1>7 DEF Loads, SkipsGopls, TypeOK
<1>8. CASE KnownBad \/ AskSession \/ OneShotMissing \/ OneShotNotStarted
    <2>1. delta' \in Delta /\ missing' \in BOOLEAN
        <3>1. \E err \in {"none", "unavailable", "failed"} : BatchEnds(TRUE) \/ GoplsUnavailable(err)
            BY <1>8 DEF KnownBad, AskSession, OneShotMissing, OneShotNotStarted, TypeOK
        <3>2. QED
            BY <3>1, AnswerTypes
    <2>2. QED
        BY <1>8, <2>1 DEF KnownBad, AskSession, OneShotMissing, OneShotNotStarted, TypeOK
<1>9. CASE OneShotOpens
    <2>1. started' \in 0..(MaxRequests + 1) /\ closed' \in 0..started'
        BY <1>9 DEF OneShotOpens, NoSessionGopls, OncePerRequest, SessionInv, TypeOK
    <2>2. QED
        BY <1>9, <2>1 DEF OneShotOpens, TypeOK
<1>10. CASE OneShotEnds
    <2>1. delta' \in Delta /\ missing' \in BOOLEAN
        BY <1>10, AnswerTypes DEF OneShotEnds
    <2>2. closed' \in 0..started'
        BY <1>10 DEF OneShotEnds, SessionInv, Counted, Open, TypeOK
    <2>3. QED
        BY <1>10, <2>1, <2>2 DEF OneShotEnds, TypeOK
<1>11. CASE Endpoints
    <2>1. [delta EXCEPT !.diags = @ \cup {"ERROR"}] \in Delta
        BY DEF TypeOK, Delta
    <2>2. QED
        BY <1>11, <2>1 DEF Endpoints, TypeOK
<1>12. CASE GoplsDies \/ UNCHANGED vars
    BY <1>12 DEF GoplsDies, vars, TypeOK
<1>13. QED
    BY <1>1, <1>2, <1>3, <1>4, <1>5, <1>6, <1>7, <1>8, <1>9, <1>10, <1>11, <1>12
       DEF Next, Terminating

---------------------------------------------------------------------------
(* The processes, and what a delta without answers says.                   *)

\* Every step keeps count of the processes: the only ones not closed are that
\* of the session and that of the one-shot, never both.
LEMMA CountStep == TypeOK /\ SessionInv /\ [Next]_vars => Counted' /\ OncePerRequest'
<1> SUFFICES ASSUME TypeOK, SessionInv, [Next]_vars PROVE Counted' /\ OncePerRequest'
    OBVIOUS
<1> USE DEF SessionInv, Counted, OncePerRequest, Open, TypeOK
<1>1. ASSUME NEW r \in Request, Decode(r) PROVE Counted' /\ OncePerRequest'
    BY <1>1 DEF Decode
<1>2. CASE InputEnds \/ SingleDone \/ (CheckRoot /\ WrongRoot)
    <2>1. stage # "oneshot" /\ \E how \in {"ok", "error"} : Leave(how)
        BY <1>2 DEF InputEnds, SingleDone, CheckRoot
    <2>2. QED
        BY <2>1, LeaveInv
<1>3. CASE Emit
    <2>1. CASE Leave("error")
        BY <1>3, <2>1, LeaveInv DEF Emit
    <2>2. CASE ~Leave("error")
        BY <1>3, <2>2 DEF Emit
    <2>3. QED
        BY <2>1, <2>2
<1>4. CASE OpenTaskSession
    BY <1>4 DEF OpenTaskSession, Opens, BadHandshake
<1>5. CASE CheckRoot /\ ~WrongRoot
    BY <1>5 DEF CheckRoot
<1>6. CASE LoadFails \/ Loads \/ SkipsGopls
    BY <1>6 DEF LoadFails, Loads, SkipsGopls
<1>7. CASE KnownBad \/ AskSession
    BY <1>7 DEF KnownBad, AskSession
<1>8. CASE OneShotMissing \/ OneShotNotStarted
    BY <1>8 DEF OneShotMissing, OneShotNotStarted, NoSessionGopls
<1>9. CASE OneShotOpens \/ OneShotEnds
    <2>1. CASE OneShotOpens
        BY <2>1 DEF OneShotOpens, NoSessionGopls
    <2>2. CASE OneShotEnds
        <3>1. gopls' = "none" /\ closed' = closed + 1 /\ started = closed + 1
              /\ stage' = "endpoints" /\ UNCHANGED <<started, decoded, session>>
            BY <2>2 DEF OneShotEnds
        <3>2. QED
            BY <3>1
    <2>3. QED
        BY <1>9, <2>1, <2>2
<1>10. CASE Endpoints \/ GoplsDies \/ UNCHANGED vars
    BY <1>10 DEF Endpoints, GoplsDies, vars
<1>11. QED
    BY <1>1, <1>2, <1>3, <1>4, <1>5, <1>6, <1>7, <1>8, <1>9, <1>10 DEF Next, Terminating

\* A way of answering the queries that leaves one unanswered says so.
LEMMA AnswersTell ==
    ASSUME TypeOK, ~missing, NEW err \in {"unavailable", "failed"},
           BatchEnds(TRUE) \/ GoplsUnavailable(err)
    PROVE  missing' => delta'.diags # {} \/ delta'.attr = "unavailable"
<1>1. \A attr, diags : Reports(attr, diags) => /\ delta'.attr = attr
                                              /\ delta'.diags = delta.diags \cup diags
    BY DEF Reports, TypeOK, Delta
<1>2. CASE BatchEnds(TRUE)
    <2>1. missing' = missing \/ Reports("enabled", {"WARN"})
        BY <1>2 DEF BatchEnds
    <2>2. QED
        BY <1>1, <2>1
<1>3. CASE GoplsUnavailable(err)
    <2>1. Reports("none", {"WARN"}) \/ \E diags : Reports("unavailable", diags)
        BY <1>3 DEF GoplsUnavailable
    <2>2. QED
        BY <1>1, <2>1
<1>4. QED
    BY <1>2, <1>3

\* Every step keeps what the delta says of the queries without answer.
LEMMA ToldStep == TypeOK /\ SessionInv /\ [Next]_vars => Told'
<1> SUFFICES ASSUME TypeOK, SessionInv, [Next]_vars PROVE Told'
    OBVIOUS
<1> USE DEF SessionInv, Told
<1>1. ASSUME NEW r \in Request, Decode(r) PROVE Told'
    BY <1>1 DEF Decode
<1>2. CASE InputEnds \/ Emit \/ SingleDone
    BY <1>2 DEF InputEnds, Emit, SingleDone, Leave
<1>3. CASE OpenTaskSession \/ CheckRoot
    BY <1>3 DEF OpenTaskSession, Opens, CheckRoot, Leave
<1>4. CASE LoadFails \/ Loads \/ SkipsGopls \/ OneShotOpens
    BY <1>4 DEF LoadFails, Loads, SkipsGopls, OneShotOpens, NoSessionGopls
<1>5. CASE KnownBad \/ AskSession \/ OneShotMissing \/ OneShotNotStarted \/ OneShotEnds
    <2>1. /\ ~missing /\ stage' = "endpoints"
          /\ \E err \in {"unavailable", "failed"} : BatchEnds(TRUE) \/ GoplsUnavailable(err)
        BY <1>5 DEF KnownBad, AskSession, OneShotMissing, OneShotNotStarted, OneShotEnds,
                    NoSessionGopls, TypeOK
    <2>2. QED
        BY <2>1, AnswersTell
<1>6. CASE Endpoints
    BY <1>6 DEF Endpoints, TypeOK, Delta
<1>7. CASE GoplsDies \/ UNCHANGED vars
    BY <1>7 DEF GoplsDies, vars
<1>8. QED
    BY <1>1, <1>2, <1>3, <1>4, <1>5, <1>6, <1>7 DEF Next, Terminating

---------------------------------------------------------------------------
(* The theorems.                                                           *)

\* The loop keeps its types, its count of processes and what it has to tell,
\* for any number of requests, roots and deaths of gopls.
THEOREM SessionSafe == Spec => [](TypeOK /\ SessionInv)
<1>1. TypeOK /\ SessionInv /\ [Next]_vars => (TypeOK /\ SessionInv)'
    BY TypeStep, CountStep, ToldStep DEF SessionInv
<1>2. QED
    BY InitTypes, <1>1, PTL DEF Spec

\* The state of main and of its task session has the types of the code.
THEOREM TypeCorrect == Spec => []TypeOK
BY SessionSafe, PTL

\* When the parser ends, well or with an error, close() has been called on every
\* gopls it started.
THEOREM EveryGoplsIsClosed == Spec => []EveryGoplsClosed
<1>1. TypeOK /\ SessionInv => EveryGoplsClosed
    BY DEF TypeOK, SessionInv, Counted, Open, EveryGoplsClosed
<1>2. QED
    BY SessionSafe, <1>1, PTL

\* No two gopls are open at once.
THEOREM OneGoplsAtATime == Spec => []OneOpenGopls
<1>1. TypeOK /\ SessionInv => OneOpenGopls
    BY DEF TypeOK, SessionInv, Counted, Open, OneOpenGopls
<1>2. QED
    BY SessionSafe, <1>1, PTL

\* A delta that lacks the answer to a query says so, however many requests ago
\* the failure was.
THEOREM LossIsTold == Spec => []NoSilentLoss
<1>1. SessionInv => NoSilentLoss
    BY DEF SessionInv, Told, NoSilentLoss
<1>2. QED
    BY SessionSafe, <1>1, PTL
=============================================================================
