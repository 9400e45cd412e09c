--------------------------- MODULE BatchQueries ---------------------------
(***************************************************************************)
(* Session.Implementations and Session.Close (internal/gopls/client.go):   *)
(* a batch of positions is opened, its first query runs alone, and a pool  *)
(* of goroutines fed by an unbuffered channel runs the rest.  Each query   *)
(* is a call of the connection, of which this module assumes only what     *)
(* RpcContract promises (LspClient implements it).                         *)
(*                                                                         *)
(* Session.mu is not a variable: TaskSession, its only user, makes one     *)
(* call after another, so the mutex is never contended.                    *)
(***************************************************************************)
EXTENDS Integers, FiniteSets

CONSTANTS
    Workers,      \* the goroutines a batch may start
    Main,         \* the goroutine that runs the batch
    NoOne,
    MaxSize,      \* bound: positions in a batch
    Wanted,       \* values of the option goplsConcurrency
    MaxDocs,      \* bound: documents a batch has to open
    MaxBatches    \* bound: batches of a session

Actors == Workers \cup {Main}

ASSUME PoolAssumption ==
    /\ Main \notin Workers /\ NoOne \notin Actors
    /\ IsFiniteSet(Workers)
    /\ MaxSize \in Nat /\ MaxDocs \in Nat /\ MaxBatches \in Nat
    /\ Wanted \subseteq Int

VARIABLES
    call, answer, down,    \* the connection, as its callers see it
    phase,                 \* where Implementations, or Close, is
    size, wanted, docs,    \* the batch: positions, concurrency, documents to open
    next,                  \* the next index to send to the pool
    closedJobs,            \* close(jobs) has happened
    at,                    \* what each actor is doing
    job,                   \* the index each actor has in hand
    results,
    batches                \* batches still allowed

Rpc == INSTANCE RpcContract WITH Callers <- Actors, Nobody <- NoOne

rpc   == <<call, answer, down>>
batch == <<size, wanted, batches>>
pool  == <<next, closedJobs, at, job, results>>
vars  == <<call, answer, down, phase, size, wanted, docs, next, closedJobs,
           at, job, results, batches>>

Indexes == 1..MaxSize
\* "of" is the index whose position was asked; the code's zero value is "zero".
Zero == [kind |-> "zero", of |-> 0]
QueryResult == [kind : {"zero", "ok", "error"}, of : 0..MaxSize]

Init ==
    /\ Rpc!CInit
    /\ phase = "idle"
    /\ size = 0 /\ wanted = 1 /\ docs = 0
    /\ next = 1 /\ closedJobs = FALSE
    /\ at = [a \in Actors |-> "off"] /\ job = [a \in Actors |-> 0]
    /\ results = [i \in Indexes |-> Zero]
    /\ batches = MaxBatches

---------------------------------------------------------------------------
(* The batch as the calling goroutine sees it.                             *)

\* An empty batch returns at once.
BeginBatch(n, c, d) ==
    /\ phase = "idle" /\ batches > 0
    /\ phase' = IF n = 0 THEN "returned" ELSE "open"
    /\ size' = n /\ wanted' = c /\ docs' = d
    /\ next' = 1 /\ closedJobs' = FALSE
    /\ results' = [i \in Indexes |-> Zero]
    /\ batches' = batches - 1
    /\ UNCHANGED <<rpc, at, job>>

\* openFiles: one notification after another, the first failure ends the batch.
OpenDoc ==
    /\ phase = "open" /\ docs > 0
    /\ Rpc!Begin(Main, "notice")
    /\ phase' = "opening"
    /\ UNCHANGED <<batch, docs, pool>>

DocOpened ==
    /\ phase = "opening" /\ call[Main] = "none"
    /\ IF answer[Main].kind = "sent"
       THEN phase' = "open" /\ docs' = docs - 1
       ELSE phase' = "failed" /\ UNCHANGED docs
    /\ UNCHANGED <<rpc, batch, pool>>

Takes(a, index) ==
    /\ at' = [at EXCEPT ![a] = "ask"]
    /\ job' = [job EXCEPT ![a] = index]

FirstQuery ==
    /\ phase = "open" /\ docs = 0
    /\ phase' = "first"
    /\ Takes(Main, 1) /\ next' = 2
    /\ UNCHANGED <<rpc, batch, docs, closedJobs, results>>

\* Fault: the concurrency of the request is used as it comes.
Clamp_None(c, n) == IF c > n - 1 THEN n - 1 ELSE c

Clamp(c, n) == IF c < 1 THEN 1 ELSE IF c > n - 1 THEN n - 1 ELSE c

\* Fault: the pool starts while the first query is in flight.
SpawnPool_AtOnce ==
    /\ phase = "first"
    /\ IF size = 1
       THEN phase' = "returned" /\ UNCHANGED at
       ELSE /\ phase' = "send"
            /\ \E S \in SUBSET Workers :
                  /\ Cardinality(S) = Clamp(wanted, size)
                  /\ at' = [a \in Actors |-> IF a \in S THEN "range" ELSE at[a]]
    /\ UNCHANGED <<rpc, batch, docs, next, closedJobs, job, results>>

SpawnPool ==
    /\ phase = "first" /\ at[Main] = "off"
    /\ IF size = 1
       THEN phase' = "returned" /\ UNCHANGED at
       ELSE /\ phase' = "send"
            /\ \E S \in SUBSET Workers :
                  /\ Cardinality(S) = Clamp(wanted, size)
                  /\ at' = [a \in Actors |-> IF a \in S THEN "range" ELSE "off"]
    /\ UNCHANGED <<rpc, batch, docs, next, closedJobs, job, results>>

\* Fault: one index too many is sent.
SendJob_PastEnd ==
    /\ phase = "send" /\ next <= size + 1
    /\ \E w \in Workers : at[w] = "range" /\ Takes(w, next)
    /\ next' = next + 1
    /\ UNCHANGED <<rpc, phase, batch, docs, closedJobs, results>>

\* A send on the unbuffered channel meets a goroutine that ranges over it.
SendJob ==
    /\ phase = "send" /\ next <= size
    /\ \E w \in Workers : at[w] = "range" /\ Takes(w, next)
    /\ next' = next + 1
    /\ UNCHANGED <<rpc, phase, batch, docs, closedJobs, results>>

CloseJobs ==
    /\ phase = "send" /\ next > size
    /\ closedJobs' = TRUE /\ phase' = "join"
    /\ UNCHANGED <<rpc, batch, docs, next, at, job, results>>

\* Fault: the batch returns without waiting for its goroutines.
Join_NoWait ==
    /\ phase = "join"
    /\ phase' = "returned"
    /\ UNCHANGED <<rpc, batch, docs, pool>>

Join ==
    /\ phase = "join" /\ \A w \in Workers : at[w] = "off"
    /\ phase' = "returned"
    /\ UNCHANGED <<rpc, batch, docs, pool>>

\* The caller has its results, or its error; the session stays usable.
Deliver ==
    /\ phase \in {"returned", "failed"}
    /\ phase' = "idle"
    /\ UNCHANGED <<rpc, batch, docs, pool>>

\* Session.Close: shutdown with its deadline, then exit.
Shutdown ==
    /\ phase = "idle"
    /\ Rpc!Begin(Main, "deadline")
    /\ phase' = "shutdown"
    /\ UNCHANGED <<batch, docs, pool>>

Exit ==
    /\ phase = "shutdown" /\ call[Main] = "none"
    /\ Rpc!Begin(Main, "notice")
    /\ phase' = "exit"
    /\ UNCHANGED <<batch, docs, pool>>

Closed ==
    /\ phase = "exit" /\ call[Main] = "none"
    /\ phase' = "closed"
    /\ UNCHANGED <<rpc, batch, docs, pool>>

---------------------------------------------------------------------------
(* One query: implementation() and the store into results.                 *)

\* Fault: the result is stored at the index the feeding loop has reached.
Stores_LoopVariable(a, kind) ==
    results' = [results EXCEPT ![next - 1] = [kind |-> kind, of |-> job[a]]]

Stores(a, kind) ==
    results' = [results EXCEPT ![job[a]] = [kind |-> kind, of |-> job[a]]]

\* After a query a goroutine ranges over the channel again; Main goes on.
Resumes(a) == at' = [at EXCEPT ![a] = IF a = Main THEN "off" ELSE "range"]

Ask(a) ==
    /\ at[a] = "ask"
    /\ Rpc!Begin(a, "request")
    /\ at' = [at EXCEPT ![a] = "asked"]
    /\ UNCHANGED <<phase, batch, docs, next, closedJobs, job, results>>

\* The position is outside its file: nothing is sent.
BadPosition(a) ==
    /\ at[a] = "ask"
    /\ Stores(a, "error") /\ Resumes(a)
    /\ UNCHANGED <<rpc, phase, batch, docs, next, closedJobs, job>>

\* An answer may still fail to decode.
Store(a) ==
    /\ at[a] = "asked" /\ call[a] = "none"
    /\ \/ answer[a].kind = "result" /\ Stores(a, "ok")
       \/ Stores(a, "error")
    /\ Resumes(a)
    /\ UNCHANGED <<rpc, phase, batch, docs, next, closedJobs, job>>

RangeEnds(w) ==
    /\ w \in Workers /\ at[w] = "range" /\ closedJobs
    /\ at' = [at EXCEPT ![w] = "off"]
    /\ UNCHANGED <<rpc, phase, batch, docs, next, closedJobs, job, results>>

\* The connection moves by its own rules.
CallEnds(a) ==
    /\ Rpc!Answered(a) \/ Rpc!Sent(a) \/ Rpc!Failed(a)
    /\ UNCHANGED <<phase, batch, docs, pool>>

Breaks == Rpc!GoesDown /\ UNCHANGED <<phase, batch, docs, pool>>

Terminating == phase = "closed" /\ UNCHANGED vars

MainStep ==
    \/ OpenDoc \/ DocOpened \/ FirstQuery \/ SpawnPool \/ SendJob \/ CloseJobs
    \/ Join \/ Deliver \/ Exit \/ Closed
QueryStep(a) == Ask(a) \/ BadPosition(a) \/ Store(a) \/ RangeEnds(a)

Next ==
    \/ \E n \in 0..MaxSize, c \in Wanted, d \in 0..MaxDocs : BeginBatch(n, c, d)
    \/ MainStep \/ Shutdown
    \/ \E a \in Actors : QueryStep(a) \/ CallEnds(a)
    \/ Breaks \/ Terminating

Spec == Init /\ [][Next]_vars

\* Goroutines run, and calls end: LspClient keeps EveryCallReturns.
FairSpec ==
    /\ Spec
    /\ WF_vars(MainStep)
    /\ \A a \in Actors : WF_vars(QueryStep(a)) /\ WF_vars(CallEnds(a))

---------------------------------------------------------------------------
TypeOK ==
    /\ call \in [Actors -> {"none", "request", "deadline", "notice"}]
    /\ answer \in [Actors -> Rpc!Ended]
    /\ down \in BOOLEAN
    /\ phase \in {"idle", "open", "opening", "first", "send", "join", "returned",
                  "failed", "shutdown", "exit", "closed"}
    /\ size \in 0..MaxSize /\ wanted \in Int /\ docs \in Nat
    /\ next \in 1..(MaxSize + 1) /\ closedJobs \in BOOLEAN
    /\ at \in [Actors -> {"off", "range", "ask", "asked"}]
    /\ job \in [Actors -> 0..MaxSize]
    /\ results \in [Indexes -> QueryResult]
    /\ batches \in 0..MaxBatches

Busy(a) == at[a] \in {"ask", "asked"}

\* QueryResult "preserves the input order of a batch": when the batch returns
\* without an error, every index holds the result of its own query, whatever
\* order the goroutines finish in.
ResultsInInputOrder ==
    phase = "returned" =>
        \A i \in 1..size : results[i].kind # "zero" /\ results[i].of = i

\* "The first request establishes the workspace snapshot": while a goroutine of
\* the pool has a request out, every document is open and query 0 is over.
SnapshotFirst ==
    \A w \in Workers : call[w] = "request" => docs = 0 /\ results[1] # Zero

\* Nothing of a batch outlives it: no goroutine of the pool runs, and no request
\* is out, when its results are read, the next batch begins or the session closes.
NothingOutlivesBatch ==
    phase \notin {"first", "send", "join"} =>
        \A w \in Workers : at[w] = "off" /\ call[w] = "none"

\* A batch returns to its caller, also when the connection goes down half way
\* and whatever concurrency the request asks for.
BatchReturns == phase = "open" ~> phase \in {"returned", "failed"}
=============================================================================
