------------------------ MODULE BatchQueriesProofs ------------------------
(***************************************************************************)
(* What a batch keeps for any number of positions, goroutines and batches, *)
(* checked by TLAPS.                                                       *)
(***************************************************************************)
EXTENDS BatchQueries, TLAPS

USE DEF Actors

---------------------------------------------------------------------------
(* The inductive invariant.                                                *)

\* A batch that runs has a position, its documents are opened one by one, and
\* before the first query all of them are.
Staged ==
    /\ phase \in {"open", "opening", "first", "send", "join", "failed"} => size >= 1
    /\ phase = "opening" => docs > 0
    /\ phase \in {"first", "send", "join"} => docs = 0
    /\ phase = "join" => next > size
    /\ phase = "first" => job[Main] = 1 /\ next = 2

\* Main asks in its phase, the pool in its own; a worker calls only to ask.
Pooled ==
    /\ phase \notin {"send", "join"} => \A w \in Workers : at[w] = "off"
    /\ phase # "first" => at[Main] = "off"
    /\ at[Main] # "range"
    /\ \A w \in Workers : call[w] # "none" => call[w] = "request" /\ at[w] = "asked"

\* An index sent is at one goroutine, which alone will write its result, or its
\* result is there; an index not sent has none.
Dealt ==
    /\ \A a \in Actors : Busy(a) =>
          job[a] \in 1..size /\ job[a] < next /\ results[job[a]] = Zero
    /\ \A a, b \in Actors : Busy(a) /\ Busy(b) /\ job[a] = job[b] => a = b
    /\ phase \in {"first", "send", "join"} =>
          \A i \in 1..size : i < next => results[i] # Zero \/ \E a \in Actors : Busy(a) /\ job[a] = i
    /\ \A i \in Indexes : phase \in {"open", "opening", "first", "send", "join"} /\ i >= next => results[i] = Zero
    /\ \A i \in Indexes : results[i] # Zero => results[i].kind # "zero" /\ results[i].of = i
    /\ phase \in {"open", "opening"} => next = 1
    /\ phase \in {"send", "join"} => results[1] # Zero

BatchInv == Staged /\ Pooled /\ Dealt /\ ResultsInInputOrder

Calls == {"none", "request", "deadline", "notice"}

---------------------------------------------------------------------------
(* The types.                                                              *)

\* A step of the connection keeps its types and does not take it down.
LEMMA RpcTypes ==
    ASSUME TypeOK, NEW a \in Actors,
           \/ \E what \in {"request", "deadline", "notice"} : Rpc!Begin(a, what)
           \/ Rpc!Answered(a) \/ Rpc!Sent(a) \/ Rpc!Failed(a)
    PROVE  call' \in [Actors -> Calls] /\ answer' \in [Actors -> Rpc!Ended] /\ down' = down
<1>1. CASE \E what \in {"request", "deadline", "notice"} : Rpc!Begin(a, what)
    BY <1>1 DEF TypeOK, Calls, Rpc!Begin, Rpc!NotYet, Rpc!Ended
<1>2. CASE Rpc!Answered(a) \/ Rpc!Sent(a) \/ Rpc!Failed(a)
    <2>1. PICK kind \in {"result", "error", "sent", "failed"}, about \in {a, NoOne} :
             Rpc!Finish(a, kind, about)
        BY <1>2 DEF Rpc!Answered, Rpc!Sent, Rpc!Failed
    <2>2. [kind |-> kind, about |-> about] \in Rpc!Ended
        BY DEF Rpc!Ended
    <2>3. QED
        BY <2>1, <2>2 DEF TypeOK, Calls, Rpc!Finish
<1>3. QED
    BY <1>1, <1>2

\* Storing a result keeps the types of the results.
LEMMA StoreTypes ==
    ASSUME TypeOK, NEW a \in Actors, NEW kind \in {"ok", "error"}, Stores(a, kind)
    PROVE  results' \in [Indexes -> QueryResult]
<1>1. [kind |-> kind, of |-> job[a]] \in QueryResult
    BY DEF TypeOK, QueryResult
<1>2. QED
    BY <1>1 DEF TypeOK, Stores

\* Every step keeps the types.
LEMMA TypeStep == TypeOK /\ Staged /\ [Next]_vars => TypeOK'
<1> SUFFICES ASSUME TypeOK, Staged, [Next]_vars PROVE TypeOK'
    OBVIOUS
<1> USE PoolAssumption DEF rpc, batch, pool
<1>1. ASSUME NEW n \in 0..MaxSize, NEW c \in Wanted, NEW d \in 0..MaxDocs, BeginBatch(n, c, d)
      PROVE  TypeOK'
    <2>1. Zero \in QueryResult /\ c \in Int /\ d \in Nat /\ 1 \in 1..(MaxSize + 1)
        BY DEF Zero, QueryResult
    <2>2. batches' \in 0..MaxBatches
        BY <1>1 DEF BeginBatch, TypeOK
    <2>3. QED
        BY <1>1, <2>1, <2>2 DEF BeginBatch, TypeOK
<1>2. CASE OpenDoc \/ Shutdown \/ Exit
    <2>1. Main \in Actors /\ \E what \in {"request", "deadline", "notice"} : Rpc!Begin(Main, what)
        BY <1>2 DEF OpenDoc, Shutdown, Exit
    <2>2. call' \in [Actors -> Calls] /\ answer' \in [Actors -> Rpc!Ended] /\ down' = down
        BY <2>1, RpcTypes
    <2>3. QED
        BY <1>2, <2>2 DEF OpenDoc, Shutdown, Exit, TypeOK, Calls
<1>3. CASE DocOpened
    BY <1>3 DEF DocOpened, TypeOK, Staged
<1>4. CASE FirstQuery
    <2>1. 1 \in 0..MaxSize /\ 2 \in 1..(MaxSize + 1)
        BY <1>4 DEF FirstQuery, Staged, TypeOK
    <2>2. QED
        BY <1>4, <2>1 DEF FirstQuery, Takes, TypeOK
<1>5. CASE SpawnPool
    BY <1>5 DEF SpawnPool, TypeOK
<1>6. CASE SendJob
    <2>1. next \in 0..MaxSize /\ next + 1 \in 1..(MaxSize + 1)
        BY <1>6 DEF SendJob, TypeOK
    <2>2. QED
        BY <1>6, <2>1 DEF SendJob, Takes, TypeOK
<1>7. CASE CloseJobs \/ Join \/ Deliver \/ Closed
    BY <1>7 DEF CloseJobs, Join, Deliver, Closed, TypeOK
<1>8. ASSUME NEW a \in Actors, Ask(a) PROVE TypeOK'
    <2>1. call' \in [Actors -> Calls] /\ answer' \in [Actors -> Rpc!Ended] /\ down' = down
        BY <1>8, RpcTypes DEF Ask
    <2>2. QED
        BY <1>8, <2>1 DEF Ask, TypeOK, Calls
<1>9. ASSUME NEW a \in Actors, BadPosition(a) \/ Store(a) PROVE TypeOK'
    <2>1. results' \in [Indexes -> QueryResult]
        BY <1>9, StoreTypes DEF BadPosition, Store
    <2>2. at' \in [Actors -> {"off", "range", "ask", "asked"}]
        BY <1>9 DEF BadPosition, Store, Resumes, TypeOK
    <2>3. QED
        BY <1>9, <2>1, <2>2 DEF BadPosition, Store, TypeOK
<1>10. ASSUME NEW a \in Actors, RangeEnds(a) PROVE TypeOK'
    BY <1>10 DEF RangeEnds, TypeOK
<1>11. ASSUME NEW a \in Actors, CallEnds(a) PROVE TypeOK'
    <2>1. call' \in [Actors -> Calls] /\ answer' \in [Actors -> Rpc!Ended] /\ down' = down
        BY <1>11, RpcTypes DEF CallEnds
    <2>2. QED
        BY <1>11, <2>1 DEF CallEnds, TypeOK, Calls
<1>12. CASE Breaks
    BY <1>12 DEF Breaks, Rpc!GoesDown, TypeOK
<1>13. CASE UNCHANGED vars
    BY <1>13 DEF vars, TypeOK
<1>14. QED
    BY <1>1, <1>2, <1>3, <1>4, <1>5, <1>6, <1>7, <1>8, <1>9, <1>10, <1>11, <1>12, <1>13
       DEF Next, MainStep, QueryStep, Terminating

\* Initially nothing runs.
LEMMA InitTypes == Init => TypeOK
<1> SUFFICES ASSUME Init PROVE TypeOK
    OBVIOUS
<1>1. call \in [Actors -> Calls] /\ answer \in [Actors -> Rpc!Ended] /\ down \in BOOLEAN
    BY DEF Init, Rpc!CInit, Rpc!NotYet, Rpc!Ended, Calls
<1>2. Zero \in QueryResult /\ 0 \in 0..MaxSize /\ 1 \in 1..(MaxSize + 1) /\ MaxBatches \in 0..MaxBatches
    BY PoolAssumption DEF Zero, QueryResult
<1>3. results \in [Indexes -> QueryResult] /\ job \in [Actors -> 0..MaxSize]
    BY <1>2 DEF Init
<1>4. at \in [Actors -> {"off", "range", "ask", "asked"}]
    BY DEF Init
<1>5. closedJobs \in BOOLEAN
    BY DEF Init
<1>6. phase = "idle" /\ wanted \in Int /\ docs \in Nat
    BY DEF Init
<1>7. size \in 0..MaxSize /\ next \in 1..(MaxSize + 1) /\ batches \in 0..MaxBatches
    BY <1>2 DEF Init
<1>8. QED
    BY <1>1, <1>3, <1>4, <1>5, <1>6, <1>7 DEF TypeOK, Calls

---------------------------------------------------------------------------
(* The phases of a batch, and what its goroutines are at in each.          *)

\* Every step keeps the order of the phases.
LEMMA StagedStep == TypeOK /\ Staged /\ Pooled /\ [Next]_vars => Staged'
<1> SUFFICES ASSUME TypeOK, Staged, Pooled, [Next]_vars PROVE Staged'
    OBVIOUS
<1> USE PoolAssumption DEF rpc, batch, pool
<1>1. ASSUME NEW n \in 0..MaxSize, NEW c \in Wanted, NEW d \in 0..MaxDocs, BeginBatch(n, c, d)
      PROVE  Staged'
    BY <1>1 DEF BeginBatch, Staged
<1>2. CASE OpenDoc \/ DocOpened \/ Join \/ Deliver \/ Shutdown \/ Exit \/ Closed
    BY <1>2 DEF OpenDoc, DocOpened, Join, Deliver, Shutdown, Exit, Closed, Staged
<1>3. CASE FirstQuery
    BY <1>3 DEF FirstQuery, Takes, Staged, TypeOK
<1>4. CASE SpawnPool \/ CloseJobs
    BY <1>4 DEF SpawnPool, CloseJobs, Staged
<1>5. CASE SendJob
    BY <1>5 DEF SendJob, Staged
<1>6. ASSUME NEW a \in Actors, QueryStep(a) \/ CallEnds(a) PROVE Staged'
    BY <1>6 DEF QueryStep, Ask, BadPosition, Store, RangeEnds, CallEnds, Staged
<1>7. CASE Breaks \/ UNCHANGED vars
    BY <1>7 DEF Breaks, vars, Staged
<1>8. QED
    BY <1>1, <1>2, <1>3, <1>4, <1>5, <1>6, <1>7 DEF Next, MainStep, Terminating

\* Every step keeps the goroutines to their phases and to their calls.
LEMMA PooledStep == TypeOK /\ Staged /\ Pooled /\ [Next]_vars => Pooled'
<1> SUFFICES ASSUME TypeOK, Staged, Pooled, [Next]_vars PROVE Pooled'
    OBVIOUS
<1> USE PoolAssumption DEF rpc, batch, pool
<1>1. ASSUME NEW n \in 0..MaxSize, NEW c \in Wanted, NEW d \in 0..MaxDocs, BeginBatch(n, c, d)
      PROVE  Pooled'
    BY <1>1 DEF BeginBatch, Pooled
<1>2. CASE OpenDoc \/ Shutdown \/ Exit
    <2>1. /\ UNCHANGED at /\ phase \notin {"send", "join", "first"} /\ phase' \notin {"send", "join", "first"}
          /\ \A w \in Workers : call'[w] = call[w]
        BY <1>2 DEF OpenDoc, Shutdown, Exit, Rpc!Begin, TypeOK
    <2>2. QED
        BY <2>1 DEF Pooled
<1>3. CASE DocOpened \/ CloseJobs \/ Join \/ Deliver \/ Closed
    BY <1>3 DEF DocOpened, CloseJobs, Join, Deliver, Closed, Pooled
<1>4. CASE FirstQuery
    BY <1>4 DEF FirstQuery, Takes, Pooled, TypeOK
<1>5. CASE SpawnPool
    BY <1>5 DEF SpawnPool, Pooled, TypeOK
<1>6. CASE SendJob
    BY <1>6 DEF SendJob, Takes, Pooled, TypeOK
<1>7. ASSUME NEW a \in Actors, Ask(a) PROVE Pooled'
    BY <1>7 DEF Ask, Rpc!Begin, Pooled, TypeOK
<1>8. ASSUME NEW a \in Actors, BadPosition(a) \/ Store(a) PROVE Pooled'
    <2>1. /\ UNCHANGED <<call, phase>>
          /\ call[a] = "none" \/ at[a] = "ask"
          /\ at[a] # "off" /\ Resumes(a)
        BY <1>8 DEF BadPosition, Store
    <2>2. /\ at'[a] = IF a = Main THEN "off" ELSE "range"
          /\ \A b \in Actors \ {a} : at'[b] = at[b]
        BY <2>1 DEF Resumes, TypeOK
    <2>3. a \in Workers => call[a] = "none" /\ phase \in {"send", "join"}
        BY <2>1 DEF Pooled
    <2>4. a = Main => phase = "first"
        BY <2>1 DEF Pooled
    <2>5. ASSUME NEW w \in Workers
          PROVE  /\ phase \notin {"send", "join"} => at'[w] = "off"
                 /\ call[w] # "none" => call[w] = "request" /\ at'[w] = "asked"
        BY <2>2, <2>3 DEF Pooled
    <2>6. at'[Main] # "range" /\ (phase # "first" => at'[Main] = "off")
        BY <2>2, <2>4 DEF Pooled
    <2>7. QED
        BY <2>1, <2>5, <2>6 DEF Pooled
<1>9. ASSUME NEW a \in Actors, RangeEnds(a) PROVE Pooled'
    BY <1>9 DEF RangeEnds, Pooled, TypeOK
<1>10. ASSUME NEW a \in Actors, CallEnds(a) PROVE Pooled'
    <2>1. /\ UNCHANGED <<phase, at>> /\ call' = [call EXCEPT ![a] = "none"]
        BY <1>10 DEF CallEnds, Rpc!Answered, Rpc!Sent, Rpc!Failed, Rpc!Finish
    <2>2. QED
        BY <2>1 DEF Pooled, TypeOK
<1>11. CASE Breaks \/ UNCHANGED vars
    BY <1>11 DEF Breaks, Rpc!GoesDown, vars, Pooled
<1>12. QED
    BY <1>1, <1>2, <1>3, <1>4, <1>5, <1>6, <1>7, <1>8, <1>9, <1>10, <1>11
       DEF Next, MainStep, QueryStep, Terminating

---------------------------------------------------------------------------
(* The indexes, each at one goroutine.                                     *)

\* Steps that deal no index and store no result.
LEMMA DealtElsewhere ==
    ASSUME Dealt, UNCHANGED <<size, next, job, results>>,
           \A a \in Actors : Busy(a)' <=> Busy(a),
           phase' \in {"open", "opening"} => phase \in {"open", "opening"},
           phase' = "first" => phase = "first",
           phase' \in {"send", "join"} => phase \in {"send", "join"}
    PROVE  Dealt'
    BY DEF Dealt

\* Index n goes to the actor a, which had none.
LEMMA DealtTakes ==
    ASSUME TypeOK, Staged, Dealt, NEW a \in Actors, Takes(a, next), ~Busy(a),
           next <= size, next' = next + 1, UNCHANGED <<size, results>>,
           (phase = "open" /\ phase' = "first") \/ (phase = "send" /\ phase' = "send")
    PROVE  Dealt'
<1>1. /\ next \in 1..(MaxSize + 1) /\ size \in 0..MaxSize /\ MaxSize \in Nat
      /\ next \in 1..size /\ next \in Indexes
    BY PoolAssumption DEF TypeOK, Indexes
<1>2. /\ Busy(a)' /\ job'[a] = next
      /\ \A b \in Actors \ {a} : job'[b] = job[b] /\ (Busy(b)' <=> Busy(b))
    BY DEF Takes, Busy, TypeOK
<1>3. results[next] = Zero
    BY <1>1 DEF Dealt
<1>4. ASSUME NEW b \in Actors, Busy(b)'
      PROVE  job'[b] \in 1..size /\ job'[b] < next + 1 /\ results[job'[b]] = Zero
             /\ (b # a => job'[b] < next)
    <2>1. CASE b = a
        BY <1>1, <1>2, <1>3, <2>1
    <2>2. CASE b # a
        <3>1. job'[b] = job[b] /\ Busy(b)
            BY <1>2, <1>4, <2>2
        <3>2. job[b] \in 1..size /\ job[b] < next /\ results[job[b]] = Zero
            BY <3>1 DEF Dealt
        <3>3. QED
            BY <1>1, <3>1, <3>2
    <2>3. QED
        BY <2>1, <2>2
<1>5. ASSUME NEW b \in Actors, NEW c \in Actors, Busy(b)', Busy(c)', job'[b] = job'[c]
      PROVE  b = c
    <2>1. CASE b # a /\ c # a
        BY <1>2, <1>5, <2>1 DEF Dealt
    <2>2. CASE b = a \/ c = a
        BY <1>1, <1>2, <1>4, <1>5, <2>2
    <2>3. QED
        BY <2>1, <2>2
<1>6. ASSUME NEW i \in 1..size, i < next + 1
      PROVE  results[i] # Zero \/ \E b \in Actors : Busy(b)' /\ job'[b] = i
    <2>1. CASE i = next
        BY <1>2, <2>1
    <2>2. CASE i < next
        <3>1. phase = "send"
            BY <1>1, <2>2 DEF Dealt
        <3>2. results[i] # Zero \/ \E b \in Actors : Busy(b) /\ job[b] = i
            BY <2>2, <3>1 DEF Dealt
        <3>3. QED
            BY <1>2, <3>2
    <2>3. QED
        BY <1>1, <1>6, <2>1, <2>2
<1>7. \A i \in Indexes : i >= next + 1 => results[i] = Zero
    BY <1>1 DEF Dealt, Indexes
<1>8. QED
    BY <1>4, <1>5, <1>6, <1>7 DEF Dealt

\* The actor a stores the result of its index, and has none any more.
LEMMA DealtStores ==
    ASSUME TypeOK, Staged, Pooled, Dealt, NEW a \in Actors, NEW kind \in {"ok", "error"},
           Stores(a, kind), Resumes(a), Busy(a), UNCHANGED <<size, next, job, phase>>
    PROVE  Dealt'
<1> DEFINE n == job[a]
           stored == [kind |-> kind, of |-> job[a]]
<1>1. n \in 1..size /\ n < next /\ n \in Indexes
    BY PoolAssumption DEF Dealt, TypeOK, Indexes
<1>2. /\ results'[n] = stored
      /\ \A i \in Indexes \ {n} : results'[i] = results[i]
    BY <1>1 DEF Stores, TypeOK
<1>3. stored # Zero /\ stored.kind # "zero" /\ stored.of = n
    BY DEF Zero
<1>4. /\ ~Busy(a)' /\ \A b \in Actors \ {a} : Busy(b)' <=> Busy(b)
    BY DEF Resumes, Busy, TypeOK
<1>5. \A b \in Actors \ {a} : Busy(b) => job[b] # n
    BY DEF Dealt
<1>6. \A b \in Actors : Busy(b) => job[b] \in 1..size /\ job[b] < next /\ job[b] \in Indexes
    BY PoolAssumption DEF Dealt, TypeOK, Indexes
<1>7. 1..size \subseteq Indexes
    BY PoolAssumption DEF TypeOK, Indexes
<1> HIDE DEF n, stored
<1>8. \A b \in Actors : Busy(b)' =>
         job'[b] \in 1..size' /\ job'[b] < next' /\ results'[job'[b]] = Zero
    BY <1>2, <1>4, <1>5, <1>6 DEF Dealt
<1>9. \A b, c \in Actors : Busy(b)' /\ Busy(c)' /\ job'[b] = job'[c] => b = c
    BY <1>4 DEF Dealt
<1>10. ASSUME phase \in {"first", "send", "join"}, NEW i \in 1..size, i < next
       PROVE  results'[i] # Zero \/ \E b \in Actors : Busy(b)' /\ job[b] = i
    <2>1. CASE i = n
        BY <1>2, <1>3, <2>1
    <2>2. CASE i # n
        <3>1. results[i] # Zero \/ \E b \in Actors : Busy(b) /\ job[b] = i
            BY <1>10 DEF Dealt
        <3>2. results'[i] = results[i]
            BY <1>2, <1>7, <2>2
        <3>3. QED
            BY <1>4, <2>2, <3>1, <3>2 DEF n
    <2>3. QED
        BY <2>1, <2>2
<1>11. \A i \in Indexes : phase \in {"open", "opening", "first", "send", "join"} /\ i >= next => results'[i] = Zero
    <2>1. ASSUME NEW i \in Indexes, i >= next PROVE i # n
        BY <1>1, <2>1 DEF TypeOK, Indexes
    <2>2. QED
        BY <1>2, <2>1 DEF Dealt
<1>12. \A i \in Indexes : results'[i] # Zero => results'[i].kind # "zero" /\ results'[i].of = i
    BY <1>2, <1>3 DEF Dealt
<1>13. (phase \in {"send", "join"} => results'[1] # Zero) /\ (phase \in {"open", "opening"} => next = 1)
    <2>1. phase \in {"send", "join"} => 1 \in Indexes
        BY <1>1, <1>7, PoolAssumption DEF TypeOK, Indexes
    <2>2. QED
        BY <1>2, <1>3, <2>1 DEF Dealt
<1>14. QED
    BY <1>8, <1>9, <1>10, <1>11, <1>12, <1>13 DEF Dealt

\* Every step keeps the indexes dealt.
LEMMA DealtStep == TypeOK /\ Staged /\ Pooled /\ Dealt /\ [Next]_vars => Dealt'
<1> SUFFICES ASSUME TypeOK, Staged, Pooled, Dealt, [Next]_vars PROVE Dealt'
    OBVIOUS
<1> USE PoolAssumption DEF rpc, batch, pool
<1>0. phase \notin {"first", "send", "join"} => \A a \in Actors : ~Busy(a)
    BY DEF Pooled, Busy
<1>1. ASSUME NEW n \in 0..MaxSize, NEW c \in Wanted, NEW d \in 0..MaxDocs, BeginBatch(n, c, d)
      PROVE  Dealt'
    <2>1. /\ \A a \in Actors : ~Busy(a)'
          /\ \A i \in Indexes : results'[i] = Zero
          /\ next' = 1 /\ size' \in Nat /\ phase' \in {"returned", "open"}
        BY <1>0, <1>1 DEF BeginBatch, Busy
    <2>2. QED
        BY <2>1 DEF Dealt
<1>2. CASE OpenDoc \/ DocOpened \/ CloseJobs \/ Join \/ Deliver \/ Shutdown \/ Exit \/ Closed
    <2>1. UNCHANGED <<size, next, at, job, results>>
        BY <1>2 DEF OpenDoc, DocOpened, CloseJobs, Join, Deliver, Shutdown, Exit, Closed
    <2>2. \/ phase' \notin {"open", "opening", "first", "send", "join"}
          \/ phase \in {"open", "opening"} /\ phase' \in {"open", "opening"}
          \/ phase = "send" /\ phase' = "join"
        BY <1>2 DEF OpenDoc, DocOpened, CloseJobs, Join, Deliver, Shutdown, Exit, Closed
    <2>3. QED
        BY <2>1, <2>2, DealtElsewhere DEF Busy
<1>3. CASE FirstQuery
    <2>1. /\ phase = "open" /\ phase' = "first" /\ next = 1 /\ Takes(Main, next)
          /\ next' = next + 1 /\ UNCHANGED <<size, results>>
        BY <1>3 DEF FirstQuery, Dealt
    <2>2. Main \in Actors /\ ~Busy(Main) /\ next <= size
        BY <1>0, <2>1 DEF Staged, TypeOK
    <2>3. QED
        BY <2>1, <2>2, DealtTakes
<1>4. CASE SpawnPool
    <2>1. \A a \in Actors : ~Busy(a) /\ ~Busy(a)'
        BY <1>4 DEF SpawnPool, Pooled, Busy
    <2>2. phase = "first" /\ phase' \in {"returned", "send"} /\ UNCHANGED <<size, next, job, results>>
        BY <1>4 DEF SpawnPool
    <2>3. results[1] # Zero
        <3>1. 1 \in 1..size /\ 1 < next
            BY <2>2 DEF Staged, TypeOK
        <3>2. QED
            BY <2>1, <2>2, <3>1 DEF Dealt
    <2>4. QED
        BY <2>1, <2>2, <2>3 DEF Dealt
<1>5. CASE SendJob
    <2>1. PICK w \in Workers : at[w] = "range" /\ Takes(w, next)
        BY <1>5 DEF SendJob
    <2>2. /\ phase = "send" /\ phase' = "send" /\ next <= size /\ next' = next + 1
          /\ UNCHANGED <<size, results>>
        BY <1>5 DEF SendJob
    <2>3. QED
        BY <2>1, <2>2, DealtTakes DEF Busy
<1>6. ASSUME NEW a \in Actors, Ask(a) \/ RangeEnds(a) PROVE Dealt'
    <2>1. UNCHANGED <<size, next, job, results, phase>>
        BY <1>6 DEF Ask, RangeEnds
    <2>2. \A b \in Actors : Busy(b)' <=> Busy(b)
        BY <1>6 DEF Ask, RangeEnds, Busy, TypeOK
    <2>3. QED
        BY <2>1, <2>2, DealtElsewhere
<1>7. ASSUME NEW a \in Actors, BadPosition(a) \/ Store(a) PROVE Dealt'
    <2>1. /\ UNCHANGED <<size, next, job, phase>> /\ Resumes(a) /\ Busy(a)
          /\ \E kind \in {"ok", "error"} : Stores(a, kind)
        BY <1>7 DEF BadPosition, Store, Busy
    <2>2. QED
        BY <2>1, DealtStores
<1>8. ASSUME NEW a \in Actors, CallEnds(a) PROVE Dealt'
    BY <1>8, DealtElsewhere DEF CallEnds, Busy
<1>9. CASE Breaks \/ UNCHANGED vars
    BY <1>9, DealtElsewhere DEF Breaks, vars, Busy
<1>10. QED
    BY <1>1, <1>2, <1>3, <1>4, <1>5, <1>6, <1>7, <1>8, <1>9
       DEF Next, MainStep, QueryStep, Terminating

\* When all indexes are sent and nobody is at one, every result is there.
LEMMA AllStored ==
    ASSUME TypeOK, Dealt, phase \in {"first", "join"}, next > size, \A a \in Actors : ~Busy(a)
    PROVE  \A i \in 1..size : results[i].kind # "zero" /\ results[i].of = i
<1>1. \A i \in 1..size : i < next /\ i \in Indexes
    BY PoolAssumption DEF TypeOK, Indexes
<1>2. \A i \in 1..size : results[i] # Zero
    BY <1>1 DEF Dealt
<1>3. QED
    BY <1>1, <1>2 DEF Dealt

\* A batch returns only then, or with nothing asked.
LEMMA OrderStep == TypeOK /\ BatchInv /\ [Next]_vars => ResultsInInputOrder'
<1> SUFFICES ASSUME TypeOK, BatchInv, [Next]_vars, phase' = "returned",
                    NEW i \in 1..size'
             PROVE  results'[i].kind # "zero" /\ results'[i].of = i
    BY DEF ResultsInInputOrder
<1> USE PoolAssumption DEF rpc, batch, pool
<1>1. CASE \E n \in 0..MaxSize, c \in Wanted, d \in 0..MaxDocs : BeginBatch(n, c, d)
    BY <1>1 DEF BeginBatch
<1>2. CASE SpawnPool
    <2>1. \A a \in Actors : ~Busy(a)
        BY <1>2 DEF SpawnPool, BatchInv, Pooled, Busy
    <2>2. phase = "first" /\ size = 1 /\ UNCHANGED <<size, results>>
        BY <1>2 DEF SpawnPool
    <2>3. next > size
        BY <2>2 DEF BatchInv, Staged
    <2>4. QED
        BY <2>1, <2>2, <2>3, AllStored DEF BatchInv
<1>3. CASE Join
    <2>1. /\ phase = "join" /\ UNCHANGED <<size, results>>
          /\ \A a \in Actors : ~Busy(a)
        BY <1>3 DEF Join, BatchInv, Pooled, Busy
    <2>2. QED
        BY <2>1, AllStored DEF BatchInv, Staged
<1>4. CASE phase = "returned" /\ UNCHANGED <<size, results>>
    BY <1>4 DEF BatchInv, ResultsInInputOrder
<1>5. ASSUME NEW a \in Actors, QueryStep(a)
      PROVE  results'[i].kind # "zero" /\ results'[i].of = i
    <2>1. phase = "returned" /\ size' = size
        BY <1>5 DEF QueryStep, Ask, BadPosition, Store, RangeEnds
    <2>2. at[a] = "off"
        BY <2>1 DEF BatchInv, Pooled
    <2>3. QED
        BY <1>5, <2>2 DEF QueryStep, Ask, BadPosition, Store, RangeEnds
<1>6. CASE OpenDoc \/ DocOpened \/ FirstQuery \/ SendJob \/ CloseJobs \/ Deliver \/ Shutdown \/ Exit \/ Closed
    BY <1>6 DEF OpenDoc, DocOpened, FirstQuery, SendJob, CloseJobs, Deliver, Shutdown, Exit, Closed
<1>7. CASE (\E a \in Actors : CallEnds(a)) \/ Breaks \/ UNCHANGED vars
    BY <1>4, <1>7 DEF CallEnds, Breaks, vars
<1>8. QED
    BY <1>1, <1>2, <1>3, <1>5, <1>6, <1>7 DEF Next, MainStep, Terminating

---------------------------------------------------------------------------
\* The batch keeps its inductive invariant.
THEOREM BatchSafe == Spec => [](TypeOK /\ BatchInv)
<1>1. Init => TypeOK /\ BatchInv
    <2>1. ASSUME Init PROVE Staged /\ Pooled /\ ResultsInInputOrder
        BY <2>1 DEF Init, Rpc!CInit, Staged, Pooled, ResultsInInputOrder
    <2>2. ASSUME Init PROVE Dealt
        BY <2>2 DEF Init, Dealt, Busy
    <2>3. QED
        BY <2>1, <2>2, InitTypes DEF BatchInv
<1>2. TypeOK /\ BatchInv /\ [Next]_vars => (TypeOK /\ BatchInv)'
    BY TypeStep, StagedStep, PooledStep, DealtStep, OrderStep DEF BatchInv
<1>3. QED
    BY <1>1, <1>2, PTL DEF Spec

\* The types of the batch, of its goroutines and of its connection.
THEOREM TypeCorrect == Spec => []TypeOK
    BY BatchSafe, PTL

\* Every result is at the index of its query when the batch returns, whatever
\* order the goroutines finish in.
THEOREM InputOrderKept == Spec => []ResultsInInputOrder
<1>1. BatchInv => ResultsInInputOrder
    BY DEF BatchInv
<1>2. QED
    BY <1>1, BatchSafe, PTL

\* No goroutine of the pool asks before every document is open and the first
\* query, which lets gopls load the workspace, is over.
THEOREM PoolAfterSnapshot == Spec => []SnapshotFirst
<1>1. BatchInv => SnapshotFirst
    BY DEF BatchInv, Staged, Pooled, Dealt, SnapshotFirst
<1>2. QED
    BY <1>1, BatchSafe, PTL

\* No goroutine and no request of a batch is left when it has returned.
THEOREM BatchEndsClean == Spec => []NothingOutlivesBatch
<1>1. BatchInv => NothingOutlivesBatch
    BY DEF BatchInv, Pooled, NothingOutlivesBatch
<1>2. QED
    BY <1>1, BatchSafe, PTL

\* The goroutines store into the shared results without a lock: no two of them
\* have the same index, and the one that has it finds it unwritten.
THEOREM OneWriterPerResult ==
    Spec => [](\A a, b \in Actors : Busy(a) =>
                   /\ results[job[a]] = Zero
                   /\ Busy(b) /\ job[a] = job[b] => a = b)
<1>1. BatchInv => \A a, b \in Actors : Busy(a) =>
                     /\ results[job[a]] = Zero
                     /\ Busy(b) /\ job[a] = job[b] => a = b
    BY DEF BatchInv, Dealt
<1>2. QED
    BY <1>1, BatchSafe, PTL

\* The batch, with the connection moving by its own rules, uses it as the
\* contract that the client implements allows.
THEOREM BatchUsesContract == Spec => Rpc!CSpec
<1>1. Init => Rpc!CInit
    BY DEF Init
<1>2. [Next]_vars => [Rpc!CNext]_(Rpc!contract)
    <2> SUFFICES ASSUME [Next]_vars PROVE [Rpc!CNext]_(Rpc!contract)
        OBVIOUS
    <2> USE DEF rpc, Rpc!contract, Rpc!CNext
    <2>1. CASE \E n \in 0..MaxSize, c \in Wanted, d \in 0..MaxDocs : BeginBatch(n, c, d)
        BY <2>1 DEF BeginBatch
    <2>2. CASE OpenDoc \/ Shutdown \/ Exit
        BY <2>2 DEF OpenDoc, Shutdown, Exit
    <2>3. CASE \/ DocOpened \/ FirstQuery \/ SpawnPool \/ SendJob \/ CloseJobs \/ Join
               \/ Deliver \/ Closed \/ UNCHANGED vars
        BY <2>3 DEF DocOpened, FirstQuery, SpawnPool, SendJob, CloseJobs, Join, Deliver, Closed, vars
    <2>4. ASSUME NEW a \in Actors, QueryStep(a) \/ CallEnds(a)
          PROVE  [Rpc!CNext]_(Rpc!contract)
        BY <2>4 DEF QueryStep, Ask, BadPosition, Store, RangeEnds, CallEnds
    <2>5. CASE Breaks
        BY <2>5 DEF Breaks
    <2>6. QED
        BY <2>1, <2>2, <2>3, <2>4, <2>5 DEF Next, MainStep, Terminating
<1>3. QED
    BY <1>1, <1>2, PTL DEF Spec, Rpc!CSpec
=============================================================================
