------------------------- MODULE LspClientProofs -------------------------
(***************************************************************************)
(* What LspClient keeps for any number of workers, any pipe capacity and   *)
(* any number of requests, checked by TLAPS: that a request is answered    *)
(* once and nobody forgotten; then that callers and the reader share the   *)
(* pipe without mixing frames, that every answer reaches the one who       *)
(* asked, that no registration outlives its call, and that LspClient       *)
(* therefore implements RpcContract.                                       *)
(***************************************************************************)
EXTENDS LspProperties, SequenceTheorems, TLAPS

\* The definitions an action of the client, of Main or of gopls unfolds to.
USE DEF Callers, Writers

---------------------------------------------------------------------------
(* The inductive strengthening of AnsweredOnce and NobodyForgotten.        *)

\* A request in progress, in the order of request().
InRequest(c) == pc[c] \in {"lock", "header", "body", "wait"} /\ cur[c].id # 0
HasToken(id) == Registered(id) \/ Carried(id) \/ Doomed(id) \/ Boxed(id)
ReaderOver   == pc[Reader] \in {"failing", "stopped"}

\* Each goroutine stays in its own part of the code.
Lanes ==
    /\ \A c \in Callers : pc[c] \in {"idle", "lock", "header", "body", "wait", "cleanup"}
    /\ pc[Reader] \in {"read", "lock", "header", "body", "deliver", "failing", "stopped"}

\* An answer is only in places its request has passed through.
Issued ==
    /\ \A l \in mail \cup inHand : l.to \in 1..Len(askedBy)
    /\ failing \subseteq 1..Len(askedBy)
    /\ \A c \in Callers : pc[c] \in {"wait", "cleanup"} => cur[c].id # 0
    /\ \A c \in Callers : InRequest(c) \/ pc[c] = "cleanup" =>
          cur[c].id \in 1..Len(askedBy) /\ askedBy[cur[c].id] = c

\* What the reader has in hand it has only while it is dealing with it.
ReaderHands ==
    /\ inHand # {} => pc[Reader] = "deliver"
    /\ \A k, l \in inHand : k = l
    /\ failing # {} => pc[Reader] = "failing"

\* The reader ends only with gopls, unless it met garbage.
ReaderEndsWithCause ==
    /\ reaped => srv = "gone"
    /\ \A i \in 1..Len(stdout) : stdout[i].kind = "garbage" => garbled
    /\ ReaderOver => garbled \/ srv = "gone"

\* A request in progress can still be answered, and one that waits does not
\* rely on a reader that has ended.
Answerable ==
    \A c \in Callers : InRequest(c) =>
        /\ HasToken(cur[c].id)
        /\ pc[c] = "wait" /\ ReaderOver /\ Registered(cur[c].id) => garbled

SafeInv == Lanes /\ Issued /\ ReaderHands /\ ReaderEndsWithCause /\ AnsweredOnce /\ Answerable

---------------------------------------------------------------------------
(* The inductive strengthenings of FramesIntact, OwnAnswer and             *)
(* NoStaleRegistration, and what the contract needs beside them.           *)

\* Whoever is between its two writes holds the mutex.
Exclusive == \A w \in Writers : pc[w] \in {"header", "body"} <=> writeMu = w

\* While the pipe works, it ends in half a frame only for the one in the middle of it.
Framed ==
    /\ FramesIntact
    /\ ~Broken => \A w \in Writers : pc[w] = "body" =>
          Len(stdin) % 2 = 1 /\ stdin[Len(stdin)].msg = cur[w]
    /\ ~Broken /\ (\A w \in Writers : pc[w] # "body") => Len(stdin) % 2 = 0

\* A message that carries the id of a request is about the one who asked it,
\* wherever it is: with its sender, on the pipes, or at gopls.
Honest(m) == m.id # 0 => m.id \in 1..Len(askedBy) /\ m.about = askedBy[m.id]
Matching ==
    /\ \A w \in Writers : Honest(cur[w])
    /\ \A i \in 1..Len(stdin) : Honest(stdin[i].msg)
    /\ \A m \in backlog : Honest(m)
    /\ \A i \in 1..Len(stdout) : Honest(stdout[i])
    /\ \A l \in mail \cup inHand : l.kind = "failed" \/ l.about = askedBy[l.to]

\* A registered id is that of the call its asker is in.
Current ==
    \A id \in pending :
        /\ cur[askedBy[id]].id = id
        /\ pc[askedBy[id]] \in {"lock", "header", "body", "wait", "cleanup"}

\* Main closes a session that nobody uses, and stdin only then; the workers run
\* while it serves.
Quiet ==
    /\ step # "serve" => \A w \in Workers : pc[w] = "idle"
    /\ step = "closed" => pc[Main] = "idle"
    /\ stdinClosed => srv = "gone" \/ step = "closed"

\* A call fails only for a cause: the connection is down, or it had a deadline.
FailsWithCause ==
    /\ done => srv = "gone"
    /\ \A l \in inHand : l.kind # "failed"
    /\ \A l \in mail : l.kind = "failed" => Down
    /\ \A c \in Callers : pc[c] = "cleanup" =>
          /\ outcome[c].kind \in {"exited", "timeout", "unsent"}
          /\ Down \/ cur[c].method = "shutdown"

CallInv == Exclusive /\ Framed /\ Matching /\ Current /\ Quiet /\ FailsWithCause

---------------------------------------------------------------------------
\* Registering a request keeps the types, whatever its method.
LEMMA RequestTypes ==
    ASSUME TypeOK, NEW c \in Callers, NEW method \in Methods, StartRequest(c, method),
           step' \in {"start", "initialize", "initialized", "serve", "shutdown", "exit", "closed"}
    PROVE  TypeOK'
<1>0. /\ askedBy \in Seq(Callers) /\ pending \subseteq 1..Len(askedBy) /\ MaxId \in Nat
      /\ cur \in [Writers -> Message] /\ outcome \in [Callers -> Outcome]
      /\ pc \in [Writers -> {"idle", "lock", "header", "body", "wait", "cleanup",
                             "read", "deliver", "failing", "stopped"}]
    BY BoundsAssumption DEF TypeOK
<1>1. /\ askedBy' = Append(askedBy, c) /\ Len(askedBy) + 1 <= MaxId
      /\ pending' = pending \cup {Len(askedBy) + 1}
      /\ cur' = [cur EXCEPT ![c] = [method |-> method, id |-> Len(askedBy) + 1, about |-> c]]
    BY DEF StartRequest
<1>2. askedBy' \in Seq(Callers) /\ Len(askedBy') = Len(askedBy) + 1 /\ Len(askedBy) \in Nat
    BY <1>0, <1>1
<1>3. Len(askedBy') <= MaxId
    BY <1>1, <1>2
<1>4. pending' \subseteq 1..Len(askedBy')
    <2> DEFINE n == Len(askedBy)
    <2>1. n \in Nat /\ Len(askedBy') = n + 1 /\ pending \subseteq 1..n
        BY <1>0, <1>2
    <2>2. pending' = pending \cup {n + 1}
        BY <1>1
    <2> HIDE DEF n
    <2>3. QED
        BY <2>1, <2>2
<1>5. cur' \in [Writers -> Message]
    <2>1. [method |-> method, id |-> Len(askedBy) + 1, about |-> c] \in Message
        BY <1>0, <1>1, <1>2 DEF Message
    <2>2. QED
        BY <1>0, <1>1, <2>1
<1>6. pc' \in [Writers -> {"idle", "lock", "header", "body", "wait", "cleanup",
                           "read", "deliver", "failing", "stopped"}]
    BY <1>0 DEF StartRequest, Goto
<1>7. outcome' \in [Callers -> Outcome]
    BY <1>0 DEF StartRequest, Ends, Outcome, End
<1>8. QED
    BY <1>2, <1>3, <1>4, <1>5, <1>6, <1>7
       DEF StartRequest, TypeOK, boxes, pipes, server

\* So does taking an answer off stdout.
LEMMA AnswerTypes == TypeOK /\ ReadResponse => TypeOK'
<1> SUFFICES ASSUME TypeOK, ReadResponse PROVE TypeOK'
    OBVIOUS
<1> DEFINE m == Head(stdout)
<1>1. /\ stdout \in Seq(Incoming) /\ inHand \subseteq Letter /\ Len(askedBy) \in Nat
      /\ pending \subseteq 1..Len(askedBy) /\ Len(askedBy) <= MaxId /\ MaxId \in Nat
      /\ pc \in [Writers -> {"idle", "lock", "header", "body", "wait", "cleanup",
                             "read", "deliver", "failing", "stopped"}]
    BY BoundsAssumption DEF TypeOK
<1>2. stdout # <<>> /\ stdout' = Tail(stdout) /\ m.kind \in {"result", "error"}
    BY DEF ReadResponse, Reads
<1>3. m \in Incoming /\ stdout' \in Seq(Incoming)
    BY <1>1, <1>2
<1>4. pending' = pending \ {m.id}
    BY DEF ReadResponse
<1>5. inHand' \subseteq Letter
    <2>1. CASE m.id \in pending
        <3>1. m.id \in Ids
            <4> DEFINE n == Len(askedBy)
            <4>1. n \in Nat /\ n <= MaxId /\ MaxId \in Nat /\ m.id \in 1..n
                BY <1>1, <2>1
            <4> HIDE DEF n, m
            <4>2. QED
                BY <4>1 DEF Ids
        <3>2. [to |-> m.id, kind |-> m.kind, about |-> m.about] \in Letter
            BY <1>2, <1>3, <3>1 DEF Letter, Incoming
        <3>3. QED
            BY <2>1, <3>2 DEF ReadResponse, Hands
    <2>2. CASE m.id \notin pending
        BY <1>1, <2>2 DEF ReadResponse, Drops
    <2>3. QED
        BY <2>1, <2>2
<1>6. pc' \in [Writers -> {"idle", "lock", "header", "body", "wait", "cleanup",
                           "read", "deliver", "failing", "stopped"}]
    BY <1>1 DEF ReadResponse, Hands, Drops, Goto
<1>7. UNCHANGED <<script, cur, askedBy, mail, failing, done, writeMu, stdin, stdinClosed, server, reaped>>
    BY DEF ReadResponse, Reads
<1>8. QED
    BY <1>3, <1>4, <1>5, <1>6, <1>7 DEF TypeOK, script, server

\* And a frame taken off stdin by gopls.
LEMMA ServerReadTypes == TypeOK /\ ServerReads => TypeOK'
<1> SUFFICES ASSUME TypeOK, ServerReads PROVE TypeOK'
    OBVIOUS
<1>1. stdin \in Seq(Chunk) /\ Len(stdin) >= 2 /\ backlog \subseteq Message
    BY DEF TypeOK, ServerReads
<1>2. stdin[2].msg \in Message
    <2>1. stdin[2] \in Chunk
        BY <1>1
    <2>2. QED
        BY <2>1 DEF Chunk
<1>3. SubSeq(stdin, 3, Len(stdin)) \in Seq(Chunk)
    BY <1>1
<1>4. /\ stdin' \in {<<>>, SubSeq(stdin, 3, Len(stdin))}
      /\ srv' \in {srv, "gone"}
      /\ backlog' \in {{}, backlog, backlog \cup {stdin[2].msg}}
    <2>1. CASE stdin[2].msg.method = "exit"
        BY <2>1 DEF ServerReads, Dies
    <2>2. CASE stdin[2].msg.method # "exit"
        BY <2>2 DEF ServerReads
    <2>3. QED
        BY <2>1, <2>2
<1>5. stdin' \in Seq(Chunk) /\ backlog' \subseteq Message
    <2>1. <<>> \in Seq(Chunk)
        OBVIOUS
    <2>2. QED
        BY <1>1, <1>2, <1>3, <1>4, <2>1
<1>6. QED
    BY <1>4, <1>5 DEF ServerReads, ClientSide, TypeOK, script, calls, boxes

\* A goroutine goes to a label.
LEMMA GotoTypes ==
  ASSUME TypeOK, NEW w \in Writers, NEW label, Goto(w, label),
         label \in {"idle", "lock", "header", "body", "wait", "cleanup",
                    "read", "deliver", "failing", "stopped"}
  PROVE  pc' \in [Writers -> {"idle", "lock", "header", "body", "wait", "cleanup",
                              "read", "deliver", "failing", "stopped"}]
BY DEF TypeOK, Goto

\* A call has an outcome without an answer.
LEMMA EndTypes ==
  ASSUME TypeOK, NEW c \in Callers, NEW kind, Ends(c, End(kind)),
         kind \in {"exited", "timeout", "unsent", "sent"}
  PROVE  outcome' \in [Callers -> Outcome]
<1>1. End(kind) \in Outcome
    BY DEF End, Outcome
<1>2. QED
    BY <1>1 DEF TypeOK, Ends

\* request gives up: the deadline or the exit of gopls.
LEMMA GivesUpTypes ==
  ASSUME TypeOK, NEW c \in Callers, NEW kind, kind \in {"exited", "timeout"},
         GivesUp(c, kind), done' \in BOOLEAN
  PROVE  TypeOK'
<1>1. outcome' \in [Callers -> Outcome]
    BY EndTypes DEF GivesUp
<1>2. pc' \in [Writers -> {"idle", "lock", "header", "body", "wait", "cleanup",
                           "read", "deliver", "failing", "stopped"}]
    BY GotoTypes DEF GivesUp, Writers
<1>3. UNCHANGED <<step, calls, boxes, writeMu, pipes, server, reaped>>
    BY DEF GivesUp
<1>4. QED
    BY <1>1, <1>2, <1>3 DEF TypeOK, script, calls, boxes, pipes, server

\* The next-state relation preserves the types of all variables.
LEMMA TypeStep == TypeOK /\ [Next]_vars => TypeOK'
<1> SUFFICES ASSUME TypeOK, [Next]_vars PROVE TypeOK'
    OBVIOUS
<1> USE RolesAssumption, BoundsAssumption DEF TypeOK, Ids, Methods, Message, Chunk,
        Incoming, Letter, Outcome, End, script, calls, boxes, pipes, server
<1>1. ASSUME NEW c \in Callers, Query(c) PROVE TypeOK'
    BY <1>1, RequestTypes DEF Query
<1>2. ASSUME NEW c \in Callers, Receive(c) PROVE TypeOK'
    BY <1>2 DEF Receive, Ends, Goto
<1>3. ASSUME NEW c \in Callers, Timeout(c) PROVE TypeOK'
    BY <1>3, GivesUpTypes DEF Timeout
<1>4. ASSUME NEW c \in Callers, SawDone(c) PROVE TypeOK'
    BY <1>4, GivesUpTypes DEF SawDone
<1>5. ASSUME NEW c \in Callers, CleanUp(c) PROVE TypeOK'
    <2>1. pc' \in [Writers -> {"idle", "lock", "header", "body", "wait", "cleanup",
                               "read", "deliver", "failing", "stopped"}]
        BY <1>5, GotoTypes DEF CleanUp, Writers
    <2>2. pending' \subseteq 1..Len(askedBy')
        BY <1>5 DEF CleanUp
    <2>3. UNCHANGED <<script, cur, askedBy, boxes, done, writeMu, pipes, server, reaped>>
        BY <1>5 DEF CleanUp
    <2>4. QED
        BY <2>1, <2>2, <2>3
<1>6. ASSUME NEW w \in Writers, Lock(w) PROVE TypeOK'
    BY <1>6 DEF Lock, Goto
<1>7. ASSUME NEW w \in Writers, WriteHeader(w) PROVE TypeOK'
    <2>1. stdin' \in Seq(Chunk)
        BY <1>7 DEF WriteHeader, Put
    <2>2. pc' \in [Writers -> {"idle", "lock", "header", "body", "wait", "cleanup",
                               "read", "deliver", "failing", "stopped"}]
        BY <1>7, GotoTypes DEF WriteHeader
    <2>3. QED
        BY <1>7, <2>1, <2>2 DEF WriteHeader
<1>8. ASSUME NEW w \in Writers, WriteBody(w) PROVE TypeOK'
    <2>1. stdin' \in Seq(Chunk)
        BY <1>8 DEF WriteBody, Put
    <2>2. CASE w = Reader
        BY <1>8, <2>1, <2>2 DEF WriteBody, Goto
    <2>3. CASE w \in Callers
        <3>1. outcome' \in [Callers -> Outcome]
            BY <1>8, <2>3, EndTypes DEF WriteBody
        <3>2. pc' \in [Writers -> {"idle", "lock", "header", "body", "wait", "cleanup",
                                   "read", "deliver", "failing", "stopped"}]
            BY <1>8, <2>3, GotoTypes DEF WriteBody
        <3>3. QED
            BY <1>8, <2>1, <3>1, <3>2 DEF WriteBody
    <2>4. QED
        BY <2>2, <2>3
<1>9. ASSUME NEW w \in Writers, WriteFails(w) PROVE TypeOK'
    <2>1. CASE w = Reader
        BY <1>9, <2>1 DEF WriteFails, AfterFailure, Goto
    <2>2. CASE w \in Callers
        <3>1. Ends(w, End("unsent")) /\ Goto(w, IF cur[w].id = 0 THEN "idle" ELSE "cleanup")
            BY <1>9, <2>2, RolesAssumption DEF WriteFails, AfterFailure
        <3>2. outcome' \in [Callers -> Outcome]
            BY <2>2, <3>1, EndTypes
        <3>3. (IF cur[w].id = 0 THEN "idle" ELSE "cleanup") \in {"idle", "cleanup"}
            OBVIOUS
        <3>4. pc' \in [Writers -> {"idle", "lock", "header", "body", "wait", "cleanup",
                                   "read", "deliver", "failing", "stopped"}]
            BY <2>2, <3>1, <3>3 DEF Goto
        <3>5. QED
            BY <1>9, <3>2, <3>4 DEF WriteFails, AfterFailure
    <2>3. QED
        BY <2>1, <2>2
<1>10. CASE ReadResponse
    BY <1>10, AnswerTypes
<1>11. CASE Deliver
    BY <1>11 DEF Deliver, Goto
<1>12. CASE ReadAsk
    BY <1>12 DEF ReadAsk, Reads, Goto
<1>13. CASE ReadNote
    BY <1>13 DEF ReadNote, Reads
<1>14. CASE ReadFails
    BY <1>14 DEF ReadFails, CannotRead, Goto
<1>15. CASE FailOne
    BY <1>15 DEF FailOne
<1>16. CASE ReaderStops
    BY <1>16 DEF ReaderStops, Goto
<1>17. CASE Reap
    BY <1>17 DEF Reap
<1>18. CASE Initialize
    BY <1>18, RequestTypes DEF Initialize
<1>19. CASE Initialized
    BY <1>19 DEF Initialized, StartNotify, Ends, Goto
<1>20. CASE Serve
    BY <1>20 DEF Serve
<1>21. CASE DidOpen
    BY <1>21 DEF DidOpen, StartNotify, Ends, Goto
<1>22. CASE Shutdown
    BY <1>22, RequestTypes DEF Shutdown
<1>23. CASE Exit
    BY <1>23 DEF Exit, StartNotify, Ends, Goto
<1>24. CASE CloseStdin
    BY <1>24 DEF CloseStdin
<1>25. CASE ServerReads
    BY <1>25, ServerReadTypes
<1>26. ASSUME NEW m \in backlog, ServerAnswers(m) PROVE TypeOK'
    BY <1>26 DEF ServerAnswers, Emits, ClientSide
<1>27. CASE ServerSpeaks
    BY <1>27 DEF ServerSpeaks, Emits, ClientSide
<1>28. CASE ServerGarbles
    BY <1>28 DEF ServerGarbles, Emits, ClientSide
<1>29. CASE ServerCrashes
    BY <1>29 DEF ServerCrashes, Dies, ClientSide
<1>31. CASE UNCHANGED vars
    BY <1>31 DEF vars
<1>32. QED
    BY <1>1, <1>2, <1>3, <1>4, <1>5, <1>6, <1>7, <1>8, <1>9, <1>10, <1>11, <1>12,
       <1>13, <1>14, <1>15, <1>16, <1>17, <1>18, <1>19, <1>20, <1>21, <1>22, <1>23,
       <1>24, <1>25, <1>26, <1>27, <1>28, <1>29, <1>31
       DEF Next, CallerStep, WriterStep, ReaderStep, MainStep, ServerStep, Terminating

\* The types hold when the process has just been started.
LEMMA InitTypes == Init => TypeOK
<1> SUFFICES ASSUME Init PROVE TypeOK
    OBVIOUS
<1>1. askedBy \in Seq(Callers) /\ Len(askedBy) = 0 /\ Len(askedBy) <= MaxId
    BY BoundsAssumption DEF Init
<1>2. cur \in [Writers -> Message]
    BY BoundsAssumption DEF Init, Nothing, Message, Methods
<1>3. outcome \in [Callers -> Outcome]
    BY DEF Init, Outcome, End
<1>4. pc \in [Writers -> {"idle", "lock", "header", "body", "wait", "cleanup",
                          "read", "deliver", "failing", "stopped"}]
    BY DEF Init
<1>5. stdin \in Seq(Chunk) /\ stdout \in Seq(Incoming)
    BY DEF Init
<1>6. pending \subseteq 1..Len(askedBy)
    BY DEF Init
<1>7. /\ step = "start" /\ mail = {} /\ inHand = {} /\ failing = {} /\ done = FALSE
      /\ writeMu = NoOne /\ stdinClosed = FALSE /\ srv = "up" /\ reaped = FALSE
      /\ backlog = {} /\ speech \in 0..MaxSpeech /\ garbled = FALSE
    BY BoundsAssumption DEF Init
<1>8. QED
    BY <1>1, <1>2, <1>3, <1>4, <1>5, <1>6, <1>7 DEF TypeOK

\* The variables of the client and of its pipes keep their types.
THEOREM TypeCorrect == Spec => []TypeOK
    BY InitTypes, TypeStep, PTL DEF Spec

---------------------------------------------------------------------------
\* The types SafeInv needs, without the rest of TypeOK.
Shapes ==
    /\ pc \in [Writers -> {"idle", "lock", "header", "body", "wait", "cleanup",
                           "read", "deliver", "failing", "stopped"}]
    /\ cur \in [Writers -> Message]
    /\ askedBy \in Seq(Callers) /\ Len(askedBy) \in Nat
    /\ pending \subseteq 1..Len(askedBy)
    /\ stdout \in Seq(Incoming)

\* They follow from it.
LEMMA ShapesFromTypes == TypeOK => Shapes
    BY DEF TypeOK, Shapes

\* Registering a request: its id is new to every carrier of answers.
LEMMA RequestSafe ==
    ASSUME Shapes, SafeInv, NEW c \in Callers, NEW method, StartRequest(c, method)
    PROVE  SafeInv'
<1> DEFINE n == Len(askedBy) + 1
<1>1. /\ askedBy' = Append(askedBy, c) /\ pending' = pending \cup {n}
      /\ cur' = [cur EXCEPT ![c] = [method |-> method, id |-> n, about |-> c]]
      /\ pc' = [pc EXCEPT ![c] = "lock"]
      /\ UNCHANGED <<mail, inHand, failing, stdout, srv, garbled, reaped>>
    BY DEF StartRequest, Goto, boxes, pipes, server
<1>2. /\ Len(askedBy') = n /\ n \in Nat /\ n # 0 /\ n \in 1..n
      /\ askedBy'[n] = c
      /\ \A i \in 1..Len(askedBy) : i \in 1..n /\ i # n /\ askedBy'[i] = askedBy[i]
    BY <1>1 DEF Shapes
<1> HIDE DEF n
<1>3. Lanes'
    BY <1>1, RolesAssumption DEF Lanes, SafeInv, Shapes
<1>4. Issued'
    BY <1>1, <1>2, RolesAssumption DEF Issued, SafeInv, Shapes, InRequest
<1>5. ReaderHands'
    BY <1>1, RolesAssumption DEF ReaderHands, SafeInv, Shapes
<1>6. ReaderEndsWithCause'
    BY <1>1, RolesAssumption DEF ReaderEndsWithCause, SafeInv, Shapes, ReaderOver
<1>7. AnsweredOnce'
    <2>1. ~Carried(n) /\ ~Doomed(n) /\ ~Boxed(n)
        BY <1>2 DEF SafeInv, Issued, Carried, Doomed, Boxed
    <2>2. QED
        BY <1>1, <2>1 DEF AnsweredOnce, SafeInv, Registered, Carried, Doomed, Boxed
<1>8. Answerable'
    <2> SUFFICES ASSUME NEW d \in Callers, InRequest(d)'
                 PROVE  /\ HasToken(cur[d].id)'
                        /\ (pc[d] = "wait" /\ ReaderOver /\ Registered(cur[d].id))' => garbled'
        BY DEF Answerable
    <2>1. CASE d = c
        <3>1. cur'[d].id = n /\ pc'[d] = "lock"
            BY <1>1, <2>1 DEF Shapes
        <3>2. QED
            BY <1>1, <3>1 DEF HasToken, Registered
    <2>2. CASE d # c
        <3>1. cur'[d] = cur[d] /\ pc'[d] = pc[d] /\ pc'[Reader] = pc[Reader]
            BY <1>1, <2>2, RolesAssumption DEF Shapes
        <3>2. InRequest(d) /\ cur[d].id # n
            BY <1>2, <3>1 DEF InRequest, SafeInv, Issued
        <3>3. HasToken(cur[d].id)
            BY <3>2 DEF SafeInv, Answerable
        <3>4. HasToken(cur[d].id)'
            BY <1>1, <3>1, <3>3 DEF HasToken, Registered, Carried, Doomed, Boxed
        <3>5. ASSUME (pc[d] = "wait" /\ ReaderOver /\ Registered(cur[d].id))' PROVE garbled'
            BY <1>1, <3>1, <3>2, <3>5 DEF SafeInv, Answerable, ReaderOver, Registered
        <3>6. QED
            BY <3>4, <3>5
    <2>3. QED
        BY <2>1, <2>2
<1>9. QED
    BY <1>3, <1>4, <1>5, <1>6, <1>7, <1>8 DEF SafeInv

\* Steps that leave the goroutines and the carriers of answers alone.
LEMMA ElsewhereSafe ==
    ASSUME Shapes, SafeInv, ReaderEndsWithCause',
           UNCHANGED <<pc, cur, askedBy, pending, mail, inHand, failing>>,
           garbled => garbled'
    PROVE  SafeInv'
    BY DEF SafeInv, Lanes, Issued, ReaderHands, AnsweredOnce, Answerable,
           InRequest, HasToken, Registered, Carried, Doomed, Boxed, ReaderOver

\* Steps of one goroutine inside write() or the select: it stays in its lane,
\* enters no request, and waits for the reader only while the reader lives.
LEMMA ControlSafe ==
    ASSUME Shapes, SafeInv, NEW w \in Writers, NEW label, Goto(w, label),
           UNCHANGED <<cur, askedBy, pending, mail, inHand, failing, stdout, srv, garbled>>,
           reaped' = reaped,
           w = Reader =>
              \/ label \in {"read", "header", "body"} /\ pc[w] \in {"lock", "header", "body"}
              \/ label = "stopped" /\ pc[w] = "failing" /\ failing = {},
           w \in Callers =>
              \/ label \in {"header", "body"} /\ pc[w] \in {"lock", "header"}
              \/ label = "wait" /\ pc[w] = "body" /\ cur[w].id # 0 /\ srv = "up"
              \/ label = "idle" /\ pc[w] \in {"header", "body"} /\ cur[w].id = 0
              \/ label = "cleanup" /\ pc[w] \in {"header", "body", "wait"} /\ cur[w].id # 0
    PROVE  SafeInv'
<1>1. pc' = [pc EXCEPT ![w] = label]
    BY DEF Goto
<1>2. Lanes'
    BY <1>1, RolesAssumption DEF Lanes, SafeInv, Shapes
<1>3. Issued'
    BY <1>1, RolesAssumption DEF Issued, SafeInv, Shapes, InRequest
<1>4. ReaderHands'
    BY <1>1, RolesAssumption DEF ReaderHands, SafeInv, Shapes
<1>5. ReaderEndsWithCause'
    BY <1>1, RolesAssumption DEF ReaderEndsWithCause, SafeInv, Shapes, ReaderOver
<1>6. AnsweredOnce'
    BY DEF AnsweredOnce, SafeInv, Registered, Carried, Doomed, Boxed
<1>7. Answerable'
    <2> SUFFICES ASSUME NEW d \in Callers, InRequest(d)'
                 PROVE  /\ HasToken(cur[d].id)'
                        /\ (pc[d] = "wait" /\ ReaderOver /\ Registered(cur[d].id))' => garbled'
        BY DEF Answerable
    <2>1. InRequest(d)
        BY <1>1, RolesAssumption DEF InRequest, Shapes
    <2>2. HasToken(cur[d].id)'
        BY <2>1 DEF SafeInv, Answerable, HasToken, Registered, Carried, Doomed, Boxed
    <2>3. ASSUME (pc[d] = "wait" /\ ReaderOver /\ Registered(cur[d].id))' PROVE garbled'
        <3>1. ReaderOver
            BY <1>1, <2>3, RolesAssumption DEF ReaderOver, Shapes
        <3>2. CASE pc[d] = "wait"
            BY <2>1, <2>3, <3>1, <3>2 DEF SafeInv, Answerable, Registered
        <3>3. CASE pc[d] # "wait"
            BY <1>1, <2>3, <3>1, <3>3, RolesAssumption DEF SafeInv, ReaderEndsWithCause, Shapes
        <3>4. QED
            BY <3>2, <3>3
    <2>4. QED
        BY <2>2, <2>3
<1>8. QED
    BY <1>2, <1>3, <1>4, <1>5, <1>6, <1>7 DEF SafeInv

\* A notification is not a request: it carries no token.
LEMMA NotifySafe ==
    ASSUME Shapes, SafeInv, NEW c \in Callers, NEW method, StartNotify(c, method)
    PROVE  SafeInv'
<1>1. /\ cur' = [cur EXCEPT ![c] = [method |-> method, id |-> 0, about |-> NoOne]]
      /\ pc' = [pc EXCEPT ![c] = "lock"]
      /\ UNCHANGED <<askedBy, pending, mail, inHand, failing, stdout, srv, garbled, reaped>>
    BY DEF StartNotify, Goto, boxes, pipes, server
<1>2. pc'[Reader] = pc[Reader] /\ cur'[c].id = 0 /\ pc'[c] = "lock"
    BY <1>1, RolesAssumption DEF Shapes
<1>3. \A d \in Callers \ {c} : pc'[d] = pc[d] /\ cur'[d] = cur[d]
    BY <1>1, RolesAssumption DEF Shapes
<1>4. Lanes'
    BY <1>2, <1>3 DEF Lanes, SafeInv
<1>5. Issued'
    BY <1>1, <1>2, <1>3 DEF Issued, SafeInv, InRequest
<1>6. ReaderHands' /\ ReaderEndsWithCause'
    BY <1>1, <1>2 DEF ReaderHands, ReaderEndsWithCause, SafeInv, ReaderOver
<1>7. AnsweredOnce'
    BY <1>1 DEF AnsweredOnce, SafeInv, Registered, Carried, Doomed, Boxed
<1>8. Answerable'
    BY <1>1, <1>2, <1>3 DEF Answerable, SafeInv, InRequest, HasToken, Registered,
       Carried, Doomed, Boxed, ReaderOver
<1>9. QED
    BY <1>4, <1>5, <1>6, <1>7, <1>8 DEF SafeInv

\* Two requests in progress, or one in progress and one being cleaned up,
\* have different ids.
LEMMA IdsDiffer ==
    ASSUME SafeInv, NEW c \in Callers, NEW d \in Callers, c # d,
           InRequest(c) \/ pc[c] = "cleanup", InRequest(d)
    PROVE  cur[c].id # cur[d].id
    BY DEF SafeInv, Issued

\* A caller that takes its answer, or gives up, takes nobody else's.
LEMMA LeaveSafe ==
    ASSUME Shapes, SafeInv, NEW c \in Callers, Receive(c) \/ CleanUp(c)
    PROVE  SafeInv'
<1>1. /\ pc' = [pc EXCEPT ![c] = "idle"]
      /\ UNCHANGED <<cur, askedBy, inHand, failing, stdout, srv, garbled, reaped>>
    BY DEF Receive, CleanUp, Goto, calls, boxes, pipes, server
<1>2. /\ mail' \subseteq mail /\ pending' \subseteq pending
      /\ \A l \in mail : l.to # cur[c].id => l \in mail'
      /\ \A id \in pending : id # cur[c].id => id \in pending'
    BY DEF Receive, CleanUp, boxes, calls
<1>3. pc'[Reader] = pc[Reader] /\ pc'[c] = "idle"
    BY <1>1, RolesAssumption DEF Shapes
<1>4. \A d \in Callers \ {c} : pc'[d] = pc[d]
    BY <1>1, RolesAssumption DEF Shapes
<1>5. Lanes'
    BY <1>3, <1>4 DEF Lanes, SafeInv
<1>6. Issued'
    BY <1>1, <1>2, <1>3, <1>4 DEF Issued, SafeInv, InRequest
<1>7. ReaderHands' /\ ReaderEndsWithCause'
    BY <1>1, <1>3 DEF ReaderHands, ReaderEndsWithCause, SafeInv, ReaderOver
<1>8. AnsweredOnce'
    BY <1>1, <1>2 DEF AnsweredOnce, SafeInv, Registered, Carried, Doomed, Boxed
<1>9. Answerable'
    <2> SUFFICES ASSUME NEW d \in Callers, InRequest(d)'
                 PROVE  /\ HasToken(cur[d].id)'
                        /\ (pc[d] = "wait" /\ ReaderOver /\ Registered(cur[d].id))' => garbled'
        BY DEF Answerable
    <2>1. d # c
        BY <1>3 DEF InRequest
    <2>2. InRequest(d) /\ pc'[d] = pc[d] /\ cur'[d] = cur[d]
        BY <1>1, <1>4, <2>1 DEF InRequest
    <2>3. InRequest(c) \/ pc[c] = "cleanup"
        BY DEF Receive, CleanUp, InRequest, SafeInv, Issued
    <2>4. cur[d].id # cur[c].id
        BY <2>1, <2>2, <2>3, IdsDiffer
    <2>5. HasToken(cur[d].id)
        BY <2>2 DEF SafeInv, Answerable
    <2>6. HasToken(cur[d].id)'
        BY <1>1, <1>2, <2>2, <2>4, <2>5 DEF HasToken, Registered, Carried, Doomed, Boxed
    <2>7. ASSUME (pc[d] = "wait" /\ ReaderOver /\ Registered(cur[d].id))' PROVE garbled'
        BY <1>1, <1>2, <1>3, <2>2, <2>7 DEF SafeInv, Answerable, ReaderOver, Registered
    <2>8. QED
        BY <2>6, <2>7
<1>10. QED
    BY <1>5, <1>6, <1>7, <1>8, <1>9 DEF SafeInv

\* The reader moves answers on; the callers do not move.  If no request loses
\* its token and nothing comes to rely on an ended reader, all is kept.
LEMMA ReaderSafe ==
    ASSUME SafeInv, Lanes', ReaderHands', ReaderEndsWithCause', AnsweredOnce',
           \A c \in Callers : pc'[c] = pc[c] /\ cur'[c] = cur[c],
           askedBy' = askedBy, garbled' = garbled,
           \A l \in (mail \cup inHand)' : HasToken(l.to),
           \A id \in failing' : HasToken(id),
           \A id : HasToken(id) => HasToken(id)',
           ReaderOver' => pending' = {} \/ (ReaderOver /\ pending' = pending),
           pending \subseteq 1..Len(askedBy)
    PROVE  SafeInv'
<1>1. \A id : HasToken(id) => id \in 1..Len(askedBy)
    BY DEF HasToken, Registered, Carried, Doomed, Boxed, SafeInv, Issued
<1>2. Issued'
    BY <1>1 DEF Issued, SafeInv, InRequest
<1>3. Answerable'
    BY DEF Answerable, SafeInv, InRequest, Registered, ReaderOver
<1>4. QED
    BY <1>2, <1>3 DEF SafeInv

\* Taking an answer off stdout moves its request from pending to the reader's hand.
LEMMA ReadResponseSafe == Shapes /\ SafeInv /\ ReadResponse => SafeInv'
<1> SUFFICES ASSUME Shapes, SafeInv, ReadResponse PROVE SafeInv'
    OBVIOUS
<1> DEFINE m == Head(stdout)
<1>1. /\ pc[Reader] = "read" /\ stdout # <<>> /\ stdout' = Tail(stdout)
      /\ UNCHANGED <<cur, askedBy, mail, failing, srv, garbled, reaped>>
      /\ pending' = pending \ {m.id}
    BY DEF ReadResponse, Reads, script, server
<1>2. inHand = {} /\ failing = {}
    BY <1>1 DEF SafeInv, ReaderHands
<1>3. \/ /\ m.id \in pending
         /\ inHand' = {[to |-> m.id, kind |-> m.kind, about |-> m.about]}
         /\ pc' = [pc EXCEPT ![Reader] = "deliver"]
      \/ /\ m.id \notin pending
         /\ inHand' = {} /\ pc' = pc
    BY <1>2 DEF ReadResponse, Hands, Drops, Goto
<1> HIDE DEF m
<1>4. Lanes' /\ ReaderHands' /\ \A c \in Callers : pc'[c] = pc[c]
    BY <1>1, <1>2, <1>3, RolesAssumption DEF Lanes, ReaderHands, SafeInv, Shapes
<1>5. ReaderEndsWithCause' /\ ~ReaderOver'
    <2>1. pc'[Reader] \in {"read", "deliver"}
        BY <1>1, <1>3 DEF Shapes
    <2>2. \A i \in 1..Len(stdout') : stdout'[i] = stdout[i + 1] /\ i + 1 \in 1..Len(stdout)
        BY <1>1 DEF Shapes
    <2>3. QED
        BY <1>1, <2>1, <2>2 DEF ReaderEndsWithCause, SafeInv, ReaderOver
<1>6. AnsweredOnce'
    BY <1>1, <1>2, <1>3 DEF AnsweredOnce, SafeInv, Registered, Carried, Doomed, Boxed
<1>7. \A id : HasToken(id) => HasToken(id)'
    <2> SUFFICES ASSUME NEW id, HasToken(id) PROVE HasToken(id)'
        OBVIOUS
    <2>1. CASE id \in pending /\ id = m.id
        <3> DEFINE letter == [to |-> m.id, kind |-> m.kind, about |-> m.about]
        <3>1. letter \in inHand'
            BY <1>3, <2>1
        <3>2. letter.to = id
            BY <2>1
        <3> HIDE DEF letter
        <3>3. QED
            BY <3>1, <3>2 DEF HasToken, Carried
    <2>2. CASE id \in pending /\ id # m.id
        BY <1>1, <2>2 DEF HasToken, Registered
    <2>3. CASE id \notin pending
        BY <1>1, <1>2, <2>3 DEF HasToken, Registered, Carried, Doomed, Boxed
    <2>4. QED
        BY <2>1, <2>2, <2>3
<1>8. \A l \in (mail \cup inHand)' : HasToken(l.to)
    BY <1>1, <1>3 DEF HasToken, Registered, Boxed
<1>9. QED
    BY <1>1, <1>2, <1>4, <1>5, <1>6, <1>7, <1>8, ReaderSafe DEF Shapes

\* Sending it puts it into the channel.
LEMMA DeliverSafe == Shapes /\ SafeInv /\ Deliver => SafeInv'
<1> SUFFICES ASSUME Shapes, SafeInv, Deliver PROVE SafeInv'
    OBVIOUS
<1>1. PICK l \in inHand : (\A k \in mail : k.to # l.to) /\ mail' = mail \cup {l}
    BY DEF Deliver
<1>2. /\ pc[Reader] = "deliver" /\ pc' = [pc EXCEPT ![Reader] = "read"] /\ inHand' = {}
      /\ UNCHANGED <<cur, askedBy, pending, failing, stdout, srv, garbled, reaped>>
    BY DEF Deliver, Goto, calls, pipes, server
<1>3. failing = {}
    BY <1>2 DEF SafeInv, ReaderHands
<1>4. Lanes' /\ ReaderHands' /\ \A c \in Callers : pc'[c] = pc[c]
    BY <1>2, <1>3, RolesAssumption DEF Lanes, ReaderHands, SafeInv, Shapes
<1>5. ReaderEndsWithCause' /\ ~ReaderOver'
    BY <1>2 DEF ReaderEndsWithCause, SafeInv, ReaderOver, Shapes
<1>6. AnsweredOnce'
    BY <1>1, <1>2, <1>3 DEF AnsweredOnce, SafeInv, Registered, Carried, Doomed, Boxed
<1>7. \A k \in inHand : k = l
    BY DEF SafeInv, ReaderHands
<1>8. \A id : HasToken(id) => HasToken(id)'
    BY <1>1, <1>2, <1>7 DEF HasToken, Registered, Carried, Doomed, Boxed
<1>9. \A k \in (mail \cup inHand)' : HasToken(k.to)
    BY <1>1, <1>2 DEF HasToken, Carried, Boxed
<1>10. QED
    BY <1>2, <1>3, <1>4, <1>5, <1>6, <1>8, <1>9, ReaderSafe DEF Shapes

\* When the reader ends, all that was registered is in failPending's hands.
LEMMA ReadFailsSafe == Shapes /\ SafeInv /\ ReadFails => SafeInv'
<1> SUFFICES ASSUME Shapes, SafeInv, ReadFails PROVE SafeInv'
    OBVIOUS
<1>1. /\ pc[Reader] = "read" /\ pc' = [pc EXCEPT ![Reader] = "failing"]
      /\ failing' = pending /\ pending' = {}
      /\ UNCHANGED <<cur, askedBy, mail, inHand, stdout, srv, garbled, reaped>>
    BY DEF ReadFails, CannotRead, Goto, pipes, server
<1>2. inHand = {} /\ failing = {}
    BY <1>1 DEF SafeInv, ReaderHands
<1>3. Lanes' /\ ReaderHands' /\ \A c \in Callers : pc'[c] = pc[c]
    BY <1>1, <1>2, RolesAssumption DEF Lanes, ReaderHands, SafeInv, Shapes
<1>4. garbled \/ srv = "gone"
    <2>1. \/ srv = "gone" \/ reaped
          \/ stdout # <<>> /\ Head(stdout).kind = "garbage"
        BY DEF ReadFails, CannotRead
    <2>2. stdout # <<>> => 1 \in 1..Len(stdout) /\ Head(stdout) = stdout[1]
        BY DEF Shapes
    <2>3. QED
        BY <2>1, <2>2 DEF SafeInv, ReaderEndsWithCause
<1>5. ReaderEndsWithCause'
    BY <1>1, <1>4 DEF ReaderEndsWithCause, SafeInv
<1>6. AnsweredOnce'
    BY <1>1, <1>2 DEF AnsweredOnce, SafeInv, Registered, Carried, Doomed, Boxed
<1>7. \A id : HasToken(id) => HasToken(id)'
    BY <1>1, <1>2 DEF HasToken, Registered, Carried, Doomed, Boxed
<1>8. /\ \A l \in (mail \cup inHand)' : HasToken(l.to)
      /\ \A id \in failing' : HasToken(id)
    BY <1>1 DEF HasToken, Registered, Carried, Boxed
<1>9. /\ \A c \in Callers : pc'[c] = pc[c] /\ cur'[c] = cur[c]
      /\ askedBy' = askedBy /\ garbled' = garbled
      /\ ReaderOver' => pending' = {} \/ (ReaderOver /\ pending' = pending)
      /\ pending \subseteq 1..Len(askedBy)
    BY <1>1, <1>3 DEF Shapes
<1>10. QED
    BY <1>3, <1>5, <1>6, <1>7, <1>8, <1>9, ReaderSafe

\* failPending puts an error into one channel after another.
LEMMA FailOneSafe == Shapes /\ SafeInv /\ FailOne => SafeInv'
<1> SUFFICES ASSUME Shapes, SafeInv, FailOne PROVE SafeInv'
    OBVIOUS
<1>1. PICK id \in failing :
          /\ \A k \in mail : k.to # id
          /\ mail' = mail \cup {[to |-> id, kind |-> "failed", about |-> NoOne]}
          /\ failing' = failing \ {id}
    BY DEF FailOne
<1>2. /\ pc[Reader] = "failing"
      /\ UNCHANGED <<pc, cur, askedBy, pending, inHand, stdout, srv, garbled, reaped>>
    BY DEF FailOne, calls, pipes, server
<1>3. Lanes' /\ ReaderHands'
    BY <1>1, <1>2 DEF Lanes, ReaderHands, SafeInv
<1>4. ReaderEndsWithCause' /\ ReaderOver
    BY <1>2 DEF ReaderEndsWithCause, SafeInv, ReaderOver
<1>5. AnsweredOnce'
    BY <1>1, <1>2 DEF AnsweredOnce, SafeInv, Registered, Carried, Doomed, Boxed
<1>6. \A i : HasToken(i) => HasToken(i)'
    <2> SUFFICES ASSUME NEW i, HasToken(i) PROVE HasToken(i)'
        OBVIOUS
    <2>1. CASE i = id
        <3> DEFINE letter == [to |-> id, kind |-> "failed", about |-> NoOne]
        <3>1. letter \in mail'
            BY <1>1
        <3>2. letter.to = i
            BY <2>1
        <3> HIDE DEF letter
        <3>3. QED
            BY <3>1, <3>2 DEF HasToken, Boxed
    <2>2. CASE i # id
        BY <1>1, <1>2, <2>2 DEF HasToken, Registered, Carried, Doomed, Boxed
    <2>3. QED
        BY <2>1, <2>2
<1>7. /\ \A l \in (mail \cup inHand)' : HasToken(l.to)
      /\ \A i \in failing' : HasToken(i)
    BY <1>1, <1>2 DEF HasToken, Carried, Doomed, Boxed
<1>8. QED
    BY <1>2, <1>3, <1>4, <1>5, <1>6, <1>7, ReaderSafe DEF Shapes

\* What gopls says unasked touches no request.
LEMMA ReadAskSafe == Shapes /\ SafeInv /\ (ReadAsk \/ ReadNote) => SafeInv'
<1> SUFFICES ASSUME Shapes, SafeInv, ReadAsk \/ ReadNote PROVE SafeInv'
    OBVIOUS
<1>1. /\ pc[Reader] = "read" /\ stdout # <<>> /\ stdout' = Tail(stdout)
      /\ pc' \in {pc, [pc EXCEPT ![Reader] = "lock"]}
      /\ \A c \in Callers : cur'[c] = cur[c]
      /\ UNCHANGED <<askedBy, pending, mail, inHand, failing, srv, garbled, reaped>>
    BY RolesAssumption DEF ReadAsk, ReadNote, Reads, Goto, script, server, Shapes
<1>2. inHand = {} /\ failing = {}
    BY <1>1 DEF SafeInv, ReaderHands
<1>3. Lanes' /\ ReaderHands' /\ \A c \in Callers : pc'[c] = pc[c]
    BY <1>1, <1>2, RolesAssumption DEF Lanes, ReaderHands, SafeInv, Shapes
<1>4. ReaderEndsWithCause' /\ ~ReaderOver'
    <2>1. pc'[Reader] \in {"read", "lock"}
        BY <1>1 DEF Shapes
    <2>2. \A i \in 1..Len(stdout') : stdout'[i] = stdout[i + 1] /\ i + 1 \in 1..Len(stdout)
        BY <1>1 DEF Shapes
    <2>3. QED
        BY <1>1, <2>1, <2>2 DEF ReaderEndsWithCause, SafeInv, ReaderOver
<1>5. AnsweredOnce'
    BY <1>1 DEF AnsweredOnce, SafeInv, Registered, Carried, Doomed, Boxed
<1>6. \A id : HasToken(id) => HasToken(id)'
    BY <1>1 DEF HasToken, Registered, Carried, Doomed, Boxed
<1>7. /\ \A l \in (mail \cup inHand)' : HasToken(l.to)
      /\ \A id \in failing' : HasToken(id)
    BY <1>1 DEF HasToken, Carried, Doomed, Boxed
<1>8. QED
    BY <1>1, <1>3, <1>4, <1>5, <1>6, <1>7, ReaderSafe DEF Shapes

---------------------------------------------------------------------------
\* Every step of the client, of Main and of gopls keeps SafeInv.
LEMMA SafeStep == TypeOK /\ SafeInv /\ [Next]_vars => SafeInv'
<1> SUFFICES ASSUME TypeOK, SafeInv, [Next]_vars PROVE SafeInv'
    OBVIOUS
<1>0. Shapes
    BY ShapesFromTypes
<1> USE DEF script, calls, boxes, pipes, server
<1>1. ASSUME NEW c \in Callers, NEW method, StartRequest(c, method) PROVE SafeInv'
    BY <1>0, <1>1, RequestSafe
<1>2. ASSUME NEW c \in Callers, NEW method, StartNotify(c, method) PROVE SafeInv'
    BY <1>0, <1>2, NotifySafe
<1>3. ASSUME NEW c \in Callers, Receive(c) \/ CleanUp(c) PROVE SafeInv'
    BY <1>0, <1>3, LeaveSafe
<1>4. ASSUME NEW c \in Callers, Timeout(c) \/ SawDone(c) PROVE SafeInv'
    <2>1. c \in Writers /\ c # Reader /\ pc[c] = "wait" /\ cur[c].id # 0
        BY <1>4, RolesAssumption DEF Timeout, SawDone, GivesUp, SafeInv, Issued
    <2>2. Goto(c, "cleanup")
        BY <1>4 DEF Timeout, SawDone, GivesUp
    <2>3. UNCHANGED <<cur, askedBy, pending, mail, inHand, failing, stdout, srv, garbled, reaped>>
        BY <1>4 DEF Timeout, SawDone, GivesUp
    <2>4. QED
        BY <1>0, <2>1, <2>2, <2>3, ControlSafe
<1>5. ASSUME NEW w \in Writers, Lock(w) PROVE SafeInv'
    <2>1. /\ Goto(w, "header") /\ pc[w] = "lock"
          /\ UNCHANGED <<cur, askedBy, pending, mail, inHand, failing, stdout, srv, garbled, reaped>>
        BY <1>5 DEF Lock
    <2>2. QED
        BY <1>0, <2>1, ControlSafe
<1>6. ASSUME NEW w \in Writers, WriteHeader(w) PROVE SafeInv'
    <2>1. /\ Goto(w, "body") /\ pc[w] = "header"
          /\ UNCHANGED <<cur, askedBy, pending, mail, inHand, failing, stdout, srv, garbled, reaped>>
        BY <1>6 DEF WriteHeader
    <2>2. QED
        BY <1>0, <2>1, ControlSafe
<1>7. ASSUME NEW w \in Writers, WriteBody(w) PROVE SafeInv'
    <2>1. /\ pc[w] = "body" /\ srv = "up"
          /\ UNCHANGED <<cur, askedBy, pending, mail, inHand, failing, stdout, srv, garbled, reaped>>
        BY <1>7 DEF WriteBody, Put, Broken, TypeOK
    <2>2. CASE w = Reader /\ Goto(w, "read")
        BY <1>0, <2>1, <2>2, RolesAssumption, ControlSafe
    <2>3. CASE w \in Callers /\ cur[w].id = 0 /\ Goto(w, "idle")
        BY <1>0, <2>1, <2>3, RolesAssumption, ControlSafe
    <2>4. CASE w \in Callers /\ cur[w].id # 0 /\ Goto(w, "wait")
        BY <1>0, <2>1, <2>4, RolesAssumption, ControlSafe
    <2>5. QED
        BY <1>7, <2>2, <2>3, <2>4 DEF WriteBody
<1>8. ASSUME NEW w \in Writers, WriteFails(w) PROVE SafeInv'
    <2>1. /\ pc[w] \in {"header", "body"}
          /\ UNCHANGED <<cur, askedBy, pending, mail, inHand, failing, stdout, srv, garbled, reaped>>
        BY <1>8 DEF WriteFails, AfterFailure
    <2>2. CASE w = Reader /\ Goto(w, "read")
        BY <1>0, <2>1, <2>2, RolesAssumption, ControlSafe
    <2>3. CASE w \in Callers /\ cur[w].id = 0 /\ Goto(w, "idle")
        BY <1>0, <2>1, <2>3, RolesAssumption, ControlSafe
    <2>4. CASE w \in Callers /\ cur[w].id # 0 /\ Goto(w, "cleanup")
        BY <1>0, <2>1, <2>4, RolesAssumption, ControlSafe
    <2>5. QED
        BY <1>8, <2>2, <2>3, <2>4 DEF WriteFails, AfterFailure
<1>9. CASE ReaderStops
    <2>1. /\ Goto(Reader, "stopped") /\ pc[Reader] = "failing" /\ failing = {}
          /\ UNCHANGED <<cur, askedBy, pending, mail, inHand, failing, stdout, srv, garbled, reaped>>
        BY <1>9 DEF ReaderStops
    <2>2. QED
        BY <1>0, <2>1, RolesAssumption, ControlSafe
<1>10. CASE ReadResponse \/ Deliver \/ ReadAsk \/ ReadNote \/ ReadFails \/ FailOne
    BY <1>0, <1>10, ReadResponseSafe, DeliverSafe, ReadAskSafe, ReadFailsSafe, FailOneSafe
<1>11. CASE Reap \/ Serve \/ CloseStdin \/ UNCHANGED vars
    <2>1. /\ UNCHANGED <<pc, cur, askedBy, pending, mail, inHand, failing, stdout, srv, garbled>>
          /\ reaped' => srv = "gone"
        BY <1>11 DEF Reap, Serve, CloseStdin, vars, SafeInv, ReaderEndsWithCause
    <2>2. ReaderEndsWithCause'
        BY <2>1 DEF SafeInv, ReaderEndsWithCause, ReaderOver
    <2>3. QED
        BY <1>0, <2>1, <2>2, ElsewhereSafe
<1>12. CASE ServerReads \/ ServerCrashes
    <2>1. /\ UNCHANGED <<pc, cur, askedBy, pending, mail, inHand, failing, stdout, garbled, reaped>>
          /\ srv' \in {srv, "gone"}
        BY <1>12 DEF ServerReads, ServerCrashes, Dies, ClientSide
    <2>2. ReaderEndsWithCause'
        BY <2>1 DEF SafeInv, ReaderEndsWithCause, ReaderOver
    <2>3. QED
        BY <1>0, <2>1, <2>2, ElsewhereSafe
<1>13. CASE (\E m \in backlog : ServerAnswers(m)) \/ ServerSpeaks \/ ServerGarbles
    <2>1. PICK message :
             /\ UNCHANGED <<pc, cur, askedBy, pending, mail, inHand, failing, reaped, srv>>
             /\ stdout' = Append(stdout, message)
             /\ garbled => garbled'
             /\ message.kind = "garbage" => garbled'
        <3>1. CASE \E m \in backlog : ServerAnswers(m)
            BY <3>1 DEF ServerAnswers, Emits, ClientSide
        <3>2. CASE ServerSpeaks
            BY <3>2 DEF ServerSpeaks, Emits, ClientSide
        <3>3. CASE ServerGarbles
            BY <3>3 DEF ServerGarbles, Emits, ClientSide
        <3>4. QED
            BY <1>13, <3>1, <3>2, <3>3
    <2>2. \A i \in 1..Len(stdout') :
             \/ i \in 1..Len(stdout) /\ stdout'[i] = stdout[i]
             \/ stdout'[i] = message
        BY <1>0, <2>1 DEF Shapes
    <2>3. ReaderEndsWithCause'
        BY <2>1, <2>2 DEF SafeInv, ReaderEndsWithCause, ReaderOver
    <2>4. QED
        BY <1>0, <2>1, <2>3, ElsewhereSafe
<1>14. Main \in Callers
    OBVIOUS
<1>15. QED
    BY <1>1, <1>2, <1>3, <1>4, <1>5, <1>6, <1>7, <1>8, <1>9, <1>10, <1>11, <1>12, <1>13, <1>14
       DEF Next, CallerStep, WriterStep, ReaderStep, MainStep, ServerStep, Terminating,
           Query, Initialize, Initialized, DidOpen, Shutdown, Exit

\* Initially nobody asks and nothing is under way.
LEMMA SafeInit == Init => SafeInv
    BY RolesAssumption DEF Init, SafeInv, Lanes, Issued, ReaderHands, ReaderEndsWithCause,
       AnsweredOnce, Answerable, InRequest, HasToken, Registered, Carried, Doomed, Boxed, ReaderOver

\* SafeInv is an invariant of the client.
THEOREM Safe == Spec => [](TypeOK /\ SafeInv)
<1>1. Init => TypeOK /\ SafeInv
    BY InitTypes, SafeInit
<1>2. TypeOK /\ SafeInv /\ [Next]_vars => (TypeOK /\ SafeInv)'
    BY TypeStep, SafeStep
<1>3. QED
    BY <1>1, <1>2, PTL DEF Spec

\* However many callers give up, time out or die with gopls, an answer is in at
\* most one place and no channel holds two: the reader's plain send never blocks.
THEOREM AnsweredAtMostOnce == Spec => []AnsweredOnce
<1>1. SafeInv => AnsweredOnce
    BY DEF SafeInv
<1>2. QED
    BY <1>1, Safe, PTL

\* No goroutine waits for an answer that nothing will bring, unless gopls has
\* emitted a frame the reader could not decode.
THEOREM NobodyIsForgotten == Spec => []NobodyForgotten
<1>1. SafeInv => NobodyForgotten
    BY DEF SafeInv, Lanes, Issued, Answerable, InRequest, HasToken, NobodyForgotten,
       Waker, ReaderOver
<1>2. QED
    BY <1>1, Safe, PTL

---------------------------------------------------------------------------
(* The parties apart.                                                      *)

\* The reader moves no caller.
LEMMA ReaderApart ==
    ASSUME TypeOK, ReaderStep
    PROVE  \A c \in Callers : pc'[c] = pc[c] /\ cur'[c] = cur[c]
<1>1. pc' = pc \/ \E label : Goto(Reader, label)
    BY DEF ReaderStep, ReadResponse, Hands, Drops, Deliver, ReadAsk, ReadNote, Reads,
           ReadFails, CannotRead, FailOne, ReaderStops, calls
<1>2. cur' = cur \/ \E m : cur' = [cur EXCEPT ![Reader] = m]
    BY DEF ReaderStep, ReadResponse, Deliver, ReadAsk, ReadNote, Reads,
           ReadFails, CannotRead, FailOne, ReaderStops, calls
<1>3. QED
    BY <1>1, <1>2, RolesAssumption DEF Goto, TypeOK

\* gopls touches only the pipes, and does not come back.
LEMMA ServerApart ==
    ASSUME ServerStep
    PROVE  /\ UNCHANGED <<step, pc, cur, outcome, askedBy, pending, mail, inHand, failing,
                          done, writeMu, reaped, stdinClosed>>
           /\ (srv = "gone" => srv' = "gone") /\ (garbled => garbled')
<1> USE DEF ClientSide, script, calls, boxes
<1>1. CASE \E m \in backlog : ServerAnswers(m)
    BY <1>1 DEF ServerAnswers, Emits
<1>2. CASE ServerReads \/ ServerCrashes
    BY <1>2 DEF ServerReads, ServerCrashes, Dies
<1>3. CASE ServerSpeaks \/ ServerGarbles
    BY <1>3 DEF ServerSpeaks, ServerGarbles, Emits
<1>4. QED
    BY <1>1, <1>2, <1>3 DEF ServerStep

\* A goroutine that goes to a label leaves the others where they are.
LEMMA OthersStay ==
    ASSUME TypeOK, NEW w \in Writers, NEW label, Goto(w, label)
    PROVE  pc'[w] = label /\ \A u \in Writers \ {w} : pc'[u] = pc[u]
    BY DEF TypeOK, Goto

---------------------------------------------------------------------------
(* The mutex of write().                                                   *)

\* The labels between Lock and Unlock.
Inside == {"header", "body"}

\* A goroutine that is not inside write(), and goes to a label that is not,
\* changes nothing about who is.
LEMMA OutsideExclusive ==
    ASSUME Shapes, Exclusive, NEW w \in Writers, NEW label, Goto(w, label),
           pc[w] \notin Inside, label \notin Inside, writeMu' = writeMu
    PROVE  Exclusive'
    BY DEF Shapes, Exclusive, Goto, Inside

\* Every step keeps the mutex.
LEMMA ExclusiveStep == TypeOK /\ Exclusive /\ [Next]_vars => Exclusive'
<1> SUFFICES ASSUME TypeOK, Exclusive, [Next]_vars PROVE Exclusive'
    OBVIOUS
<1>0. Shapes /\ Reader \in Writers
    BY ShapesFromTypes
<1>1. ASSUME NEW c \in Callers, NEW method, StartRequest(c, method) \/ StartNotify(c, method)
      PROVE  Exclusive'
    BY <1>0, <1>1, OutsideExclusive DEF StartRequest, StartNotify, Inside
<1>2. ASSUME NEW c \in Callers, Receive(c) \/ Timeout(c) \/ SawDone(c) \/ CleanUp(c)
      PROVE  Exclusive'
    BY <1>0, <1>2, OutsideExclusive DEF Receive, Timeout, SawDone, GivesUp, CleanUp, Inside
<1>3. ASSUME NEW w \in Writers, Lock(w) PROVE Exclusive'
    BY <1>0, <1>3, RolesAssumption DEF Shapes, Exclusive, Lock, Goto
<1>4. ASSUME NEW w \in Writers, WriteHeader(w) PROVE Exclusive'
    BY <1>0, <1>4 DEF Shapes, Exclusive, WriteHeader, Goto
<1>5. ASSUME NEW w \in Writers, WriteBody(w) \/ WriteFails(w) PROVE Exclusive'
    <2>1. pc[w] \in Inside /\ writeMu' = NoOne
        BY <1>5 DEF WriteBody, WriteFails, Inside
    <2>2. PICK label \in {"read", "idle", "wait", "cleanup"} : Goto(w, label)
        BY <1>5 DEF WriteBody, WriteFails, AfterFailure
    <2>3. QED
        BY <1>0, <2>1, <2>2, RolesAssumption DEF Shapes, Exclusive, Goto, Inside
<1>6. CASE ReadResponse
    <2>1. writeMu' = writeMu /\ pc[Reader] = "read" /\ (Goto(Reader, "deliver") \/ pc' = pc)
        BY <1>6 DEF ReadResponse, Reads, Hands, Drops
    <2>2. CASE pc' = pc
        BY <2>1, <2>2 DEF Exclusive
    <2>3. QED
        BY <1>0, <2>1, <2>2, OutsideExclusive DEF Inside
<1>7. CASE Deliver \/ ReadAsk \/ ReadFails \/ ReaderStops
    BY <1>0, <1>7, OutsideExclusive DEF Deliver, ReadAsk, Reads, ReadFails, CannotRead, ReaderStops, Inside
<1>8. CASE ReadNote \/ FailOne \/ Reap \/ Serve \/ CloseStdin \/ ServerStep \/ UNCHANGED vars
    <2>1. pc' = pc /\ writeMu' = writeMu
        BY <1>8, ServerApart DEF ReadNote, Reads, FailOne, Reap, Serve, CloseStdin, vars
    <2>2. QED
        BY <2>1 DEF Exclusive
<1>9. Main \in Callers
    OBVIOUS
<1>10. QED
    BY <1>1, <1>2, <1>3, <1>4, <1>5, <1>6, <1>7, <1>8, <1>9
       DEF Next, CallerStep, WriterStep, ReaderStep, MainStep, Terminating,
           Query, Initialize, Initialized, DidOpen, Shutdown, Exit

---------------------------------------------------------------------------
(* The frames on the pipe.                                                 *)

\* Steps that do not write, and after which the same goroutines are between
\* their two writes with the same messages.
LEMMA ElsewhereFramed ==
    ASSUME Framed, stdin' = stdin, Broken => Broken',
           \A w \in Writers : pc'[w] = "body" <=> pc[w] = "body",
           \A w \in Writers : pc[w] = "body" => cur'[w] = cur[w]
    PROVE  Framed'
    BY DEF Framed, FramesIntact

\* A goroutine in no frame goes to a label in no frame.
LEMMA OutsideFramed ==
    ASSUME Shapes, Framed, NEW w \in Writers, NEW label, Goto(w, label),
           pc[w] # "body", label # "body", stdin' = stdin, Broken => Broken',
           \A u \in Writers \ {w} : cur'[u] = cur[u]
    PROVE  Framed'
<1>1. \A u \in Writers : pc'[u] = "body" <=> pc[u] = "body"
    BY DEF Shapes, Goto
<1>2. QED
    BY <1>1, ElsewhereFramed

\* The header follows a whole frame.
LEMMA HeaderFramed ==
    ASSUME TypeOK, Exclusive, Framed, NEW w \in Writers, WriteHeader(w)
    PROVE  Framed'
<1> DEFINE n == Len(stdin)
           chunk == [part |-> "header", msg |-> cur[w]]
<1>1. /\ pc[w] = "header" /\ ~Broken /\ ~Broken'
      /\ stdin \in Seq(Chunk) /\ n \in Nat
      /\ stdin' = Append(stdin, chunk) /\ cur' = cur
      /\ pc' = [pc EXCEPT ![w] = "body"]
    BY DEF WriteHeader, Put, Goto, calls, server, Broken, TypeOK
<1>2. \A u \in Writers : pc[u] # "body"
    BY <1>1, RolesAssumption DEF Exclusive
<1>3. n % 2 = 0
    BY <1>1, <1>2 DEF Framed
<1>4. /\ Len(stdin') = n + 1 /\ stdin'[n + 1] = chunk
      /\ \A i \in 1..n : stdin'[i] = stdin[i]
    BY <1>1
<1>5. \A u \in Writers : pc'[u] = "body" <=> u = w
    BY <1>1, <1>2 DEF TypeOK
<1>6. /\ chunk.part = "header" /\ chunk.msg = cur[w]
    OBVIOUS
<1>0. n \in Nat
    BY <1>1
<1> HIDE DEF n, chunk
<1>7. FramesIntact'
    <2>1. ASSUME NEW i \in 1..(n + 1)
          PROVE  stdin'[i].part = (IF i % 2 = 1 THEN "header" ELSE "body")
        <3>1. CASE i \in 1..n
            BY <1>4, <3>1 DEF Framed, FramesIntact, n
        <3>2. CASE i = n + 1
            <4>1. i % 2 = 1
                BY <1>1, <1>3, <3>2
            <4>2. QED
                BY <1>4, <1>6, <3>2, <4>1
        <3>3. i \in 1..n \/ i = n + 1
            BY <1>0
        <3>4. QED
            BY <3>1, <3>2, <3>3
    <2>2. \A i \in 1..((n + 1) \div 2) : 2 * i - 1 \in 1..n /\ 2 * i \in 1..n /\ i \in 1..(n \div 2)
        BY <1>0, <1>3
    <2>3. \A i \in 1..((n + 1) \div 2) : stdin'[2 * i].msg = stdin'[2 * i - 1].msg
        BY <1>1, <1>4, <2>2 DEF Framed, FramesIntact, n
    <2>4. QED
        BY <1>4, <2>1, <2>3 DEF FramesIntact
<1>8. (n + 1) % 2 = 1
    BY <1>1, <1>3
<1>9. QED
    BY <1>1, <1>4, <1>5, <1>6, <1>7, <1>8 DEF Framed

\* The body follows its own header.
LEMMA BodyFramed ==
    ASSUME TypeOK, Exclusive, Framed, NEW w \in Writers, WriteBody(w)
    PROVE  Framed'
<1> DEFINE n == Len(stdin)
           chunk == [part |-> "body", msg |-> cur[w]]
<1>1. /\ pc[w] = "body" /\ ~Broken
      /\ stdin \in Seq(Chunk) /\ n \in Nat
      /\ stdin' = Append(stdin, chunk)
    BY DEF WriteBody, Put, TypeOK
<1>2. PICK label \in {"read", "idle", "wait"} : pc' = [pc EXCEPT ![w] = label]
    BY DEF WriteBody, Goto
<1>3. n % 2 = 1 /\ stdin[n].msg = cur[w]
    BY <1>1 DEF Framed
<1>4. /\ Len(stdin') = n + 1 /\ stdin'[n + 1] = chunk
      /\ \A i \in 1..n : stdin'[i] = stdin[i]
    BY <1>1
<1>5. \A u \in Writers : pc'[u] # "body"
    BY <1>1, <1>2, RolesAssumption DEF TypeOK, Exclusive
<1>6. /\ chunk.part = "body" /\ chunk.msg = cur[w]
    OBVIOUS
<1>0. n \in Nat
    BY <1>1
<1> HIDE DEF n, chunk
<1>7. FramesIntact'
    <2>1. ASSUME NEW i \in 1..(n + 1)
          PROVE  stdin'[i].part = (IF i % 2 = 1 THEN "header" ELSE "body")
        <3>1. CASE i \in 1..n
            BY <1>4, <3>1 DEF Framed, FramesIntact, n
        <3>2. CASE i = n + 1
            <4>1. i % 2 = 0
                BY <1>1, <1>3, <3>2
            <4>2. QED
                BY <1>4, <1>6, <3>2, <4>1
        <3>3. i \in 1..n \/ i = n + 1
            BY <1>0
        <3>4. QED
            BY <3>1, <3>2, <3>3
    <2>2. ASSUME NEW i \in 1..((n + 1) \div 2) PROVE stdin'[2 * i].msg = stdin'[2 * i - 1].msg
        <3>1. CASE i \in 1..(n \div 2)
            <4>1. 2 * i - 1 \in 1..n /\ 2 * i \in 1..n
                BY <1>1, <3>1
            <4>2. QED
                BY <1>4, <3>1, <4>1 DEF Framed, FramesIntact, n
        <3>2. CASE i \notin 1..(n \div 2)
            <4>1. 2 * i = n + 1 /\ 2 * i - 1 = n /\ n \in 1..n
                BY <1>1, <1>3, <3>2
            <4>2. QED
                BY <1>3, <1>4, <1>6, <4>1
        <3>3. QED
            BY <3>1, <3>2
    <2>3. QED
        BY <1>4, <2>1, <2>2 DEF FramesIntact
<1>8. (n + 1) % 2 = 0
    BY <1>1, <1>3
<1>9. QED
    BY <1>1, <1>4, <1>5, <1>7, <1>8 DEF Framed

\* gopls takes a whole frame; the parity of what is left is the same.
LEMMA ServerReadFramed == TypeOK /\ Framed /\ ServerReads => Framed'
<1> SUFFICES ASSUME TypeOK, Framed, ServerReads PROVE Framed'
    OBVIOUS
<1> DEFINE n == Len(stdin)
<1>1. /\ srv = "up" /\ stdin \in Seq(Chunk) /\ n \in Nat /\ n >= 2
      /\ UNCHANGED <<pc, cur, stdinClosed>>
    BY DEF ServerReads, ClientSide, calls, TypeOK
<1>2. CASE stdin' = <<>> /\ srv' = "gone"
    BY <1>2 DEF Framed, FramesIntact, Broken
<1>3. CASE stdin' = SubSeq(stdin, 3, n) /\ srv' = srv
    <2>0. n \in Nat /\ n >= 2
        BY <1>1
    <2>1. /\ Len(stdin') = n - 2
          /\ \A i \in 1..(n - 2) : stdin'[i] = stdin[i + 2]
        <3>1. \A i \in 3..n : stdin[i] \in Chunk
            BY <1>1
        <3>2. /\ Len(SubSeq(stdin, 3, n)) = IF 3 <= n THEN n - 3 + 1 ELSE 0
              /\ \A i \in 1..(n - 3 + 1) : SubSeq(stdin, 3, n)[i] = stdin[3 + i - 1]
            BY <2>0, <3>1, SubSeqProperties
        <3> HIDE DEF n
        <3>3. n - 3 + 1 = n - 2 /\ (n < 3 => n - 2 = 0) /\ \A i \in 1..(n - 2) : 3 + i - 1 = i + 2
            BY <2>0
        <3>4. QED
            BY <1>3, <2>0, <3>2, <3>3
    <2> HIDE DEF n
    <2>2. ASSUME NEW i \in 1..(n - 2)
          PROVE  stdin'[i].part = (IF i % 2 = 1 THEN "header" ELSE "body")
        <3>1. i + 2 \in 1..n /\ (i + 2) % 2 = i % 2
            BY <2>0
        <3>2. QED
            BY <2>1, <3>1 DEF Framed, FramesIntact, n
    <2>3. ASSUME NEW i \in 1..((n - 2) \div 2) PROVE stdin'[2 * i].msg = stdin'[2 * i - 1].msg
        <3>1. /\ i + 1 \in 1..(n \div 2) /\ 2 * i \in 1..(n - 2) /\ 2 * i - 1 \in 1..(n - 2)
              /\ 2 * i + 2 = 2 * (i + 1) /\ 2 * i - 1 + 2 = 2 * (i + 1) - 1
            BY <2>0
        <3>2. stdin[2 * (i + 1)].msg = stdin[2 * (i + 1) - 1].msg
            BY <3>1 DEF Framed, FramesIntact, n
        <3>3. QED
            BY <2>1, <3>1, <3>2
    <2>4. FramesIntact'
        BY <2>1, <2>2, <2>3 DEF FramesIntact
    <2>5. Broken' = Broken
        BY <1>1, <1>3 DEF Broken
    <2>6. ASSUME ~Broken, NEW w \in Writers, pc[w] = "body"
          PROVE  (n - 2) % 2 = 1 /\ stdin'[n - 2].msg = cur[w]
        <3>1. n % 2 = 1 /\ stdin[n].msg = cur[w]
            BY <2>6 DEF Framed, n
        <3>2. (n - 2) % 2 = 1 /\ n - 2 \in 1..(n - 2) /\ n - 2 + 2 = n
            BY <2>0, <3>1
        <3>3. QED
            BY <2>1, <3>1, <3>2
    <2>7. n % 2 = 0 => (n - 2) % 2 = 0
        BY <2>0
    <2>8. QED
        BY <1>1, <2>1, <2>4, <2>5, <2>6, <2>7 DEF Framed, n
<1>4. QED
    BY <1>2, <1>3 DEF ServerReads, Dies

\* No step mixes the frames of two messages.
LEMMA FramedStep == TypeOK /\ SafeInv /\ Exclusive /\ Framed /\ [Next]_vars => Framed'
<1> SUFFICES ASSUME TypeOK, SafeInv, Exclusive, Framed, [Next]_vars PROVE Framed'
    OBVIOUS
<1>0. Shapes /\ Reader \in Writers /\ Reader \notin Callers
    BY ShapesFromTypes, RolesAssumption
<1> USE DEF script, calls, pipes, server
<1>1. ASSUME NEW c \in Callers, NEW method, StartRequest(c, method) \/ StartNotify(c, method)
      PROVE  Framed'
    <2>1. /\ pc[c] = "idle" /\ Goto(c, "lock") /\ stdin' = stdin /\ Broken' = Broken
          /\ \A u \in Writers \ {c} : cur'[u] = cur[u]
        BY <1>0, <1>1 DEF StartRequest, StartNotify, Broken, Shapes
    <2>2. QED
        BY <1>0, <2>1, OutsideFramed
<1>2. ASSUME NEW c \in Callers, Receive(c) \/ Timeout(c) \/ SawDone(c) \/ CleanUp(c)
      PROVE  Framed'
    <2>1. /\ pc[c] \in {"wait", "cleanup"} /\ stdin' = stdin /\ Broken' = Broken /\ cur' = cur
          /\ Goto(c, "idle") \/ Goto(c, "cleanup")
        BY <1>2 DEF Receive, Timeout, SawDone, GivesUp, CleanUp, Broken
    <2>2. QED
        BY <1>0, <2>1, OutsideFramed
<1>3. ASSUME NEW w \in Writers, Lock(w) PROVE Framed'
    BY <1>0, <1>3, OutsideFramed DEF Lock, Broken
<1>4. ASSUME NEW w \in Writers, WriteHeader(w) \/ WriteBody(w) PROVE Framed'
    BY <1>4, HeaderFramed, BodyFramed
<1>5. ASSUME NEW w \in Writers, WriteFails(w) PROVE Framed'
    <2>1. Broken /\ Broken' /\ stdin' = stdin
        BY <1>5 DEF WriteFails, AfterFailure, Broken
    <2>2. QED
        BY <2>1 DEF Framed, FramesIntact
<1>6. CASE ReadResponse
    <2>1. /\ pc[Reader] = "read" /\ (Goto(Reader, "deliver") \/ pc' = pc)
          /\ stdin' = stdin /\ Broken' = Broken /\ cur' = cur
        BY <1>6 DEF ReadResponse, Reads, Hands, Drops, Broken
    <2>2. CASE pc' = pc
        BY <2>1, <2>2, ElsewhereFramed
    <2>3. QED
        BY <1>0, <2>1, <2>2, OutsideFramed
<1>7. CASE ReadAsk
    <2>1. /\ pc[Reader] = "read" /\ Goto(Reader, "lock") /\ stdin' = stdin /\ Broken' = Broken
          /\ \A u \in Writers \ {Reader} : cur'[u] = cur[u]
        BY <1>0, <1>7 DEF ReadAsk, Reads, Broken, Shapes
    <2>2. QED
        BY <1>0, <2>1, OutsideFramed
<1>8. CASE Deliver \/ ReadFails \/ ReaderStops
    <2>1. /\ pc[Reader] \in {"deliver", "read", "failing"} /\ stdin' = stdin /\ Broken' = Broken
          /\ cur' = cur /\ \E label \in {"read", "failing", "stopped"} : Goto(Reader, label)
        BY <1>8 DEF Deliver, ReadFails, CannotRead, ReaderStops, Broken
    <2>2. QED
        BY <1>0, <2>1, OutsideFramed
<1>9. CASE \/ ReadNote \/ FailOne \/ Reap \/ Serve \/ CloseStdin \/ UNCHANGED vars
           \/ (\E m \in backlog : ServerAnswers(m)) \/ ServerSpeaks \/ ServerGarbles
    <2>1. stdin' = stdin /\ pc' = pc /\ cur' = cur /\ (Broken => Broken')
        <3>1. CASE ReadNote \/ FailOne \/ Reap \/ Serve \/ CloseStdin \/ UNCHANGED vars
            BY <3>1 DEF ReadNote, Reads, FailOne, Reap, Serve, CloseStdin, Broken, vars
        <3>2. CASE (\E m \in backlog : ServerAnswers(m)) \/ ServerSpeaks \/ ServerGarbles
            <4>1. PICK message : Emits(message)
                BY <3>2 DEF ServerAnswers, ServerSpeaks, ServerGarbles
            <4>2. QED
                BY <4>1 DEF Emits, ClientSide, Broken
        <3>3. QED
            BY <1>9, <3>1, <3>2
    <2>2. QED
        BY <2>1, ElsewhereFramed
<1>10. CASE ServerReads
    BY <1>10, ServerReadFramed
<1>11. CASE ServerCrashes
    BY <1>11 DEF ServerCrashes, Dies, Framed, FramesIntact, Broken
<1>12. Main \in Callers
    OBVIOUS
<1>13. QED
    BY <1>1, <1>2, <1>3, <1>4, <1>5, <1>6, <1>7, <1>8, <1>9, <1>10, <1>11, <1>12
       DEF Next, CallerStep, WriterStep, ReaderStep, MainStep, ServerStep, Terminating,
           Query, Initialize, Initialized, DidOpen, Shutdown, Exit

---------------------------------------------------------------------------
(* Whom a message is about.                                                *)

\* A message that is where one was, that comes from a sender, or that gopls
\* makes of what it has read is as honest as that one.
LEMMA MessagesMove ==
    ASSUME TypeOK, Matching, askedBy' = askedBy,
           \A w \in Writers : cur'[w] = cur[w] \/ cur'[w].id = 0,
           \A i \in 1..Len(stdin') :
              \/ \E j \in 1..Len(stdin) : stdin'[i].msg = stdin[j].msg
              \/ \E w \in Writers : stdin'[i].msg = cur[w],
           \A m \in backlog' : m \in backlog \/ \E j \in 1..Len(stdin) : m = stdin[j].msg,
           \A i \in 1..Len(stdout') :
              \/ \E j \in 1..Len(stdout) : stdout'[i] = stdout[j]
              \/ stdout'[i].id = 0
              \/ \E m \in backlog : stdout'[i].id = m.id /\ stdout'[i].about = m.about,
           \A l \in (mail \cup inHand)' :
              \/ l \in mail \cup inHand
              \/ l.kind = "failed"
              \/ \E j \in 1..Len(stdout) : l.to = stdout[j].id /\ l.to # 0 /\ l.about = stdout[j].about
    PROVE  Matching'
<1>1. \A w \in Writers : Honest(cur[w])'
    BY DEF Matching, Honest
<1>2. \A i \in 1..Len(stdin') : Honest(stdin[i].msg)'
    BY DEF Matching, Honest
<1>3. \A m \in backlog' : Honest(m)'
    BY DEF Matching, Honest
<1>4. \A i \in 1..Len(stdout') : Honest(stdout[i])'
    BY DEF Matching, Honest
<1>5. \A l \in (mail \cup inHand)' : l.kind = "failed" \/ l.about = askedBy'[l.to]
    BY DEF Matching, Honest
<1>6. QED
    BY <1>1, <1>2, <1>3, <1>4, <1>5 DEF Matching

\* A new request is about its caller, and leaves the others about theirs.
LEMMA RequestMatching ==
    ASSUME TypeOK, SafeInv, Matching, NEW c \in Callers, NEW method, StartRequest(c, method)
    PROVE  Matching'
<1> DEFINE n == Len(askedBy) + 1
<1>1. /\ askedBy' = Append(askedBy, c)
      /\ cur' = [cur EXCEPT ![c] = [method |-> method, id |-> n, about |-> c]]
      /\ UNCHANGED <<mail, inHand, stdin, stdout, backlog>>
    BY DEF StartRequest, boxes, pipes, server
<1>2. /\ Len(askedBy') = n /\ n \in Nat /\ n # 0 /\ n \in 1..n
      /\ askedBy'[n] = c
      /\ \A i \in 1..Len(askedBy) : i \in 1..n /\ askedBy'[i] = askedBy[i]
    BY <1>1 DEF TypeOK
<1> HIDE DEF n
<1>3. \A m : Honest(m) => Honest(m)'
    BY <1>2 DEF Honest
<1>4. \A w \in Writers : Honest(cur[w])'
    BY <1>1, <1>2, <1>3 DEF Matching, TypeOK, Honest
<1>5. \A l \in (mail \cup inHand)' : l.kind = "failed" \/ l.about = askedBy'[l.to]
    BY <1>1, <1>2 DEF Matching, SafeInv, Issued
<1>6. QED
    BY <1>1, <1>3, <1>4, <1>5 DEF Matching

\* What leaves or stays in the pipes is what was in them.
LEMMA TailCopies ==
    ASSUME NEW S, NEW s \in Seq(S), s # <<>>
    PROVE  \A i \in 1..Len(Tail(s)) : \E j \in 1..Len(s) : Tail(s)[i] = s[j]
<1>1. \A i \in 1..Len(Tail(s)) : i + 1 \in 1..Len(s) /\ Tail(s)[i] = s[i + 1]
    OBVIOUS
<1>2. QED
    BY <1>1

\* No step changes whom a message is about.
LEMMA MatchingStep == TypeOK /\ SafeInv /\ Matching /\ [Next]_vars => Matching'
<1> SUFFICES ASSUME TypeOK, SafeInv, Matching, [Next]_vars PROVE Matching'
    OBVIOUS
<1>0. /\ stdin \in Seq(Chunk) /\ stdout \in Seq(Incoming) /\ cur \in [Writers -> Message]
      /\ Reader \in Writers
    BY DEF TypeOK
<1> USE DEF script, calls, boxes, pipes, server
<1>1. ASSUME NEW c \in Callers, NEW method, StartRequest(c, method) PROVE Matching'
    BY <1>1, RequestMatching
<1>2. ASSUME NEW c \in Callers, NEW method, StartNotify(c, method) PROVE Matching'
    <2>1. \A w \in Writers : cur'[w] = cur[w] \/ cur'[w].id = 0
        BY <1>0, <1>2 DEF StartNotify
    <2>2. UNCHANGED <<askedBy, mail, inHand, stdin, stdout, backlog>>
        BY <1>2 DEF StartNotify
    <2>3. QED
        BY <2>1, <2>2, MessagesMove
<1>3. ASSUME NEW c \in Callers, Receive(c) \/ Timeout(c) \/ SawDone(c) \/ CleanUp(c)
      PROVE  Matching'
    <2>1. UNCHANGED <<cur, askedBy, inHand, stdin, stdout, backlog>> /\ mail' \subseteq mail
        BY <1>3 DEF Receive, Timeout, SawDone, GivesUp, CleanUp
    <2>2. QED
        BY <2>1, MessagesMove
<1>4. ASSUME NEW w \in Writers, Lock(w) \/ WriteFails(w) PROVE Matching'
    <2>1. UNCHANGED <<cur, askedBy, mail, inHand, stdin, stdout, backlog>>
        BY <1>4 DEF Lock, WriteFails, AfterFailure
    <2>2. QED
        BY <2>1, MessagesMove
<1>5. ASSUME NEW w \in Writers, WriteHeader(w) \/ WriteBody(w) PROVE Matching'
    <2>1. PICK part : stdin' = Append(stdin, [part |-> part, msg |-> cur[w]])
        BY <1>5 DEF WriteHeader, WriteBody, Put
    <2>2. UNCHANGED <<cur, askedBy, mail, inHand, stdout, backlog>>
        BY <1>5 DEF WriteHeader, WriteBody
    <2>3. \A i \in 1..Len(stdin') : \/ i \in 1..Len(stdin) /\ stdin'[i] = stdin[i]
                                    \/ stdin'[i].msg = cur[w]
        BY <1>0, <2>1
    <2>4. QED
        BY <2>2, <2>3, MessagesMove
<1>6. CASE ReadResponse
    <2> DEFINE m == Head(stdout)
    <2>1. /\ UNCHANGED <<cur, askedBy, mail, stdin, backlog>>
          /\ stdout # <<>> /\ stdout' = Tail(stdout)
          /\ inHand' = inHand \/ (m.id \in pending /\ Hands(m, m.id))
        BY <1>6 DEF ReadResponse, Reads, Drops
    <2>2. 1 \in 1..Len(stdout) /\ m = stdout[1]
        BY <1>0, <2>1
    <2>3. \A i \in 1..Len(stdout') : \E j \in 1..Len(stdout) : stdout'[i] = stdout[j]
        BY <1>0, <2>1, TailCopies
    <2> HIDE DEF m
    <2>4. m.id \in pending => m.id # 0
        BY DEF TypeOK
    <2>5. \A l \in inHand' : \/ l \in inHand
                             \/ l.to = stdout[1].id /\ l.to # 0 /\ l.about = stdout[1].about
        BY <2>1, <2>2, <2>4 DEF Hands
    <2>6. QED
        BY <2>1, <2>2, <2>3, <2>5, MessagesMove
<1>7. CASE Deliver
    <2>1. UNCHANGED <<cur, askedBy, stdin, stdout, backlog>>
          /\ mail' \subseteq mail \cup inHand /\ inHand' = {}
        BY <1>7 DEF Deliver
    <2>2. QED
        BY <2>1, MessagesMove
<1>8. CASE ReadAsk \/ ReadNote
    <2>1. /\ UNCHANGED <<askedBy, mail, inHand, stdin, backlog>>
          /\ stdout # <<>> /\ stdout' = Tail(stdout)
          /\ \A w \in Writers : cur'[w] = cur[w] \/ cur'[w].id = 0
        BY <1>0, <1>8 DEF ReadAsk, ReadNote, Reads
    <2>2. \A i \in 1..Len(stdout') : \E j \in 1..Len(stdout) : stdout'[i] = stdout[j]
        BY <1>0, <2>1, TailCopies
    <2>3. QED
        BY <2>1, <2>2, MessagesMove
<1>9. CASE FailOne
    <2>1. UNCHANGED <<cur, askedBy, inHand, stdin, stdout, backlog>>
        BY <1>9 DEF FailOne
    <2>2. \A l \in mail' : l \in mail \/ l.kind = "failed"
        BY <1>9 DEF FailOne
    <2>3. QED
        BY <2>1, <2>2, MessagesMove
<1>10. CASE ReadFails \/ ReaderStops \/ Reap \/ Serve \/ CloseStdin \/ UNCHANGED vars
    <2>1. UNCHANGED <<cur, askedBy, mail, inHand, stdin, stdout, backlog>>
        BY <1>10 DEF ReadFails, CannotRead, ReaderStops, Reap, Serve, CloseStdin, vars
    <2>2. QED
        BY <2>1, MessagesMove
<1>11. CASE ServerReads \/ ServerCrashes
    <2>1. UNCHANGED <<cur, askedBy, mail, inHand, stdout>>
        BY <1>11 DEF ServerReads, ServerCrashes, ClientSide
    <2>2. \A i \in 1..Len(stdin') : \E j \in 1..Len(stdin) : stdin'[i] = stdin[j]
        <3>1. CASE stdin' = <<>>
            BY <3>1
        <3>2. CASE stdin' = SubSeq(stdin, 3, Len(stdin)) /\ Len(stdin) >= 2
            BY <1>0, <3>2
        <3>3. QED
            BY <1>11, <3>1, <3>2 DEF ServerReads, ServerCrashes, Dies
    <2>3. \A m \in backlog' : m \in backlog \/ \E j \in 1..Len(stdin) : m = stdin[j].msg
        <3>1. ServerReads => 2 \in 1..Len(stdin)
            BY <1>0 DEF ServerReads
        <3>2. backlog' \subseteq backlog \/ (ServerReads /\ backlog' \subseteq backlog \cup {stdin[2].msg})
            BY <1>11 DEF ServerReads, ServerCrashes, Dies
        <3>3. QED
            BY <3>1, <3>2
    <2>4. QED
        BY <2>1, <2>2, <2>3, MessagesMove
<1>12. CASE (\E m \in backlog : ServerAnswers(m)) \/ ServerSpeaks \/ ServerGarbles
    <2>1. PICK message :
             /\ Emits(message) /\ backlog' \subseteq backlog
             /\ \/ message.id = 0
                \/ \E m \in backlog : message.id = m.id /\ message.about = m.about
        <3>1. ASSUME NEW m \in backlog, ServerAnswers(m)
              PROVE  \E message : /\ Emits(message) /\ backlog' \subseteq backlog
                                  /\ message.id = m.id /\ message.about = m.about
            <4>1. PICK kind : Emits([kind |-> kind, id |-> m.id, about |-> m.about])
                BY <3>1 DEF ServerAnswers
            <4>2. backlog' \subseteq backlog
                BY <3>1 DEF ServerAnswers
            <4>3. WITNESS [kind |-> kind, id |-> m.id, about |-> m.about]
            <4>4. QED
                BY <4>1, <4>2
        <3>2. ASSUME ServerSpeaks \/ ServerGarbles
              PROVE  \E message : Emits(message) /\ backlog' \subseteq backlog /\ message.id = 0
            <4>1. PICK kind : Emits([kind |-> kind, id |-> 0, about |-> NoOne])
                BY <3>2 DEF ServerSpeaks, ServerGarbles
            <4>2. backlog' \subseteq backlog
                BY <3>2 DEF ServerSpeaks, ServerGarbles
            <4>3. WITNESS [kind |-> kind, id |-> 0, about |-> NoOne]
            <4>4. QED
                BY <4>1, <4>2
        <3>3. QED
            BY <1>12, <3>1, <3>2
    <2>2. UNCHANGED <<cur, askedBy, mail, inHand, stdin>> /\ stdout' = Append(stdout, message)
        BY <2>1 DEF Emits, ClientSide
    <2>3. \A i \in 1..Len(stdout') : \/ i \in 1..Len(stdout) /\ stdout'[i] = stdout[i]
                                     \/ stdout'[i] = message
        BY <1>0, <2>2
    <2>4. QED
        BY <2>1, <2>2, <2>3, MessagesMove
<1>13. Main \in Callers
    OBVIOUS
<1>14. QED
    BY <1>1, <1>2, <1>3, <1>4, <1>5, <1>6, <1>7, <1>8, <1>9, <1>10, <1>11, <1>12, <1>13
       DEF Next, CallerStep, WriterStep, ReaderStep, MainStep, ServerStep, Terminating,
           Query, Initialize, Initialized, DidOpen, Shutdown, Exit

---------------------------------------------------------------------------
(* Registrations.                                                          *)

\* The labels of a call in progress.
InCall == {"lock", "header", "body", "wait", "cleanup"}

\* Nothing is registered, and whoever has a registration stays in its call.
LEMMA CurrentKept ==
    ASSUME TypeOK, Current, pending' \subseteq pending, askedBy' = askedBy,
           \A id \in pending' :
              cur'[askedBy[id]].id = cur[askedBy[id]].id /\ pc'[askedBy[id]] \in InCall
    PROVE  Current'
    BY DEF Current, InCall

\* A goroutine without a registration, or that stays in its call, moves on.
LEMMA CurrentMoves ==
    ASSUME TypeOK, Current, NEW w \in Writers, NEW label, Goto(w, label),
           pending' \subseteq pending, askedBy' = askedBy,
           \A u \in Writers \ {w} : cur'[u] = cur[u],
           \A id \in pending' : askedBy[id] = w => label \in InCall /\ cur' = cur
    PROVE  Current'
<1>1. \A id \in pending : askedBy[id] \in Writers
    BY DEF TypeOK
<1>2. ASSUME NEW id \in pending'
      PROVE  cur'[askedBy[id]].id = cur[askedBy[id]].id /\ pc'[askedBy[id]] \in InCall
    <2>1. askedBy[id] \in Writers /\ pc[askedBy[id]] \in InCall
        BY <1>1, <1>2 DEF Current, InCall
    <2>2. CASE askedBy[id] = w
        BY <1>2, <2>1, <2>2 DEF Goto, TypeOK
    <2>3. CASE askedBy[id] # w
        BY <2>1, <2>3 DEF Goto, TypeOK
    <2>4. QED
        BY <2>2, <2>3
<1>3. QED
    BY <1>2, CurrentKept

\* A request registers an id nobody has, for a caller that was in no call.
LEMMA RequestCurrent ==
    ASSUME TypeOK, Current, NEW c \in Callers, NEW method, StartRequest(c, method)
    PROVE  Current'
<1> DEFINE n == Len(askedBy) + 1
<1>1. /\ pc[c] = "idle" /\ askedBy' = Append(askedBy, c) /\ pending' = pending \cup {n}
      /\ cur' = [cur EXCEPT ![c] = [method |-> method, id |-> n, about |-> c]]
      /\ pc' = [pc EXCEPT ![c] = "lock"]
    BY DEF StartRequest, Goto
<1>2. /\ askedBy'[n] = c /\ pending \subseteq 1..Len(askedBy)
      /\ \A i \in 1..Len(askedBy) : askedBy'[i] = askedBy[i] /\ askedBy[i] \in Writers
    BY <1>1 DEF TypeOK
<1> HIDE DEF n
<1>3. ASSUME NEW id \in pending PROVE askedBy'[id] = askedBy[id] /\ askedBy[id] \in Writers /\ askedBy[id] # c
    BY <1>1, <1>2 DEF Current
<1>4. cur'[c].id = n /\ pc'[c] = "lock"
    BY <1>1 DEF TypeOK
<1>5. \A u \in Writers \ {c} : cur'[u] = cur[u] /\ pc'[u] = pc[u]
    BY <1>1 DEF TypeOK
<1>6. ASSUME NEW id \in pending'
      PROVE  /\ cur'[askedBy'[id]].id = id
             /\ pc'[askedBy'[id]] \in {"lock", "header", "body", "wait", "cleanup"}
    <2>1. CASE id = n
        BY <1>2, <1>4, <2>1
    <2>2. CASE id \in pending
        <3>1. /\ cur[askedBy[id]].id = id
              /\ pc[askedBy[id]] \in {"lock", "header", "body", "wait", "cleanup"}
            BY <2>2 DEF Current
        <3>2. QED
            BY <1>3, <1>5, <2>2, <3>1
    <2>3. QED
        BY <1>1, <1>6, <2>1, <2>2
<1>7. QED
    BY <1>6 DEF Current

\* No step leaves a registration behind.
LEMMA CurrentStep == TypeOK /\ SafeInv /\ Current /\ [Next]_vars => Current'
<1> SUFFICES ASSUME TypeOK, SafeInv, Current, [Next]_vars PROVE Current'
    OBVIOUS
<1>0. Reader \in Writers /\ \A id \in pending : id # 0 /\ askedBy[id] \in Callers \ {Reader}
    <2>1. askedBy \in Seq(Callers) /\ pending \subseteq 1..Len(askedBy) /\ Reader \notin Callers
        BY RolesAssumption DEF TypeOK
    <2>2. \A id \in 1..Len(askedBy) : id # 0 /\ askedBy[id] \in Callers
        BY <2>1
    <2>3. QED
        BY <2>1, <2>2
<1> USE DEF script, calls, boxes, pipes, server
<1>1. ASSUME NEW c \in Callers, NEW method, StartRequest(c, method) PROVE Current'
    BY <1>1, RequestCurrent
<1>2. ASSUME NEW c \in Callers, NEW method, StartNotify(c, method) PROVE Current'
    <2>1. /\ pc[c] = "idle" /\ Goto(c, "lock") /\ UNCHANGED <<askedBy, pending>>
          /\ \A u \in Writers \ {c} : cur'[u] = cur[u]
        BY <1>2 DEF StartNotify, TypeOK
    <2>2. \A id \in pending : askedBy[id] # c
        BY <2>1 DEF Current
    <2>3. QED
        BY <2>1, <2>2, CurrentMoves
<1>3. ASSUME NEW c \in Callers, Receive(c) PROVE Current'
    <2>1. /\ pc[c] = "wait" /\ Goto(c, "idle") /\ UNCHANGED <<cur, askedBy, pending>>
          /\ Boxed(cur[c].id) /\ cur[c].id \in Ids
        BY <1>3 DEF Receive, Boxed, TypeOK, Letter
    <2>2. cur[c].id \notin pending
        BY <2>1 DEF SafeInv, AnsweredOnce, Registered
    <2>3. \A id \in pending : askedBy[id] # c
        BY <2>2 DEF Current
    <2>4. QED
        BY <2>1, <2>3, CurrentMoves
<1>4. ASSUME NEW c \in Callers, Timeout(c) \/ SawDone(c) PROVE Current'
    <2>1. Goto(c, "cleanup") /\ UNCHANGED <<cur, askedBy, pending>>
        BY <1>4 DEF Timeout, SawDone, GivesUp
    <2>2. QED
        BY <2>1, CurrentMoves DEF InCall
<1>5. ASSUME NEW c \in Callers, CleanUp(c) PROVE Current'
    <2>1. /\ Goto(c, "idle") /\ UNCHANGED <<cur, askedBy>>
          /\ pending' = pending \ {cur[c].id}
        BY <1>5 DEF CleanUp
    <2>2. \A id \in pending' : askedBy[id] # c
        BY <2>1 DEF Current
    <2>3. QED
        BY <2>1, <2>2, CurrentMoves
<1>6. ASSUME NEW w \in Writers, Lock(w) \/ WriteHeader(w) PROVE Current'
    <2>1. (Goto(w, "header") \/ Goto(w, "body")) /\ UNCHANGED <<cur, askedBy, pending>>
        BY <1>6 DEF Lock, WriteHeader
    <2>2. QED
        BY <2>1, CurrentMoves DEF InCall
<1>7. ASSUME NEW w \in Writers, WriteBody(w) \/ WriteFails(w) PROVE Current'
    <2>1. UNCHANGED <<cur, askedBy, pending>>
        BY <1>7 DEF WriteBody, WriteFails, AfterFailure
    <2>2. \/ w = Reader /\ Goto(w, "read")
          \/ cur[w].id = 0 /\ Goto(w, "idle")
          \/ Goto(w, "wait") \/ Goto(w, "cleanup")
        BY <1>7 DEF WriteBody, WriteFails, AfterFailure
    <2>3. cur[w].id = 0 => \A id \in pending : askedBy[id] # w
        BY <1>0 DEF Current
    <2>4. QED
        BY <1>0, <2>1, <2>2, <2>3, CurrentMoves DEF InCall
<1>8. CASE ReaderStep
    <2>1. askedBy' = askedBy /\ pending' \subseteq pending
        BY <1>8 DEF ReaderStep, ReadResponse, Deliver, ReadAsk, ReadNote, Reads, ReadFails,
           CannotRead, FailOne, ReaderStops
    <2>2. \A c \in Callers : pc'[c] = pc[c] /\ cur'[c] = cur[c]
        BY <1>8, ReaderApart
    <2>3. \A id \in pending : pc[askedBy[id]] \in InCall
        BY DEF Current, InCall
    <2>4. QED
        BY <1>0, <2>1, <2>2, <2>3, CurrentKept
<1>9. CASE Reap \/ Serve \/ CloseStdin \/ ServerStep \/ UNCHANGED vars
    <2>1. UNCHANGED <<pc, cur, askedBy, pending>>
        BY <1>9, ServerApart DEF Reap, Serve, CloseStdin, vars
    <2>2. QED
        BY <2>1 DEF Current
<1>10. Main \in Callers
    OBVIOUS
<1>11. QED
    BY <1>1, <1>2, <1>3, <1>4, <1>5, <1>6, <1>7, <1>8, <1>9, <1>10
       DEF Next, CallerStep, WriterStep, MainStep, Terminating,
           Query, Initialize, Initialized, DidOpen, Shutdown, Exit

---------------------------------------------------------------------------
(* The life of the session, and the causes of failures.                    *)

\* Outside Main's own steps and the beginnings of queries, nobody starts a call
\* and stdin is closed only with gopls.
LEMMA QuietElsewhere ==
    ASSUME Quiet, step' = step,
           \A c \in Callers : pc[c] = "idle" => pc'[c] = "idle",
           srv = "gone" => srv' = "gone",
           stdinClosed' => stdinClosed \/ srv' = "gone"
    PROVE  Quiet'
    BY DEF Quiet

\* A step of the goroutine w, which is in no idle state.
LEMMA BusyMoves ==
    ASSUME TypeOK, NEW w \in Writers, NEW label, pc[w] # "idle", Goto(w, label)
    PROVE  \A c \in Callers : pc[c] = "idle" => pc'[c] = "idle"
    BY DEF TypeOK, Goto

\* No step of the session leaves a caller running when Main closes.
LEMMA QuietStep == TypeOK /\ SafeInv /\ Quiet /\ [Next]_vars => Quiet'
<1> SUFFICES ASSUME TypeOK, SafeInv, Quiet, [Next]_vars PROVE Quiet'
    OBVIOUS
<1>0. Reader \in Writers /\ Main \in Callers /\ Main \notin Workers /\ pc[Reader] # "idle"
    BY RolesAssumption DEF SafeInv, Lanes
<1> USE DEF script, calls, boxes, pipes, server
<1>1. ASSUME NEW c \in Callers, Query(c) PROVE Quiet'
    BY <1>1 DEF Quiet, Query, StartRequest
<1>2. ASSUME NEW c \in Callers, Receive(c) \/ Timeout(c) \/ SawDone(c) \/ CleanUp(c)
      PROVE  Quiet'
    <2>1. /\ pc[c] # "idle" /\ UNCHANGED <<step, srv, stdinClosed>>
          /\ Goto(c, "idle") \/ Goto(c, "cleanup")
        BY <1>2 DEF Receive, Timeout, SawDone, GivesUp, CleanUp
    <2>2. QED
        BY <2>1, BusyMoves, QuietElsewhere
<1>3. ASSUME NEW w \in Writers, WriterStep(w) PROVE Quiet'
    <2>1. /\ pc[w] # "idle" /\ UNCHANGED <<step, srv, stdinClosed>>
          /\ \E label : Goto(w, label)
        BY <1>3 DEF WriterStep, Lock, WriteHeader, WriteBody, WriteFails, AfterFailure
    <2>2. QED
        BY <2>1, BusyMoves, QuietElsewhere
<1>4. CASE ReaderStep
    <2>1. /\ UNCHANGED <<step, srv, stdinClosed>>
          /\ pc' = pc \/ \E label : Goto(Reader, label)
        BY <1>4 DEF ReaderStep, ReadResponse, Hands, Drops, Deliver, ReadAsk, ReadNote, Reads,
           ReadFails, CannotRead, FailOne, ReaderStops
    <2>2. \A c \in Callers : pc[c] = "idle" => pc'[c] = "idle"
        BY <1>0, <2>1, BusyMoves
    <2>3. QED
        BY <2>1, <2>2, QuietElsewhere
<1>5. CASE ServerStep \/ Reap \/ UNCHANGED vars
    <2>1. /\ UNCHANGED <<step, pc>> /\ (srv = "gone" => srv' = "gone")
          /\ stdinClosed' => stdinClosed \/ srv' = "gone"
        BY <1>5, ServerApart DEF Reap, vars
    <2>2. QED
        BY <2>1, QuietElsewhere
<1>6. CASE Initialize \/ Initialized \/ Exit
    <2>1. /\ step \in {"start", "initialize", "shutdown"}
          /\ step' \in {"initialize", "initialized", "exit"}
          /\ UNCHANGED <<srv, stdinClosed>> /\ Goto(Main, "lock")
        BY <1>6 DEF Initialize, Initialized, Exit, StartRequest, StartNotify
    <2>2. \A w \in Workers : pc'[w] = pc[w]
        BY <1>0, <2>1 DEF Goto, TypeOK
    <2>3. QED
        BY <2>1, <2>2 DEF Quiet
<1>7. CASE Serve \/ DidOpen
    BY <1>7 DEF Serve, DidOpen, StartNotify, Quiet
<1>8. CASE Shutdown
    <2>1. /\ AllIdle /\ step # "closed" /\ step' = "shutdown"
          /\ UNCHANGED <<srv, stdinClosed>> /\ Goto(Main, "lock")
        BY <1>8 DEF Shutdown, OpenFailed, StartRequest
    <2>2. \A w \in Workers : pc'[w] = "idle"
        BY <1>0, <2>1 DEF Goto, TypeOK, AllIdle
    <2>3. QED
        BY <2>1, <2>2 DEF Quiet
<1>9. CASE CloseStdin
    BY <1>9 DEF CloseStdin, MainIdle, Quiet
<1>10. QED
    BY <1>1, <1>2, <1>3, <1>4, <1>5, <1>6, <1>7, <1>8, <1>9
       DEF Next, CallerStep, MainStep, Terminating

\* When a write fails, gopls has gone: our end is closed before only by Main, on
\* its own.
LEMMA BrokenIsDown ==
    ASSUME Quiet, NEW c \in Callers, pc[c] # "idle", Broken
    PROVE  srv = "gone"
    BY DEF Quiet, Broken

\* Steps that fail nothing without a cause.
LEMMA CauseKept ==
    ASSUME FailsWithCause, Down => Down', srv = "gone" => srv' = "gone",
           done' => done \/ srv' = "gone",
           \A l \in inHand' : l \in inHand \/ l.kind # "failed",
           \A l \in mail' : l \in mail \/ l.kind # "failed" \/ Down',
           \A c \in Callers : pc'[c] = "cleanup" =>
              \/ pc[c] = "cleanup" /\ outcome'[c] = outcome[c] /\ cur'[c] = cur[c]
              \/ /\ outcome'[c].kind \in {"exited", "timeout", "unsent"}
                 /\ Down' \/ cur'[c].method = "shutdown"
    PROVE  FailsWithCause'
    BY DEF FailsWithCause

\* No call fails without a cause.
LEMMA CauseStep == TypeOK /\ SafeInv /\ Quiet /\ FailsWithCause /\ [Next]_vars => FailsWithCause'
<1> SUFFICES ASSUME TypeOK, SafeInv, Quiet, FailsWithCause, [Next]_vars PROVE FailsWithCause'
    OBVIOUS
<1>0. Reader \in Writers /\ Main \in Callers /\ Reader \notin Callers
    BY RolesAssumption
<1> USE DEF script, calls, boxes, pipes, server
<1>1. ASSUME NEW c \in Callers, NEW method, StartRequest(c, method) \/ StartNotify(c, method)
      PROVE  FailsWithCause'
    <2>1. /\ Goto(c, "lock") /\ UNCHANGED <<done, inHand, mail, srv, garbled>>
          /\ \A d \in Callers \ {c} : outcome'[d] = outcome[d] /\ cur'[d] = cur[d]
        BY <1>1 DEF StartRequest, StartNotify, Ends, TypeOK
    <2>2. QED
        BY <2>1, OthersStay, CauseKept DEF Down
<1>2. ASSUME NEW c \in Callers, Receive(c) \/ CleanUp(c) PROVE FailsWithCause'
    <2>1. /\ Goto(c, "idle") /\ UNCHANGED <<done, inHand, srv, garbled, cur>> /\ mail' \subseteq mail
          /\ \A d \in Callers \ {c} : outcome'[d] = outcome[d]
        BY <1>2 DEF Receive, CleanUp, Ends, TypeOK
    <2>2. QED
        BY <2>1, OthersStay, CauseKept DEF Down
<1>3. ASSUME NEW c \in Callers, Timeout(c) \/ SawDone(c) PROVE FailsWithCause'
    <2>1. /\ Goto(c, "cleanup") /\ UNCHANGED <<inHand, srv, garbled, cur, mail>> /\ (done' => done)
          /\ \A d \in Callers \ {c} : outcome'[d] = outcome[d]
        BY <1>3 DEF Timeout, SawDone, GivesUp, Ends, TypeOK
    <2>2. outcome'[c].kind \in {"exited", "timeout"}
        BY <1>3 DEF Timeout, SawDone, GivesUp, Ends, End, TypeOK
    <2>3. Down \/ cur[c].method = "shutdown"
        BY <1>3 DEF Timeout, SawDone, FailsWithCause, Down
    <2>4. QED
        BY <2>1, <2>2, <2>3, OthersStay, CauseKept DEF Down
<1>4. ASSUME NEW w \in Writers, Lock(w) \/ WriteHeader(w) PROVE FailsWithCause'
    <2>1. /\ Goto(w, "header") \/ Goto(w, "body")
          /\ UNCHANGED <<done, inHand, mail, srv, garbled, outcome, cur>>
        BY <1>4 DEF Lock, WriteHeader
    <2>2. QED
        BY <2>1, OthersStay, CauseKept DEF Down
<1>5. ASSUME NEW w \in Writers, WriteBody(w) PROVE FailsWithCause'
    <2>1. /\ \E label \in {"read", "idle", "wait"} : Goto(w, label)
          /\ UNCHANGED <<done, inHand, mail, srv, garbled, cur>>
          /\ \A d \in Callers \ {w} : outcome'[d] = outcome[d]
        BY <1>5 DEF WriteBody, Ends, TypeOK
    <2>2. QED
        BY <2>1, OthersStay, CauseKept DEF Down
<1>6. ASSUME NEW w \in Writers, WriteFails(w) PROVE FailsWithCause'
    <2>1. /\ pc[w] # "idle" /\ Broken
          /\ UNCHANGED <<done, inHand, mail, srv, garbled, cur>>
        BY <1>6 DEF WriteFails, AfterFailure
    <2>2. CASE w = Reader
        <3>1. Goto(w, "read") /\ UNCHANGED outcome
            BY <1>0, <1>6, <2>2 DEF WriteFails, AfterFailure
        <3>2. QED
            BY <2>1, <3>1, OthersStay, CauseKept DEF Down
    <2>3. CASE w \in Callers
        <3>1. /\ Ends(w, End("unsent")) /\ \E label : Goto(w, label)
            BY <1>0, <1>6, <2>3 DEF WriteFails, AfterFailure
        <3>2. /\ outcome'[w].kind = "unsent"
              /\ \A d \in Callers \ {w} : outcome'[d] = outcome[d]
            BY <2>3, <3>1 DEF Ends, End, TypeOK
        <3>3. Down
            BY <2>1, <2>3, BrokenIsDown DEF Down
        <3>4. QED
            BY <2>1, <3>1, <3>2, <3>3, OthersStay, CauseKept DEF Down
    <2>4. QED
        BY <2>2, <2>3
<1>7. CASE ReaderStep
    <2>1. UNCHANGED <<done, srv, garbled, outcome>>
        BY <1>7 DEF ReaderStep, ReadResponse, Deliver, ReadAsk, ReadNote, Reads,
           ReadFails, CannotRead, FailOne, ReaderStops
    <2>2. \A c \in Callers : pc'[c] = pc[c] /\ cur'[c] = cur[c]
        BY <1>7, ReaderApart
    <2>3. CASE ReadResponse
        <3>1. /\ mail' = mail
              /\ \A l \in inHand' : l \in inHand \/ l.kind \in {"result", "error"}
            BY <2>3 DEF ReadResponse, Reads, Hands, Drops
        <3>2. QED
            BY <2>1, <2>2, <3>1, CauseKept DEF Down
    <2>4. CASE Deliver
        <3>1. /\ inHand' = {}
              /\ \A l \in mail' : l \in mail \/ l.kind # "failed"
            BY <2>4 DEF Deliver, FailsWithCause
        <3>2. QED
            BY <2>1, <2>2, <3>1, CauseKept DEF Down
    <2>5. CASE ReadAsk \/ ReadNote \/ ReadFails \/ ReaderStops
        <3>1. UNCHANGED <<mail, inHand>>
            BY <2>5 DEF ReadAsk, ReadNote, Reads, ReadFails, CannotRead, ReaderStops
        <3>2. QED
            BY <2>1, <2>2, <3>1, CauseKept DEF Down
    <2>6. CASE FailOne
        <3>1. inHand' = inHand /\ pc[Reader] = "failing"
            BY <2>6 DEF FailOne
        <3>2. Down
            BY <3>1 DEF Down, SafeInv, ReaderEndsWithCause, ReaderOver
        <3>3. QED
            BY <2>1, <2>2, <3>1, <3>2, CauseKept DEF Down
    <2>7. QED
        BY <1>7, <2>3, <2>4, <2>5, <2>6 DEF ReaderStep
<1>8. CASE ServerStep \/ Reap \/ Serve \/ CloseStdin \/ UNCHANGED vars
    <2>1. /\ UNCHANGED <<pc, cur, outcome, mail, inHand>>
          /\ (srv = "gone" => srv' = "gone") /\ (garbled => garbled')
          /\ done' => done \/ srv' = "gone"
        BY <1>8, ServerApart DEF Reap, Serve, CloseStdin, vars
    <2>2. QED
        BY <2>1, CauseKept DEF Down
<1>9. QED
    BY <1>0, <1>1, <1>2, <1>3, <1>4, <1>5, <1>6, <1>7, <1>8
       DEF Next, CallerStep, WriterStep, MainStep, Terminating,
           Query, Initialize, Initialized, DidOpen, Shutdown, Exit

---------------------------------------------------------------------------
\* Initially nobody is in a call and the pipes are empty.
LEMMA CallInit == Init => CallInv
<1> SUFFICES ASSUME Init PROVE CallInv
    OBVIOUS
<1>1. Exclusive
    BY RolesAssumption DEF Init, Exclusive
<1>2. Framed
    BY DEF Init, Framed, FramesIntact, Broken
<1>3. Matching
    BY DEF Init, Matching, Honest, Nothing
<1>4. Current /\ Quiet /\ FailsWithCause
    BY RolesAssumption DEF Init, Current, Quiet, FailsWithCause
<1>5. QED
    BY <1>1, <1>2, <1>3, <1>4 DEF CallInv

\* Every step of the client, of Main and of gopls keeps CallInv.
LEMMA CallStep == TypeOK /\ SafeInv /\ CallInv /\ [Next]_vars => CallInv'
    BY ExclusiveStep, FramedStep, MatchingStep, CurrentStep, QuietStep, CauseStep DEF CallInv

\* CallInv is an invariant of the client.
THEOREM CallsSafe == Spec => [](TypeOK /\ SafeInv /\ CallInv)
<1>1. TypeOK /\ SafeInv /\ CallInv /\ [Next]_vars => CallInv'
    BY CallStep
<1>2. QED
    BY <1>1, CallInit, Safe, PTL DEF Spec

\* However callers and the reader's replies interleave, and however their
\* writes fail, gopls sees whole frames, each header before its own body.
THEOREM FramesStayIntact == Spec => []FramesIntact
<1>1. CallInv => FramesIntact
    BY DEF CallInv, Framed
<1>2. QED
    BY <1>1, CallsSafe, PTL

\* The letter a waiting caller will receive is about its own question, in
\* whatever order gopls answers and whoever else has given up.
THEOREM EachItsOwnAnswer == Spec => []OwnAnswer
<1>1. TypeOK /\ SafeInv /\ CallInv => OwnAnswer
    <2> SUFFICES ASSUME SafeInv, CallInv, NEW c \in Callers, pc[c] = "wait",
                        NEW l \in mail \cup inHand, l.to = cur[c].id
                 PROVE  l.kind = "failed" \/ l.about = c
        BY DEF OwnAnswer
    <2>1. askedBy[cur[c].id] = c
        BY DEF SafeInv, Issued, InRequest
    <2>2. QED
        BY <2>1 DEF CallInv, Matching
<1>2. QED
    BY <1>1, CallsSafe, PTL

\* The pending map holds only calls in progress: it does not grow over the
\* life of a session, whatever times out or fails.
THEOREM RegistrationsEnd == Spec => []NoStaleRegistration
<1>1. TypeOK /\ SafeInv /\ CallInv => NoStaleRegistration
    <2> SUFFICES ASSUME TypeOK, CallInv, NEW id \in pending
                 PROVE  \E c \in Callers : cur[c].id = id /\ pc[c] \in InCall
        BY DEF NoStaleRegistration, InCall
    <2>1. askedBy[id] \in Callers
        BY DEF TypeOK
    <2>2. cur[askedBy[id]].id = id /\ pc[askedBy[id]] \in InCall
        BY DEF CallInv, Current, InCall
    <2>3. QED
        BY <2>1, <2>2
<1>2. QED
    BY <1>1, CallsSafe, PTL

---------------------------------------------------------------------------
(* The contract, step by step.                                             *)

\* Steps that no caller sees.
LEMMA ContractStutters ==
    ASSUME \A c \in Callers : CallOf(c)' = CallOf(c) /\ AnswerOf(c)' = AnswerOf(c), Down' = Down
    PROVE  UNCHANGED Contract!contract
    BY DEF Contract!contract

\* A call of c begins, or ends in one of the three ways the contract knows.
LEMMA ContractMoves ==
    ASSUME NEW c \in Callers, Down' = Down,
           \A d \in Callers \ {c} : CallOf(d)' = CallOf(d) /\ AnswerOf(d)' = AnswerOf(d),
           \/ /\ CallOf(c) = "none" /\ CallOf(c)' \in {"request", "deadline", "notice"}
              /\ AnswerOf(c)' = End("none")
           \/ /\ CallOf(c) \in {"request", "deadline"} /\ CallOf(c)' = "none"
              /\ \E kind \in {"result", "error"} : AnswerOf(c)' = [kind |-> kind, about |-> c]
           \/ /\ CallOf(c) = "notice" /\ CallOf(c)' = "none"
              /\ AnswerOf(c)' = End("sent")
           \/ /\ CallOf(c) # "none" /\ CallOf(c)' = "none"
              /\ Down \/ CallOf(c) = "deadline"
              /\ AnswerOf(c)' = End("failed")
    PROVE  Contract!CNext
<1> DEFINE call == [d \in Callers |-> CallOf(d)]
           answer == [d \in Callers |-> AnswerOf(d)]
<1>1. call' = [call EXCEPT ![c] = CallOf(c)']
    OBVIOUS
<1>2. answer' = [answer EXCEPT ![c] = AnswerOf(c)']
    OBVIOUS
<1>3. CASE /\ CallOf(c) = "none" /\ CallOf(c)' \in {"request", "deadline", "notice"}
           /\ AnswerOf(c)' = End("none")
    BY <1>1, <1>2, <1>3 DEF Contract!CNext, Contract!Begin, Contract!NotYet, End
<1>4. CASE /\ CallOf(c) \in {"request", "deadline"} /\ CallOf(c)' = "none"
           /\ \E kind \in {"result", "error"} : AnswerOf(c)' = [kind |-> kind, about |-> c]
    BY <1>1, <1>2, <1>4 DEF Contract!CNext, Contract!Answered, Contract!Finish
<1>5. CASE /\ CallOf(c) = "notice" /\ CallOf(c)' = "none"
           /\ AnswerOf(c)' = End("sent")
    BY <1>1, <1>2, <1>5 DEF Contract!CNext, Contract!Sent, Contract!Finish, End
<1>6. CASE /\ CallOf(c) # "none" /\ CallOf(c)' = "none"
           /\ Down \/ CallOf(c) = "deadline"
           /\ AnswerOf(c)' = End("failed")
    BY <1>1, <1>2, <1>6 DEF Contract!CNext, Contract!Failed, Contract!Finish, End
<1>7. QED
    BY <1>3, <1>4, <1>5, <1>6

\* What a caller sees of a step in which it neither begins nor ends a call.
LEMMA InnerSteps ==
    ASSUME NEW c \in Callers, cur'[c] = cur[c],
           \/ pc[c] = "idle" /\ pc'[c] = "idle" /\ outcome'[c] = outcome[c]
           \/ pc[c] # "idle" /\ pc'[c] # "idle"
    PROVE  CallOf(c)' = CallOf(c) /\ AnswerOf(c)' = AnswerOf(c)
    BY DEF CallOf, AnswerOf

\* Only c moves, and nothing goes down.
LEMMA OnlyOneMoves ==
    ASSUME TypeOK, NEW c \in Callers, NEW label, Goto(c, label),
           \A d \in Callers \ {c} : cur'[d] = cur[d] /\ outcome'[d] = outcome[d],
           UNCHANGED <<srv, garbled>>
    PROVE  /\ pc'[c] = label /\ Down' = Down
           /\ \A d \in Callers \ {c} : CallOf(d)' = CallOf(d) /\ AnswerOf(d)' = AnswerOf(d)
<1>1. pc'[c] = label /\ \A d \in Callers \ {c} : pc'[d] = pc[d]
    BY OthersStay
<1>2. QED
    BY <1>1, InnerSteps DEF Down

\* request and notify begin a call.
LEMMA BeginContract ==
    ASSUME TypeOK, NEW c \in Callers, NEW method,
           StartRequest(c, method) \/ StartNotify(c, method)
    PROVE  Contract!CNext
<1>1. /\ pc[c] = "idle" /\ Goto(c, "lock") /\ UNCHANGED <<srv, garbled>>
      /\ \A d \in Callers \ {c} : cur'[d] = cur[d] /\ outcome'[d] = outcome[d]
    BY DEF StartRequest, StartNotify, Ends, server, TypeOK
<1>2. CallOf(c) = "none"
    BY <1>1 DEF CallOf
<1>3. pc'[c] = "lock"
    BY <1>1, OnlyOneMoves
<1>4. CallOf(c)' \in {"request", "deadline", "notice"} /\ AnswerOf(c)' = End("none")
    BY <1>3 DEF CallOf, AnswerOf
<1>5. QED
    BY <1>1, <1>2, <1>4, OnlyOneMoves, ContractMoves

\* The letter is the answer to the request, or the connection is down.
LEMMA ReceiveContract ==
    ASSUME TypeOK, SafeInv, CallInv, NEW c \in Callers, Receive(c)
    PROVE  Contract!CNext
<1>1. PICK l \in mail : l.to = cur[c].id /\ Ends(c, [kind |-> l.kind, about |-> l.about])
    BY DEF Receive
<1>2. /\ pc[c] = "wait" /\ Goto(c, "idle") /\ UNCHANGED <<cur, srv, garbled>>
      /\ \A d \in Callers \ {c} : outcome'[d] = outcome[d]
    BY <1>1 DEF Receive, Ends, calls, server, TypeOK
<1>3. pc'[c] = "idle" /\ outcome'[c] = [kind |-> l.kind, about |-> l.about]
    BY <1>1, <1>2, OnlyOneMoves DEF Ends, TypeOK
<1>4. cur[c].id # 0 /\ askedBy[cur[c].id] = c
    BY <1>2 DEF SafeInv, Issued, InRequest
<1>5. CallOf(c) \in {"request", "deadline"} /\ CallOf(c)' = "none"
    BY <1>2, <1>3, <1>4 DEF CallOf
<1>6. CASE l.kind = "failed"
    <2>1. AnswerOf(c)' = End("failed")
        BY <1>3, <1>6 DEF AnswerOf, Bad
    <2>2. Down
        BY <1>6 DEF CallInv, FailsWithCause
    <2>3. QED
        BY <1>2, <1>5, <2>1, <2>2, OnlyOneMoves, ContractMoves
<1>7. CASE l.kind \in {"result", "error"}
    <2>1. l.about = c
        BY <1>1, <1>4, <1>7 DEF CallInv, Matching
    <2>2. AnswerOf(c)' = [kind |-> l.kind, about |-> c]
        BY <1>3, <1>7, <2>1 DEF AnswerOf, Bad
    <2>3. QED
        BY <1>2, <1>5, <1>7, <2>2, OnlyOneMoves, ContractMoves
<1>8. QED
    BY <1>6, <1>7 DEF TypeOK, Letter

\* A request that has cleaned up returns the error it gave up for.
LEMMA CleanUpContract ==
    ASSUME TypeOK, SafeInv, CallInv, NEW c \in Callers, CleanUp(c)
    PROVE  Contract!CNext
<1>1. /\ pc[c] = "cleanup" /\ Goto(c, "idle") /\ UNCHANGED <<cur, outcome, srv, garbled>>
    BY DEF CleanUp, script, server
<1>2. pc'[c] = "idle"
    BY <1>1, OnlyOneMoves
<1>3. /\ outcome[c].kind \in {"exited", "timeout", "unsent"}
      /\ Down \/ cur[c].method = "shutdown"
    BY <1>1 DEF CallInv, FailsWithCause
<1>4. cur[c].id # 0
    BY <1>1 DEF SafeInv, Issued
<1>5. CallOf(c) # "none" /\ CallOf(c)' = "none" /\ (Down \/ CallOf(c) = "deadline")
    BY <1>1, <1>2, <1>3, <1>4 DEF CallOf
<1>6. AnswerOf(c)' = End("failed")
    BY <1>1, <1>2, <1>3 DEF AnswerOf, Bad
<1>7. QED
    BY <1>1, <1>5, <1>6, OnlyOneMoves, ContractMoves

\* A notification is over when it is written, or when it cannot be.
LEMMA WriteContract ==
    ASSUME TypeOK, SafeInv, CallInv, NEW c \in Callers, WriteBody(c) \/ WriteFails(c)
    PROVE  [Contract!CNext]_(Contract!contract)
<1>1. /\ pc[c] \in {"header", "body"} /\ UNCHANGED <<cur, srv, garbled>>
    BY DEF WriteBody, WriteFails, AfterFailure, calls, server
<1>2. c # Reader
    BY RolesAssumption
<1>3. \A d \in Callers \ {c} : outcome'[d] = outcome[d]
    BY DEF WriteBody, WriteFails, AfterFailure, Ends, TypeOK
<1>4. CASE WriteBody(c) /\ cur[c].id = 0
    <2>1. Goto(c, "idle") /\ Ends(c, End("sent"))
        BY <1>2, <1>4 DEF WriteBody
    <2>2. pc'[c] = "idle" /\ outcome'[c] = End("sent")
        BY <1>1, <1>3, <2>1, OnlyOneMoves DEF Ends, TypeOK
    <2>3. CallOf(c) = "notice" /\ CallOf(c)' = "none" /\ AnswerOf(c)' = End("sent")
        BY <1>1, <1>4, <2>2 DEF CallOf, AnswerOf, Bad, End
    <2>4. QED
        BY <1>1, <1>3, <2>1, <2>3, OnlyOneMoves, ContractMoves
<1>5. CASE WriteFails(c) /\ cur[c].id = 0
    <2>1. Goto(c, "idle") /\ Ends(c, End("unsent"))
        BY <1>2, <1>5 DEF WriteFails, AfterFailure
    <2>2. pc'[c] = "idle" /\ outcome'[c] = End("unsent")
        BY <1>1, <1>3, <2>1, OnlyOneMoves DEF Ends, TypeOK
    <2>3. Down
        BY <1>1, <1>5, BrokenIsDown DEF WriteFails, CallInv, Down
    <2>4. CallOf(c) = "notice" /\ CallOf(c)' = "none" /\ AnswerOf(c)' = End("failed")
        BY <1>1, <1>5, <2>2 DEF CallOf, AnswerOf, Bad, End
    <2>5. QED
        BY <1>1, <1>3, <2>1, <2>3, <2>4, OnlyOneMoves, ContractMoves
<1>6. CASE cur[c].id # 0
    <2>1. Goto(c, "wait") \/ Goto(c, "cleanup")
        BY <1>2, <1>6 DEF WriteBody, WriteFails, AfterFailure
    <2>2. pc'[c] # "idle"
        BY <1>1, <1>3, <2>1, OnlyOneMoves
    <2>3. CallOf(c)' = CallOf(c) /\ AnswerOf(c)' = AnswerOf(c)
        BY <1>1, <2>2, InnerSteps
    <2>4. QED
        BY <1>1, <1>3, <2>1, <2>3, OnlyOneMoves, ContractStutters
<1>7. QED
    BY <1>4, <1>5, <1>6

\* Every step of the client is a step of the contract, or none.
LEMMA ContractStep ==
    TypeOK /\ SafeInv /\ CallInv /\ [Next]_vars => [Contract!CNext]_(Contract!contract)
<1> SUFFICES ASSUME TypeOK, SafeInv, CallInv, [Next]_vars
             PROVE  [Contract!CNext]_(Contract!contract)
    OBVIOUS
<1>0. Reader \notin Callers /\ Main \in Callers
    BY RolesAssumption
<1>1. ASSUME NEW c \in Callers, NEW method, StartRequest(c, method) \/ StartNotify(c, method)
      PROVE  Contract!CNext
    BY <1>1, BeginContract
<1>2. ASSUME NEW c \in Callers, Receive(c) \/ CleanUp(c) PROVE Contract!CNext
    BY <1>2, ReceiveContract, CleanUpContract
<1>3. ASSUME NEW c \in Callers, Timeout(c) \/ SawDone(c) PROVE UNCHANGED Contract!contract
    <2>1. /\ pc[c] = "wait" /\ Goto(c, "cleanup") /\ UNCHANGED <<cur, srv, garbled>>
          /\ \A d \in Callers \ {c} : outcome'[d] = outcome[d]
        BY <1>3 DEF Timeout, SawDone, GivesUp, Ends, calls, server, TypeOK
    <2>2. pc'[c] # "idle"
        BY <2>1, OnlyOneMoves
    <2>3. CallOf(c)' = CallOf(c) /\ AnswerOf(c)' = AnswerOf(c)
        BY <2>1, <2>2, InnerSteps
    <2>4. QED
        BY <2>1, <2>3, OnlyOneMoves, ContractStutters
<1>4. ASSUME NEW c \in Callers, WriteBody(c) \/ WriteFails(c)
      PROVE  [Contract!CNext]_(Contract!contract)
    BY <1>4, WriteContract
<1>5. ASSUME NEW w \in Writers, Lock(w) \/ WriteHeader(w) \/ (w = Reader /\ WriterStep(w))
      PROVE  UNCHANGED Contract!contract
    <2>1. /\ pc[w] # "idle" /\ UNCHANGED <<cur, outcome, srv, garbled>>
          /\ \E label : Goto(w, label) /\ (w \in Callers => label \in {"header", "body"})
        BY <1>0, <1>5 DEF WriterStep, Lock, WriteHeader, WriteBody, WriteFails, AfterFailure,
           script, calls, server
    <2>2. \A c \in Callers : pc'[c] = pc[c] \/ (pc[c] # "idle" /\ pc'[c] # "idle")
        BY <2>1, OthersStay
    <2>3. \A c \in Callers : CallOf(c)' = CallOf(c) /\ AnswerOf(c)' = AnswerOf(c)
        BY <2>1, <2>2, InnerSteps
    <2>4. QED
        BY <2>1, <2>3, ContractStutters DEF Down
<1>6. CASE ReaderStep
    <2>1. UNCHANGED <<outcome, srv, garbled>>
        BY <1>6 DEF ReaderStep, ReadResponse, Deliver, ReadAsk, ReadNote, Reads,
           ReadFails, CannotRead, FailOne, ReaderStops, script, server
    <2>2. \A c \in Callers : CallOf(c)' = CallOf(c) /\ AnswerOf(c)' = AnswerOf(c)
        BY <1>6, <2>1, ReaderApart, InnerSteps
    <2>3. QED
        BY <2>1, <2>2, ContractStutters DEF Down
<1>7. CASE ServerStep \/ Reap \/ Serve \/ CloseStdin \/ UNCHANGED vars
    <2>1. UNCHANGED <<pc, cur, outcome>> /\ (Down => Down')
        BY <1>7, ServerApart DEF Reap, Serve, CloseStdin, vars, script, calls, server, Down
    <2>2. \A c \in Callers : CallOf(c)' = CallOf(c) /\ AnswerOf(c)' = AnswerOf(c)
        BY <2>1, InnerSteps
    <2>3. CASE Down' = Down
        BY <2>2, <2>3, ContractStutters
    <2>4. CASE ~Down /\ Down'
        BY <2>2, <2>4 DEF Contract!CNext, Contract!GoesDown
    <2>5. QED
        BY <2>1, <2>3, <2>4 DEF Down
<1>8. QED
    BY <1>0, <1>1, <1>2, <1>3, <1>4, <1>5, <1>6, <1>7
       DEF Next, CallerStep, WriterStep, MainStep, Terminating,
           Query, Initialize, Initialized, DidOpen, Shutdown, Exit

\* It begins where the contract begins.
LEMMA ContractInit == Init => Contract!CInit
    BY RolesAssumption DEF Init, Contract!CInit, Contract!NotYet, CallOf, AnswerOf, Bad, Down, End

\* The client implements the contract the batch relies on: a call ends once,
\* with the answer to its own question, or with a failure for which the
\* connection, or the deadline of shutdown, is the cause.
THEOREM ClientKeepsContract == Spec => ImplementsContract
<1>1. TypeOK /\ SafeInv /\ CallInv /\ [Next]_vars => [Contract!CNext]_(Contract!contract)
    BY ContractStep
<1>2. QED
    BY <1>1, ContractInit, CallsSafe, PTL DEF Spec, ImplementsContract, Contract!CSpec
=============================================================================
