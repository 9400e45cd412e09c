---------------------------- MODULE LspClient ----------------------------
(***************************************************************************)
(* The JSON-RPC client that shares one `gopls serve` process between the   *)
(* goroutines of a parser task (internal/gopls/rpc.go).                    *)
(*                                                                         *)
(* Callers run request() and notify(); the Reader goroutine runs readLoop  *)
(* and answers the server's own requests through the same write(); a third *)
(* goroutine waits for the process and puts one value into done.  Main is  *)
(* the goroutine that owns the session: it initialises it, runs the first  *)
(* query of every batch, opens documents and finally closes it; Workers    *)
(* are the goroutines of a batch.                                          *)
(*                                                                         *)
(* A frame is written with two separate writes (header, body) under        *)
(* writeMu, so stdin is a bounded sequence of chunks.  A response channel  *)
(* is named by the id of the request that made it; mail holds the letters  *)
(* that sit in channels.  gopls itself is external: it may answer in any   *)
(* order, speak unasked, emit garbage, or die at any moment.               *)
(***************************************************************************)
EXTENDS Integers, Sequences, FiniteSets

CONSTANTS
    Workers,     \* goroutines of a batch
    Main,        \* the goroutine that owns the session
    Reader,      \* the readLoop goroutine
    NoOne,       \* not a goroutine
    MaxId,       \* bound: requests in the life of the process
    PipeCap,     \* bound: chunks the stdin pipe holds
    OutCap,      \* bound: messages the stdout pipe holds
    MaxSpeech,   \* bound: messages gopls sends unasked
    MayGarble,   \* whether gopls may emit a frame the reader cannot decode
    Refusals     \* bound: requests gopls may answer with an error

Callers == Workers \cup {Main}
Writers == Callers \cup {Reader}

ASSUME RolesAssumption ==
    /\ Main \notin Workers
    /\ Reader \notin Callers
    /\ NoOne \notin Writers

ASSUME BoundsAssumption ==
    /\ MaxId \in Nat /\ MaxId >= 2
    /\ PipeCap \in Nat /\ PipeCap >= 2
    /\ OutCap \in Nat \ {0}
    /\ MaxSpeech \in Nat
    /\ MayGarble \in BOOLEAN

VARIABLES
    step,         \* how far Main is in the life of the session
    pc,           \* what each goroutine that writes is doing
    cur,          \* the message each of them has in hand
    outcome,      \* how the last request or notification of a caller ended
    askedBy,      \* askedBy[id] made request id; its length is nextID
    pending,      \* ids whose channel is registered
    mail,         \* letters in response channels
    inHand,       \* the letter readLoop is about to send
    failing,      \* ids failPending took and has not answered yet
    done,         \* the done channel holds the exit of the process
    writeMu,      \* who holds the write mutex
    stdin, stdinClosed, stdout,
    srv,          \* "up" or "gone"
    reaped,       \* cmd.Wait has returned
    backlog,      \* requests gopls has read and not answered
    speech,       \* messages gopls may still send unasked
    garbled       \* gopls has emitted garbage

script == <<step, outcome>>
calls  == <<cur, askedBy, pending>>
boxes  == <<mail, inHand, failing>>
pipes  == <<stdin, stdinClosed, stdout>>
server == <<srv, backlog, speech, garbled>>
vars   == <<step, pc, cur, outcome, askedBy, pending, mail, inHand, failing, done,
            writeMu, stdin, stdinClosed, stdout, srv, reaped, backlog, speech, garbled>>

Ids     == 1..MaxId
Methods == {"initialize", "implementation", "shutdown",
            "initialized", "didOpen", "exit", "reply", "nothing"}
\* A notification, and a reply to the server, has id 0.
Message == [method : Methods, id : 0..MaxId, about : Writers \cup {NoOne}]
Nothing == [method |-> "nothing", id |-> 0, about |-> NoOne]
Chunk   == [part : {"header", "body"}, msg : Message]
\* What the reader can find in stdout: "note" stands for everything it skips.
Incoming == [kind : {"result", "error", "ask", "note", "garbage"},
             id : 0..MaxId, about : Writers \cup {NoOne}]
Letter  == [to : Ids, kind : {"result", "error", "failed"}, about : Writers \cup {NoOne}]
Outcome == [kind : {"none", "result", "error", "failed", "exited", "timeout", "unsent", "sent"},
            about : Writers \cup {NoOne}]
End(kind) == [kind |-> kind, about |-> NoOne]

Init ==
    /\ step = "start"
    /\ pc = [w \in Writers |-> IF w = Reader THEN "read" ELSE "idle"]
    /\ cur = [w \in Writers |-> Nothing]
    /\ outcome = [c \in Callers |-> End("none")]
    /\ askedBy = <<>> /\ pending = {}
    /\ mail = {} /\ inHand = {} /\ failing = {} /\ done = FALSE
    /\ writeMu = NoOne
    /\ stdin = <<>> /\ stdinClosed = FALSE /\ stdout = <<>>
    /\ srv = "up" /\ reaped = FALSE /\ backlog = {}
    /\ speech = MaxSpeech /\ garbled = FALSE

---------------------------------------------------------------------------
(* request() and notify(): registering the call and writing its frame.     *)

Goto(w, label) == pc' = [pc EXCEPT ![w] = label]
Ends(c, end)   == outcome' = [outcome EXCEPT ![c] = end]

\* request up to its write: a fresh id and its channel enter pending.
StartRequest(c, method) ==
    LET id == Len(askedBy) + 1
    IN  /\ pc[c] = "idle"
        /\ id <= MaxId
        /\ askedBy' = Append(askedBy, c)
        /\ pending' = pending \cup {id}
        /\ cur' = [cur EXCEPT ![c] = [method |-> method, id |-> id, about |-> c]]
        /\ Ends(c, End("none"))
        /\ Goto(c, "lock")
        /\ UNCHANGED <<boxes, done, writeMu, pipes, server, reaped>>

\* Fault, for testing the checks: notify registers a channel as request does.
StartNotify_Registers(c, method) ==
    /\ pc[c] = "idle"
    /\ pending' = pending \cup {Len(askedBy) + 1}
    /\ cur' = [cur EXCEPT ![c] = [method |-> method, id |-> 0, about |-> NoOne]]
    /\ Ends(c, End("none"))
    /\ Goto(c, "lock")
    /\ UNCHANGED <<askedBy, boxes, done, writeMu, pipes, server, reaped>>

StartNotify(c, method) ==
    /\ pc[c] = "idle"
    /\ cur' = [cur EXCEPT ![c] = [method |-> method, id |-> 0, about |-> NoOne]]
    /\ Ends(c, End("none"))
    /\ Goto(c, "lock")
    /\ UNCHANGED <<askedBy, pending, boxes, done, writeMu, pipes, server, reaped>>

\* A write to the pipe fails once the reading end or our end is closed.
Broken == srv = "gone" \/ stdinClosed

\* Fault: writeMu is not taken.
Lock_NoMutex(w) ==
    /\ pc[w] = "lock"
    /\ Goto(w, "header")
    /\ UNCHANGED <<script, calls, boxes, done, writeMu, pipes, server, reaped>>

Lock(w) ==
    /\ pc[w] = "lock" /\ writeMu = NoOne
    /\ writeMu' = w
    /\ Goto(w, "header")
    /\ UNCHANGED <<script, calls, boxes, done, pipes, server, reaped>>

Put(w, part) ==
    /\ ~Broken /\ Len(stdin) < PipeCap
    /\ stdin' = Append(stdin, [part |-> part, msg |-> cur[w]])

WriteHeader(w) ==
    /\ pc[w] = "header"
    /\ Put(w, "header")
    /\ Goto(w, "body")
    /\ UNCHANGED <<script, calls, boxes, done, writeMu, stdinClosed, stdout, server, reaped>>

WriteBody(w) ==
    /\ pc[w] = "body"
    /\ Put(w, "body")
    /\ writeMu' = NoOne
    /\ \/ /\ w = Reader
          /\ Goto(w, "read") /\ UNCHANGED outcome
       \/ /\ w \in Callers /\ cur[w].id = 0
          /\ Goto(w, "idle") /\ Ends(w, End("sent"))
       \/ /\ w \in Callers /\ cur[w].id # 0
          /\ Goto(w, "wait") /\ UNCHANGED outcome
    /\ UNCHANGED <<step, calls, boxes, done, stdinClosed, stdout, server, reaped>>

\* The reader ignores the error; a request goes on to removePending.
AfterFailure(w) ==
    /\ \/ /\ w = Reader
          /\ Goto(w, "read") /\ UNCHANGED outcome
       \/ /\ w \in Callers /\ Ends(w, End("unsent"))
          /\ Goto(w, IF cur[w].id = 0 THEN "idle" ELSE "cleanup")
    /\ UNCHANGED <<step, calls, boxes, done, pipes, server, reaped>>

\* Fault: the error path of write returns without unlocking.
WriteFails_KeepsLock(w) ==
    /\ pc[w] \in {"header", "body"} /\ Broken
    /\ AfterFailure(w) /\ UNCHANGED writeMu

\* The deferred Unlock runs on the error path too.
WriteFails(w) ==
    /\ pc[w] \in {"header", "body"} /\ Broken
    /\ writeMu' = NoOne
    /\ AfterFailure(w)

---------------------------------------------------------------------------
(* request(): the select over the response, the deadline and done.         *)

Receive(c) ==
    /\ pc[c] = "wait"
    /\ \E l \in mail :
          /\ l.to = cur[c].id
          /\ mail' = mail \ {l}
          /\ Ends(c, [kind |-> l.kind, about |-> l.about])
    /\ Goto(c, "idle")
    /\ UNCHANGED <<step, calls, inHand, failing, done, writeMu, pipes, server, reaped>>

\* The two arms of the select that end a request without its answer.
GivesUp(c, kind) ==
    /\ pc[c] = "wait"
    /\ Ends(c, End(kind))
    /\ Goto(c, "cleanup")
    /\ UNCHANGED <<step, calls, boxes, writeMu, pipes, server, reaped>>

\* Fault: the deadline applies to every request.
Timeout_Every(c) == GivesUp(c, "timeout") /\ UNCHANGED done

\* Only the request of close() carries a deadline.
Timeout(c) ==
    /\ cur[c].method = "shutdown"
    /\ GivesUp(c, "timeout") /\ UNCHANGED done

\* done holds a single value: the caller that takes it is the only one to see it.
SawDone(c) == done /\ done' = FALSE /\ GivesUp(c, "exited")

\* Fault: a request that gives up leaves its registration behind.
CleanUp_Forgets(c) ==
    /\ pc[c] = "cleanup"
    /\ Goto(c, "idle")
    /\ UNCHANGED <<script, calls, boxes, done, writeMu, pipes, server, reaped>>

\* removePending, after which request returns its error.
CleanUp(c) ==
    /\ pc[c] = "cleanup"
    /\ pending' = pending \ {cur[c].id}
    /\ Goto(c, "idle")
    /\ UNCHANGED <<script, cur, askedBy, boxes, done, writeMu, pipes, server, reaped>>

---------------------------------------------------------------------------
(* readLoop, handleServerRequest and failPending.                          *)

Reads(kinds) ==
    /\ pc[Reader] = "read" /\ stdout # <<>> /\ Head(stdout).kind \in kinds
    /\ stdout' = Tail(stdout)
    /\ UNCHANGED <<script, askedBy, mail, failing, done, writeMu, stdin, stdinClosed, server, reaped>>

Hands(m, id) ==
    /\ inHand' = {[to |-> id, kind |-> m.kind, about |-> m.about]}
    /\ Goto(Reader, "deliver")
Drops == UNCHANGED <<inHand, pc>>

\* Fault: the channel is looked up and not deleted.
ReadResponse_KeepsRegistration ==
    LET m == Head(stdout)
    IN  /\ Reads({"result", "error"})
        /\ IF m.id \in pending THEN Hands(m, m.id) ELSE Drops
        /\ UNCHANGED <<cur, pending>>

\* Fault: answers are taken to come in the order of the requests.
ReadResponse_InOrder ==
    LET m == Head(stdout)
        First == {id \in pending : \A other \in pending : id <= other}
    IN  /\ Reads({"result", "error"})
        /\ pending' = pending \ First
        /\ IF First # {} THEN \E id \in First : Hands(m, id) ELSE Drops
        /\ UNCHANGED cur

\* Lookup and delete are one critical section; an unknown id is dropped.
ReadResponse ==
    LET m == Head(stdout)
    IN  /\ Reads({"result", "error"})
        /\ pending' = pending \ {m.id}
        /\ \/ m.id \in pending /\ Hands(m, m.id)
           \/ m.id \notin pending /\ Drops
        /\ UNCHANGED cur

\* A send blocks while the channel, of capacity one, is full.
Deliver ==
    /\ pc[Reader] = "deliver"
    /\ \E l \in inHand :
          /\ \A k \in mail : k.to # l.to
          /\ mail' = mail \cup {l}
    /\ inHand' = {}
    /\ Goto(Reader, "read")
    /\ UNCHANGED <<script, calls, failing, done, writeMu, pipes, server, reaped>>

\* A request of the server is answered here, through the callers' own write path.
ReadAsk ==
    /\ Reads({"ask"})
    /\ cur' = [cur EXCEPT ![Reader] = [method |-> "reply", id |-> 0, about |-> NoOne]]
    /\ Goto(Reader, "lock")
    /\ UNCHANGED <<pending, inHand>>

ReadNote ==
    /\ Reads({"note"})
    /\ UNCHANGED <<pending, inHand, pc, cur>>

\* EOF, the pipe closed by Wait, or a frame that cannot be decoded.
CannotRead ==
    /\ pc[Reader] = "read"
    /\ \/ srv = "gone" /\ stdout = <<>>
       \/ reaped
       \/ stdout # <<>> /\ Head(stdout).kind = "garbage"
    /\ Goto(Reader, "failing")
    /\ UNCHANGED <<script, cur, askedBy, mail, inHand, done, writeMu, pipes, server, reaped>>

\* Fault: the loop ends without telling those who wait, leaving them to done.
ReadFails_Silently == CannotRead /\ UNCHANGED <<pending, failing>>

\* The loop takes the whole pending map and ends.
ReadFails == CannotRead /\ failing' = pending /\ pending' = {}

FailOne ==
    /\ pc[Reader] = "failing"
    /\ \E id \in failing :
          /\ \A k \in mail : k.to # id
          /\ mail' = mail \cup {[to |-> id, kind |-> "failed", about |-> NoOne]}
          /\ failing' = failing \ {id}
    /\ UNCHANGED <<script, pc, calls, inHand, done, writeMu, pipes, server, reaped>>

ReaderStops ==
    /\ pc[Reader] = "failing" /\ failing = {}
    /\ Goto(Reader, "stopped")
    /\ UNCHANGED <<script, calls, boxes, done, writeMu, pipes, server, reaped>>

\* The waiting goroutine: cmd.Wait also closes our ends of the pipes.
Reap ==
    /\ srv = "gone" /\ ~reaped
    /\ reaped' = TRUE /\ done' = TRUE /\ stdinClosed' = TRUE
    /\ UNCHANGED <<script, pc, calls, boxes, writeMu, stdin, stdout, server>>

---------------------------------------------------------------------------
(* The life of a session, driven by Main.                                  *)

AllIdle == \A c \in Callers : pc[c] = "idle"
MainIdle == pc[Main] = "idle"

Initialize ==
    /\ step = "start"
    /\ step' = "initialize"
    /\ StartRequest(Main, "initialize")

Initialized ==
    /\ step = "initialize" /\ MainIdle /\ outcome[Main].kind = "result"
    /\ step' = "initialized"
    /\ StartNotify(Main, "initialized")

Serve ==
    /\ step = "initialized" /\ MainIdle /\ outcome[Main].kind = "sent"
    /\ step' = "serve"
    /\ UNCHANGED <<pc, outcome, calls, boxes, done, writeMu, pipes, server, reaped>>

\* Main queries alone, the workers while Main waits for them; the last id is
\* left to shutdown.
Query(c) ==
    /\ step = "serve" /\ Len(askedBy) < MaxId - 1
    /\ IF c = Main THEN AllIdle ELSE MainIdle
    /\ StartRequest(c, "implementation")
    /\ UNCHANGED step

DidOpen ==
    /\ step = "serve" /\ AllIdle
    /\ StartNotify(Main, "didOpen")
    /\ UNCHANGED step

\* close() runs when the session is closed and when initialize has failed.
OpenFailed ==
    \/ step = "initialize"  /\ outcome[Main].kind # "result"
    \/ step = "initialized" /\ outcome[Main].kind # "sent"

Shutdown ==
    /\ AllIdle
    /\ step = "serve" \/ OpenFailed
    /\ step' = "shutdown"
    /\ StartRequest(Main, "shutdown")

\* Fault: close returns early when shutdown is not answered.
Exit_OnlyAfterAnswer ==
    /\ step = "shutdown" /\ MainIdle
    /\ IF outcome[Main].kind = "result"
       THEN step' = "exit" /\ StartNotify(Main, "exit")
       ELSE step' = "closed" /\ UNCHANGED <<pc, outcome, calls, boxes, done, writeMu, pipes, server, reaped>>

Exit ==
    /\ step = "shutdown" /\ MainIdle
    /\ step' = "exit"
    /\ StartNotify(Main, "exit")

CloseStdin ==
    /\ step = "exit" /\ MainIdle
    /\ step' = "closed" /\ stdinClosed' = TRUE
    /\ UNCHANGED <<pc, outcome, calls, boxes, done, writeMu, stdin, stdout, server, reaped>>

---------------------------------------------------------------------------
(* gopls, external.  Reading does not depend on its output being drained.  *)

ClientSide == <<script, pc, calls, boxes, done, writeMu, reaped>>

Dies ==
    /\ srv' = "gone" /\ stdin' = <<>> /\ backlog' = {}

ServerReads ==
    /\ srv = "up" /\ Len(stdin) >= 2
    /\ LET m == stdin[2].msg
       IN  IF m.method = "exit"
           THEN Dies
           ELSE /\ stdin' = SubSeq(stdin, 3, Len(stdin))
                /\ backlog' = IF m.id = 0 THEN backlog ELSE backlog \cup {m}
                /\ UNCHANGED srv
    /\ UNCHANGED <<ClientSide, stdinClosed, stdout, speech, garbled>>

Emits(message) ==
    /\ srv = "up" /\ Len(stdout) < OutCap
    /\ stdout' = Append(stdout, message)
    /\ UNCHANGED <<ClientSide, stdin, stdinClosed, srv>>

ServerAnswers(m) ==
    /\ m \in backlog
    /\ \E kind \in {"result", "error"} :
          /\ kind = "error" => m.method \in Refusals
          /\ Emits([kind |-> kind, id |-> m.id, about |-> m.about])
    /\ backlog' = backlog \ {m}
    /\ UNCHANGED <<speech, garbled>>

ServerSpeaks ==
    /\ speech > 0
    /\ \E kind \in {"ask", "note"} : Emits([kind |-> kind, id |-> 0, about |-> NoOne])
    /\ speech' = speech - 1
    /\ UNCHANGED <<backlog, garbled>>

ServerGarbles ==
    /\ MayGarble /\ ~garbled
    /\ Emits([kind |-> "garbage", id |-> 0, about |-> NoOne])
    /\ garbled' = TRUE
    /\ UNCHANGED <<backlog, speech>>

ServerCrashes ==
    /\ srv = "up"
    /\ Dies
    /\ UNCHANGED <<ClientSide, stdinClosed, stdout, speech, garbled>>

---------------------------------------------------------------------------
Terminated == step = "closed" /\ reaped /\ pc[Reader] = "stopped"
Terminating == Terminated /\ UNCHANGED vars

CallerStep(c) ==
    \/ Query(c) \/ Receive(c) \/ Timeout(c) \/ SawDone(c) \/ CleanUp(c)
WriterStep(w) == Lock(w) \/ WriteHeader(w) \/ WriteBody(w) \/ WriteFails(w)
ReaderStep ==
    \/ ReadResponse \/ Deliver \/ ReadAsk \/ ReadNote
    \/ ReadFails \/ FailOne \/ ReaderStops
MainStep ==
    \/ Initialize \/ Initialized \/ Serve \/ DidOpen
    \/ Shutdown \/ Exit \/ CloseStdin
ServerStep ==
    \/ ServerReads \/ (\E m \in backlog : ServerAnswers(m)) \/ ServerSpeaks
    \/ ServerGarbles \/ ServerCrashes

Next ==
    \/ \E c \in Callers : CallerStep(c)
    \/ \E w \in Writers : WriterStep(w)
    \/ ReaderStep \/ Reap \/ MainStep \/ ServerStep \/ Terminating

Spec == Init /\ [][Next]_vars

\* The Go scheduler runs every goroutine that can run, its mutex admits a
\* goroutine that has waited long, and a deadline expires.  Nobody promises
\* that another query, or the closing of the session, ever comes.
ClientFairness ==
    /\ \A w \in Writers : SF_vars(Lock(w))
    /\ \A c \in Callers : WF_vars(\/ WriteHeader(c) \/ WriteBody(c) \/ WriteFails(c)
                                  \/ Receive(c) \/ Timeout(c) \/ SawDone(c) \/ CleanUp(c))
    /\ WF_vars(ReaderStep \/ WriteHeader(Reader) \/ WriteBody(Reader) \/ WriteFails(Reader))
    /\ WF_vars(Reap)
    /\ WF_vars(Initialize \/ Initialized \/ Serve \/ (OpenFailed /\ Shutdown) \/ Exit \/ CloseStdin)

\* External: gopls keeps reading, and keeps answering what it has read.
ServerFairness ==
    /\ WF_vars(ServerReads)
    /\ WF_vars(\E m \in backlog : ServerAnswers(m))

FairSpec == Spec /\ ClientFairness /\ ServerFairness
=============================================================================
