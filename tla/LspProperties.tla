-------------------------- MODULE LspProperties --------------------------
(***************************************************************************)
(* What the client of LspClient must keep, and the contract it implements. *)
(***************************************************************************)
EXTENDS LspClient

TypeOK ==
    /\ step \in {"start", "initialize", "initialized", "serve", "shutdown", "exit", "closed"}
    /\ pc \in [Writers -> {"idle", "lock", "header", "body", "wait", "cleanup",
                           "read", "deliver", "failing", "stopped"}]
    /\ cur \in [Writers -> Message]
    /\ outcome \in [Callers -> Outcome]
    /\ askedBy \in Seq(Callers) /\ Len(askedBy) <= MaxId
    /\ pending \subseteq 1..Len(askedBy)
    /\ mail \subseteq Letter /\ inHand \subseteq Letter /\ failing \subseteq Ids
    /\ done \in BOOLEAN /\ reaped \in BOOLEAN
    /\ writeMu \in Writers \cup {NoOne}
    /\ stdin \in Seq(Chunk) /\ stdinClosed \in BOOLEAN
    /\ stdout \in Seq(Incoming)
    /\ srv \in {"up", "gone"}
    /\ backlog \subseteq Message
    /\ speech \in 0..MaxSpeech /\ garbled \in BOOLEAN

---------------------------------------------------------------------------
\* write() puts header and body on the pipe with two calls.  However callers
\* and the reader's replies interleave, the server sees whole frames: header
\* and body alternate and belong to one message.
FramesIntact ==
    /\ \A i \in 1..Len(stdin) : stdin[i].part = (IF i % 2 = 1 THEN "header" ELSE "body")
    /\ \A i \in 1..(Len(stdin) \div 2) : stdin[2 * i].msg = stdin[2 * i - 1].msg

\* The places where the answer to a request can be: registered, taken by the
\* reader, taken by failPending, or in the channel.
Registered(id) == id \in pending
Carried(id)    == \E l \in inHand : l.to = id
Doomed(id)     == id \in failing
Boxed(id)      == \E l \in mail : l.to = id

\* Each request is answered at most once: its id is in at most one of those
\* places, and its channel never holds two letters.  The reader, which sends
\* with no select, therefore never blocks on a channel nobody reads, even for
\* callers that left on a deadline or on the death of gopls.
AnsweredOnce ==
    /\ \A id \in Ids :
          /\ Registered(id) => ~Carried(id) /\ ~Doomed(id) /\ ~Boxed(id)
          /\ Carried(id) => ~Doomed(id) /\ ~Boxed(id)
          /\ Doomed(id) => ~Boxed(id)
    /\ \A k, l \in mail : k.to = l.to => k = l

\* A goroutine waiting in the select of request() has something that will wake
\* it: a letter in its channel or on its way, or a registration that a reader
\* still running can find.  The one value of done is not enough: another
\* waiter may take it.
Waker(id) ==
    \/ Boxed(id) \/ Carried(id) \/ Doomed(id)
    \/ Registered(id) /\ pc[Reader] \notin {"failing", "stopped"}
NobodyForgotten ==
    \A c \in Callers : pc[c] = "wait" => garbled \/ Waker(cur[c].id)

\* The letter a waiting caller will receive answers the question it asked,
\* whatever order the server answers in and whoever else has given up.
OwnAnswer ==
    \A c \in Callers : pc[c] = "wait" =>
        \A l \in mail \cup inHand :
            l.to = cur[c].id => l.kind = "failed" \/ l.about = c

\* The pending map holds no id of a call that has returned, so it cannot grow
\* over the life of a session.
NoStaleRegistration ==
    \A id \in pending : \E c \in Callers :
        cur[c].id = id /\ pc[c] \in {"lock", "header", "body", "wait", "cleanup"}

---------------------------------------------------------------------------
\* Every request and notification comes back to its caller, also when gopls
\* dies with several of them waiting for the one value of done.
EveryCallReturns ==
    \A c \in Callers : pc[c] # "idle" ~> pc[c] = "idle"

\* Once close() has begun it comes to its end, whatever gopls does, and leaves
\* nothing behind: exit is always written, a gopls that reads it is reaped, and
\* the reader goroutine ends.
CloseStopsGopls == step = "shutdown" ~> step = "closed" /\ reaped /\ pc[Reader] = "stopped"

\* After its process has gone, the reader goroutine ends: none is leaked.
ReaderEnds == srv = "gone" ~> pc[Reader] = "stopped"

---------------------------------------------------------------------------
\* The contract, seen from the callers: a call is in progress until its
\* goroutine is idle again, and only then is its outcome visible.
CallOf(c) ==
    IF pc[c] = "idle" THEN "none"
    ELSE IF cur[c].id = 0 THEN "notice"
    ELSE IF cur[c].method = "shutdown" THEN "deadline" ELSE "request"
Down == srv = "gone" \/ garbled
Bad == {"failed", "exited", "timeout", "unsent"}
AnswerOf(c) ==
    IF pc[c] # "idle" THEN End("none")
    ELSE IF outcome[c].kind \in Bad THEN End("failed") ELSE outcome[c]

Contract == INSTANCE RpcContract WITH
    Nobody <- NoOne,
    call <- [c \in Callers |-> CallOf(c)],
    answer <- [c \in Callers |-> AnswerOf(c)],
    down <- Down

\* Every step of the client is a step of the contract or none of its business.
ImplementsContract == Contract!CSpec
=============================================================================
