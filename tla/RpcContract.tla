--------------------------- MODULE RpcContract ---------------------------
(***************************************************************************)
(* What request() and notify() promise their callers, whatever happens in  *)
(* between: a call ends exactly once, a request with the answer to its own *)
(* question; it may end otherwise only after the connection has gone down  *)
(* or, for the request that has a deadline, at any time.                   *)
(***************************************************************************)
CONSTANTS Callers, Nobody

VARIABLES
    call,     \* what each caller is in: "none", "request", "deadline" or "notice"
    answer,   \* how its last call ended
    down      \* the connection has failed

contract == <<call, answer, down>>

Ended == [kind : {"none", "result", "error", "sent", "failed"}, about : Callers \cup {Nobody}]
NotYet == [kind |-> "none", about |-> Nobody]

CInit ==
    /\ call = [c \in Callers |-> "none"]
    /\ answer = [c \in Callers |-> NotYet]
    /\ down = FALSE

Begin(c, what) ==
    /\ call[c] = "none"
    /\ call' = [call EXCEPT ![c] = what]
    /\ answer' = [answer EXCEPT ![c] = NotYet]
    /\ UNCHANGED down

Finish(c, kind, about) ==
    /\ call' = [call EXCEPT ![c] = "none"]
    /\ answer' = [answer EXCEPT ![c] = [kind |-> kind, about |-> about]]
    /\ UNCHANGED down

Answered(c) ==
    /\ call[c] \in {"request", "deadline"}
    /\ \E kind \in {"result", "error"} : Finish(c, kind, c)

Sent(c) == call[c] = "notice" /\ Finish(c, "sent", Nobody)

Failed(c) ==
    /\ call[c] # "none"
    /\ down \/ call[c] = "deadline"
    /\ Finish(c, "failed", Nobody)

GoesDown == ~down /\ down' = TRUE /\ UNCHANGED <<call, answer>>

CNext ==
    \/ \E c \in Callers :
          \/ \E what \in {"request", "deadline", "notice"} : Begin(c, what)
          \/ Answered(c) \/ Sent(c) \/ Failed(c)
    \/ GoesDown

CSpec == CInit /\ [][CNext]_contract

=============================================================================
