------------------------------ MODULE DocSync ------------------------------
(***************************************************************************)
(* Which text of a file the client and gopls go by.  A batch first brings  *)
(* the files of its positions up to date (openFiles of rpc.go): a file new *)
(* to the cache is read and sent as didOpen, one whose text on disk has    *)
(* changed is sent again as didChange.  Then its queries convert columns,  *)
(* and for a target file the cache lacks they read it from disk and keep   *)
(* it, without opening it (fileContents of position.go), several workers   *)
(* at a time and with nothing locked while they read.                      *)
(*                                                                         *)
(* A text is a value compared for equality.  Positions and answers are not *)
(* modelled; frames, callers and failures of the wire are LspClient's.     *)
(***************************************************************************)
EXTENDS Integers, Sequences

CONSTANTS
    Files, Texts,
    Missing,        \* what disk holds of a file that cannot be read
    Uncached,       \* what the cache holds of a file it lacks
    Workers,        \* goroutines that run the queries of a batch
    MaxBatches,     \* bound: batches of the session
    MaxEdits        \* bound: edits of a file between batches

ASSUME DocSyncAssumption ==
    /\ Missing \notin Texts /\ Uncached \notin Texts
    /\ MaxBatches \in Nat /\ MaxEdits \in Nat

VARIABLES
    disk,       \* the project directory
    edits,      \* how often each file has been edited
    files,      \* lspServer.files
    versions,   \* lspServer.versions
    wire,       \* notifications sent and not yet handled
    docs,       \* the documents gopls holds open
    up,         \* the connection works
    stage,      \* "idle", "sync" or "query": Session.mu is held from sync to idle
    batches,    \* batches begun
    asked,      \* the files of the batch's positions
    todo,       \* those openFiles has yet to visit
    worker      \* what each worker is doing in fileContents

outside == <<disk, edits>>
client  == <<files, versions>>
gopls   == <<wire, docs, up>>
batch   == <<stage, batches, asked, todo>>
vars    == <<disk, edits, files, versions, wire, docs, up, stage, batches, asked, todo, worker>>

Closed  == [version |-> 0, text |-> Missing]
Resting == [at |-> "rest"]
Note    == [method : {"didOpen", "didChange"}, file : Files, version : 1..MaxBatches, text : Texts]
Doing   == {Resting} \cup [at : {"read"}, file : Files]
                     \cup [at : {"store"}, file : Files, text : Texts]

Init ==
    /\ disk \in [Files -> Texts] /\ edits = [f \in Files |-> 0]
    /\ files = [f \in Files |-> Uncached] /\ versions = [f \in Files |-> 0]
    /\ wire = <<>> /\ docs = [f \in Files |-> Closed] /\ up = TRUE
    /\ stage = "idle" /\ batches = 0 /\ asked = {} /\ todo = {}
    /\ worker = [w \in Workers |-> Resting]

---------------------------------------------------------------------------
(* openFiles: the files of the batch, each once, before any query.         *)

BeginBatch(fs) ==
    /\ stage = "idle" /\ batches < MaxBatches
    /\ stage' = "sync" /\ batches' = batches + 1
    /\ asked' = fs /\ todo' = fs
    /\ UNCHANGED <<outside, client, gopls, worker>>

\* Fault: the files not yet visited are left over for the next batch.
BatchFails_KeepsTodo == stage' = "idle" /\ asked' = {} /\ UNCHANGED <<batches, todo>>

BatchFails == stage' = "idle" /\ todo' = {} /\ asked' = {} /\ UNCHANGED batches

Visited(f) == todo' = todo \ {f} /\ UNCHANGED <<stage, batches, asked>>

Visiting(f) == stage = "sync" /\ f \in todo

\* A file that cannot be read fails the whole batch; the ones before it stay open.
SyncUnreadable(f) ==
    /\ Visiting(f) /\ disk[f] = Missing
    /\ BatchFails
    /\ UNCHANGED <<outside, client, gopls, worker>>

\* Fault: a cached file is taken for current.
UpToDate_AnyCached(f) == files[f] # Uncached

\* The cache has the text already, whether it was opened or only borrowed.
UpToDate(f) == files[f] = disk[f]

SyncCurrent(f) ==
    /\ Visiting(f) /\ disk[f] # Missing /\ UpToDate(f)
    /\ Visited(f)
    /\ UNCHANGED <<outside, client, gopls, worker>>

NextVersion(f) == versions[f] + 1

\* The cache changes before the notification is written, and stays changed
\* when the write fails.
Send(f, method) ==
    /\ files' = [files EXCEPT ![f] = disk[f]]
    /\ versions' = [versions EXCEPT ![f] = NextVersion(f)]
    /\ IF up
       THEN /\ wire' = Append(wire, [method |-> method, file |-> f,
                                     version |-> NextVersion(f), text |-> disk[f]])
            /\ Visited(f) /\ UNCHANGED <<docs, up>>
       ELSE BatchFails /\ UNCHANGED gopls

SyncSends(f) ==
    /\ Visiting(f) /\ disk[f] # Missing /\ ~UpToDate(f)
    /\ Send(f, IF files[f] = Uncached THEN "didOpen" ELSE "didChange")
    /\ UNCHANGED <<outside, worker>>

Synced ==
    /\ stage = "sync" /\ todo = {}
    /\ stage' = "query"
    /\ UNCHANGED <<outside, client, gopls, batches, asked, todo, worker>>

---------------------------------------------------------------------------
(* fileContents, called for the queried file and for every target.  A hit  *)
(* changes nothing.                                                        *)

Misses(w, f) ==
    /\ stage = "query" /\ worker[w] = Resting /\ files[f] = Uncached
    /\ worker' = [worker EXCEPT ![w] = [at |-> "read", file |-> f]]
    /\ UNCHANGED <<outside, client, gopls, batch>>

Reads(w) ==
    /\ worker[w].at = "read"
    /\ LET f == worker[w].file IN
       worker' = [worker EXCEPT ![w] = IF disk[f] = Missing THEN Resting
                                       ELSE [at |-> "store", file |-> f, text |-> disk[f]]]
    /\ UNCHANGED <<outside, client, gopls, batch>>

\* No second look: another worker may have stored it in between.
Stores(w) ==
    /\ worker[w].at = "store"
    /\ files' = [files EXCEPT ![worker[w].file] = worker[w].text]
    /\ worker' = [worker EXCEPT ![w] = Resting]
    /\ UNCHANGED <<outside, versions, gopls, batch>>

\* Fault: the batch returns while a worker is still in fileContents.
Joined_Never == TRUE

Joined == \A w \in Workers : worker[w] = Resting

EndBatch ==
    /\ stage = "query" /\ Joined
    /\ stage' = "idle" /\ asked' = {}
    /\ UNCHANGED <<outside, client, gopls, batches, todo, worker>>

---------------------------------------------------------------------------
(* External: gopls and the project directory.                              *)

\* gopls opens a document that is not open and refuses to change one that is not.
ServerHandles ==
    /\ wire # <<>>
    /\ LET n == Head(wire) IN
       docs' = IF n.method = "didOpen" \/ docs[n.file] # Closed
               THEN [docs EXCEPT ![n.file] = [version |-> n.version, text |-> n.text]]
               ELSE docs
    /\ wire' = Tail(wire)
    /\ UNCHANGED <<outside, client, up, batch, worker>>

ConnectionLost ==
    /\ up
    /\ up' = FALSE /\ wire' = <<>>
    /\ UNCHANGED <<outside, client, docs, batch, worker>>

\* The engine touches the checkout only between requests.
Edit(f, text) ==
    /\ stage = "idle" /\ edits[f] < MaxEdits /\ disk[f] # text
    /\ disk' = [disk EXCEPT ![f] = text] /\ edits' = [edits EXCEPT ![f] = @ + 1]
    /\ UNCHANGED <<client, gopls, batch, worker>>

Next ==
    \/ \E fs \in SUBSET Files \ {{}} : BeginBatch(fs)
    \/ \E f \in Files : SyncUnreadable(f) \/ SyncCurrent(f) \/ SyncSends(f)
    \/ Synced
    \/ \E w \in Workers, f \in Files : Misses(w, f)
    \/ \E w \in Workers : Reads(w) \/ Stores(w)
    \/ EndBatch
    \/ ServerHandles \/ ConnectionLost
    \/ \E f \in Files, t \in Texts \cup {Missing} : Edit(f, t)

Spec == Init /\ [][Next]_vars

---------------------------------------------------------------------------
TypeOK ==
    /\ disk \in [Files -> Texts \cup {Missing}] /\ edits \in [Files -> 0..MaxEdits]
    /\ files \in [Files -> Texts \cup {Uncached}]
    /\ versions \in [Files -> 0..MaxBatches]
    /\ wire \in Seq(Note)
    /\ docs \in [Files -> {Closed} \cup [version : 1..MaxBatches, text : Texts]]
    /\ up \in BOOLEAN
    /\ stage \in {"idle", "sync", "query"} /\ batches \in 0..MaxBatches
    /\ asked \subseteq Files /\ todo \subseteq asked
    /\ worker \in [Workers -> Doing]

\* What has been sent of f and not yet handled, by its place on the wire.
Sent(f)        == {i \in 1..Len(wire) : wire[i].file = f}
FirstOf(i, is) == \A j \in is : i <= j
LastOf(i, is)  == \A j \in is : j <= i

\* f is open, or will be once gopls has handled what was sent.
Opened(f) ==
    \/ docs[f] # Closed
    \/ \E i \in Sent(f) : FirstOf(i, Sent(f)) /\ wire[i].method = "didOpen"

\* The text and version gopls has of an opened f in the end are the client's.
LatestAgrees(f) ==
    /\ Sent(f) = {} => docs[f] = [version |-> versions[f], text |-> files[f]]
    /\ \A i \in Sent(f) : LastOf(i, Sent(f)) =>
           wire[i].version = versions[f] /\ wire[i].text = files[f]

\* For a document gopls holds open, client and gopls agree: columns are
\* converted on the text gopls computes positions on, whatever the workers of
\* this or of an earlier batch read and store meanwhile.
OpenedAgree == up => \A f \in Files : Opened(f) => LatestAgrees(f)

\* Queries are asked of the text on disk now: no edit made between two batches
\* is lost on the files a batch is about.
AskedAreCurrent == stage = "query" => \A f \in asked : files[f] = disk[f]
=============================================================================
