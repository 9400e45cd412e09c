------------------------- MODULE DocSyncProofs -------------------------
(***************************************************************************)
(* What client and gopls know of the files for any number of files, texts, *)
(* workers and batches, checked by TLAPS.                                  *)
(***************************************************************************)
EXTENDS DocSync, TLAPS

USE DocSyncAssumption DEF outside, client, gopls, batch

---------------------------------------------------------------------------
(* The inductive invariant.                                                *)

\* Outside the queries no worker is at work; during them each is about to store
\* the text on disk, over no text or over that very text.
Fetching ==
    /\ stage # "query" => Joined
    /\ \A w \in Workers : worker[w] # Resting =>
           /\ files[worker[w].file] \in {Uncached, disk[worker[w].file]}
           /\ worker[w].at = "store" => worker[w].text = disk[worker[w].file]

\* Files visited are current; none is left when the queries begin.
Visits ==
    /\ stage # "sync" => todo = {}
    /\ stage # "idle" => \A f \in asked \ todo : files[f] = disk[f]

\* A file is sent once per batch at most.
OncePerBatch ==
    \A f \in Files : versions[f] <= batches /\ (f \in todo => versions[f] < batches)

\* What gopls has been told of is cached, also when it refuses to change a document
\* that is not open.
Told(f)    == Sent(f) # {} \/ docs[f] # Closed
ToldCached == \A f \in Files : Told(f) => files[f] # Uncached
WireAgrees == up => \A f \in Files : Told(f) => LatestAgrees(f)

DocInv == Fetching /\ Visits /\ OncePerBatch /\ ToldCached /\ WireAgrees

---------------------------------------------------------------------------
(* The types.                                                              *)

\* A notification appended to the wire is its last element, and the others stay.
LEMMA Appended ==
    ASSUME NEW s \in Seq(Note), NEW n \in Note
    PROVE  /\ Append(s, n) \in Seq(Note) /\ Len(Append(s, n)) = Len(s) + 1
           /\ Append(s, n)[Len(s) + 1] = n
           /\ \A i \in 1..Len(s) : Append(s, n)[i] = s[i]
OBVIOUS

\* Handling one moves the others forward.
LEMMA Handled ==
    ASSUME NEW s \in Seq(Note), s # <<>>
    PROVE  /\ Tail(s) \in Seq(Note) /\ Len(Tail(s)) = Len(s) - 1 /\ Len(s) \in Nat \ {0}
           /\ Head(s) = s[1] /\ s[1] \in Note
           /\ \A i \in 1..(Len(s) - 1) : Tail(s)[i] = s[i + 1]
OBVIOUS

\* What a worker of a batch may be doing.
LEMMA Deeds ==
    /\ Resting \in Doing
    /\ \A f \in Files : /\ [at |-> "read", file |-> f] \in Doing
                        /\ \A t \in Texts : [at |-> "store", file |-> f, text |-> t] \in Doing
    /\ \A d \in Doing : /\ d.at = "read" => d.file \in Files
                        /\ d.at = "store" => d.file \in Files /\ d.text \in Texts
                        /\ d # Resting => d.at \in {"read", "store"}
BY DEF Doing, Resting

\* Initially nothing is cached, sent or open.
LEMMA InitTypes == Init => TypeOK /\ DocInv
<1> SUFFICES ASSUME Init PROVE TypeOK /\ DocInv
    OBVIOUS
<1>1. up \in BOOLEAN /\ worker \in [Workers -> Doing]
    BY Deeds DEF Init
<1>2. TypeOK
    BY <1>1 DEF Init, TypeOK
<1>3. DocInv
    BY DEF Init, DocInv, Fetching, Joined, Visits, OncePerBatch, ToldCached, WireAgrees, Told, Sent
<1>4. QED
    BY <1>2, <1>3

\* A note sent of f is one gopls can be sent.
LEMMA NoteTypes ==
    ASSUME TypeOK, DocInv, NEW f \in Files, disk[f] # Missing, Visiting(f),
           NEW method \in {"didOpen", "didChange"}
    PROVE  /\ disk[f] \in Texts /\ NextVersion(f) \in 1..MaxBatches
           /\ [method |-> method, file |-> f, version |-> NextVersion(f), text |-> disk[f]] \in Note
<1>1. NextVersion(f) \in 1..MaxBatches
    BY DEF NextVersion, Visiting, DocInv, OncePerBatch, TypeOK
<1>2. disk[f] \in Texts
    BY DEF TypeOK
<1>3. QED
    BY <1>1, <1>2 DEF Note

\* Every step keeps the types; that no version exceeds the batches is what
\* OncePerBatch is for.
LEMMA TypeStep == TypeOK /\ DocInv /\ [Next]_vars => TypeOK'
<1> SUFFICES ASSUME TypeOK, DocInv, [Next]_vars PROVE TypeOK'
    OBVIOUS
<1>1. ASSUME NEW fs \in SUBSET Files, BeginBatch(fs) PROVE TypeOK'
    BY <1>1 DEF BeginBatch, TypeOK
<1>2. CASE \E f \in Files : SyncUnreadable(f) \/ SyncCurrent(f)
    BY <1>2 DEF SyncUnreadable, SyncCurrent, BatchFails, Visited, TypeOK
<1>3. ASSUME NEW f \in Files, SyncSends(f) PROVE TypeOK'
    <2>1. PICK method \in {"didOpen", "didChange"} : Send(f, method)
        BY <1>3 DEF SyncSends
    <2>2. disk[f] # Missing /\ Visiting(f) /\ UNCHANGED <<disk, edits, worker>>
        BY <1>3 DEF SyncSends
    <2>3. NextVersion(f) \in 1..MaxBatches /\ disk[f] \in Texts
        BY <2>2, NoteTypes
    <2>4. versions' \in [Files -> 0..MaxBatches] /\ files' \in [Files -> Texts \cup {Uncached}]
        BY <2>1, <2>2, <2>3 DEF Send, TypeOK
    <2>5. wire' \in Seq(Note) /\ UNCHANGED docs /\ up' \in BOOLEAN
        <3>1. CASE up
            <4>1. [method |-> method, file |-> f, version |-> NextVersion(f), text |-> disk[f]] \in Note
                BY <2>2, NoteTypes
            <4>2. wire' = Append(wire, [method |-> method, file |-> f,
                                        version |-> NextVersion(f), text |-> disk[f]])
                BY <2>1, <3>1 DEF Send
            <4>3. wire' \in Seq(Note)
                BY <4>1, <4>2, Appended DEF TypeOK
            <4>4. QED
                BY <2>1, <3>1, <4>3 DEF Send, TypeOK
        <3>2. CASE ~up
            BY <2>1, <3>2 DEF Send, TypeOK
        <3>3. QED
            BY <3>1, <3>2
    <2>6. /\ stage' \in {"idle", "sync", "query"} /\ batches' = batches
          /\ asked' \subseteq Files /\ todo' \subseteq asked'
        BY <2>1 DEF Send, Visited, BatchFails, TypeOK
    <2>7. QED
        BY <2>2, <2>4, <2>5, <2>6 DEF TypeOK
<1>4. CASE Synced \/ EndBatch
    BY <1>4 DEF Synced, EndBatch, DocInv, Visits, TypeOK
<1>5. CASE \E w \in Workers, f \in Files : Misses(w, f)
    BY <1>5, Deeds DEF Misses, TypeOK
<1>6. ASSUME NEW w \in Workers, Reads(w) PROVE TypeOK'
    <2>1. worker[w] \in Doing /\ worker[w].file \in Files
        BY <1>6, Deeds DEF Reads, TypeOK
    <2>2. disk[worker[w].file] # Missing => disk[worker[w].file] \in Texts
        BY <2>1 DEF TypeOK
    <2>3. worker' \in [Workers -> Doing]
        BY <1>6, <2>1, <2>2, Deeds DEF Reads, TypeOK
    <2>4. QED
        BY <1>6, <2>3 DEF Reads, TypeOK
<1>7. ASSUME NEW w \in Workers, Stores(w) PROVE TypeOK'
    <2>1. worker[w].file \in Files /\ worker[w].text \in Texts
        BY <1>7, Deeds DEF Stores, TypeOK
    <2>2. worker' \in [Workers -> Doing] /\ files' \in [Files -> Texts \cup {Uncached}]
        BY <1>7, <2>1, Deeds DEF Stores, TypeOK
    <2>3. QED
        BY <1>7, <2>2 DEF Stores, TypeOK
<1>8. CASE ServerHandles
    <2>1. wire' = Tail(wire) /\ wire' \in Seq(Note) /\ wire[1] = Head(wire) /\ wire[1] \in Note
        BY <1>8, Handled DEF ServerHandles, TypeOK
    <2>2. /\ wire[1].file \in Files
          /\ [version |-> wire[1].version, text |-> wire[1].text] \in [version : 1..MaxBatches, text : Texts]
        BY <2>1 DEF Note
    <2>3. docs' = docs \/ docs' = [docs EXCEPT ![wire[1].file] =
                                      [version |-> wire[1].version, text |-> wire[1].text]]
        BY <1>8, <2>1 DEF ServerHandles
    <2>4. docs' \in [Files -> {Closed} \cup [version : 1..MaxBatches, text : Texts]]
        BY <2>2, <2>3 DEF TypeOK
    <2>5. QED
        BY <1>8, <2>1, <2>4 DEF ServerHandles, TypeOK
<1>9. CASE ConnectionLost
    <2>1. wire' = <<>> /\ up' = FALSE /\ UNCHANGED <<disk, edits, files, versions, docs,
                                                     stage, batches, asked, todo, worker>>
        BY <1>9 DEF ConnectionLost
    <2>2. <<>> \in Seq(Note)
        OBVIOUS
    <2>3. wire' \in Seq(Note)
        BY <2>1, <2>2
    <2>4. up' \in BOOLEAN
        BY <2>1
    <2>5. QED
        BY <2>1, <2>3, <2>4 DEF TypeOK
<1>10. ASSUME NEW f \in Files, NEW t \in Texts \cup {Missing}, Edit(f, t) PROVE TypeOK'
    <2>1. edits[f] + 1 \in 0..MaxEdits
        BY <1>10 DEF Edit, TypeOK
    <2>2. QED
        BY <1>10, <2>1 DEF Edit, TypeOK
<1>11. CASE UNCHANGED vars
    BY <1>11 DEF vars, TypeOK
<1>12. QED
    BY <1>1, <1>2, <1>3, <1>4, <1>5, <1>6, <1>7, <1>8, <1>9, <1>10, <1>11 DEF Next

---------------------------------------------------------------------------
(* The cache and the disk.                                                 *)

\* A worker at work stands for a file, and if it is about to store, for a text.
LEMMA AtWork ==
    ASSUME TypeOK, NEW w \in Workers, worker[w] # Resting
    PROVE  worker[w].file \in Files /\ (worker[w].at = "store" => worker[w].text \in Texts)
BY Deeds DEF TypeOK

\* While the queries run nobody changes the disk, and what the workers do to the
\* cache is to put there what the disk has.
LEMMA StoresWhatIsThere ==
    ASSUME TypeOK, Fetching, NEW w \in Workers, Stores(w)
    PROVE  /\ stage = "query" /\ worker[w].file \in Files
           /\ files[worker[w].file] \in {Uncached, disk[worker[w].file]}
           /\ disk[worker[w].file] \in Texts
           /\ files' = [files EXCEPT ![worker[w].file] = disk[worker[w].file]]
           /\ UNCHANGED <<disk, edits, versions, wire, docs, up, stage, batches, asked, todo>>
<1>1. worker[w] # Resting
    BY DEF Stores, Resting
<1>2. QED
    BY <1>1, AtWork DEF Fetching, Joined, Stores

\* Every step keeps what the workers are about to store.
LEMMA FetchStep == TypeOK /\ DocInv /\ [Next]_vars => Fetching'
<1> SUFFICES ASSUME TypeOK, DocInv, [Next]_vars PROVE Fetching'
    OBVIOUS
<1> USE DEF DocInv, Fetching, Joined
<1>1. CASE \E fs \in SUBSET Files : BeginBatch(fs)
    BY <1>1 DEF BeginBatch
<1>2. CASE \E f \in Files : SyncUnreadable(f) \/ SyncCurrent(f) \/ SyncSends(f)
    <2>1. Joined /\ UNCHANGED worker /\ stage' # "query"
        BY <1>2 DEF SyncUnreadable, SyncCurrent, SyncSends, Visiting, Send, BatchFails, Visited
    <2>2. QED
        BY <2>1
<1>3. CASE Synced \/ EndBatch \/ ServerHandles \/ ConnectionLost \/ UNCHANGED vars
    BY <1>3 DEF Synced, EndBatch, ServerHandles, ConnectionLost, vars
<1>4. ASSUME NEW w \in Workers, NEW f \in Files, Misses(w, f) PROVE Fetching'
    BY <1>4 DEF Misses, TypeOK
<1>5. ASSUME NEW w \in Workers, Reads(w) PROVE Fetching'
    <2>1. worker[w] # Resting /\ stage = "query" /\ worker[w].file \in Files
        BY <1>5, AtWork DEF Reads, Resting
    <2>2. QED
        BY <1>5, <2>1 DEF Reads, TypeOK
<1>6. ASSUME NEW w \in Workers, Stores(w) PROVE Fetching'
    <2>1. \A v \in Workers : worker[v] # Resting => worker[v].file \in Files
        BY AtWork
    <2>2. stage = "query" /\ UNCHANGED <<stage, disk>>
        BY <1>6, StoresWhatIsThere
    <2>3. \A f \in Files : files'[f] = files[f] \/ files'[f] = disk[f]
        <3>1. PICK g \in Files : files' = [files EXCEPT ![g] = disk[g]]
            BY <1>6, StoresWhatIsThere
        <3>2. QED
            BY <3>1 DEF TypeOK
    <2>4. \A v \in Workers : worker'[v] # Resting => worker'[v] = worker[v]
        BY <1>6 DEF Stores, TypeOK
    <2>5. ASSUME NEW v \in Workers, worker'[v] # Resting
          PROVE  /\ files'[worker'[v].file] \in {Uncached, disk'[worker'[v].file]}
                 /\ worker'[v].at = "store" => worker'[v].text = disk'[worker'[v].file]
        <3>1. worker'[v] = worker[v] /\ worker[v] # Resting /\ worker[v].file \in Files
            BY <2>1, <2>4, <2>5
        <3>2. files[worker[v].file] \in {Uncached, disk[worker[v].file]}
            BY <3>1
        <3>3. QED
            BY <2>2, <2>3, <3>1, <3>2
    <2>6. QED
        BY <2>2, <2>5
<1>7. ASSUME NEW f \in Files, NEW t \in Texts \cup {Missing}, Edit(f, t) PROVE Fetching'
    BY <1>7 DEF Edit
<1>8. QED
    BY <1>1, <1>2, <1>3, <1>4, <1>5, <1>6, <1>7 DEF Next

\* Every step keeps the files visited current.
LEMMA VisitStep == TypeOK /\ DocInv /\ [Next]_vars => Visits'
<1> SUFFICES ASSUME TypeOK, DocInv, [Next]_vars PROVE Visits'
    OBVIOUS
<1> USE DEF DocInv, Visits
<1>1. CASE \E fs \in SUBSET Files : BeginBatch(fs)
    BY <1>1 DEF BeginBatch
<1>2. CASE \E f \in Files : SyncUnreadable(f) \/ SyncCurrent(f)
    BY <1>2 DEF SyncUnreadable, SyncCurrent, UpToDate, Visiting, BatchFails, Visited
<1>3. ASSUME NEW f \in Files, SyncSends(f) PROVE Visits'
    BY <1>3 DEF SyncSends, Visiting, Send, BatchFails, Visited, TypeOK
<1>4. CASE Synced \/ EndBatch \/ ServerHandles \/ ConnectionLost \/ UNCHANGED vars
    BY <1>4 DEF Synced, EndBatch, ServerHandles, ConnectionLost, vars
<1>5. CASE \E w \in Workers : (\E f \in Files : Misses(w, f)) \/ Reads(w)
    BY <1>5 DEF Misses, Reads
<1>6. ASSUME NEW w \in Workers, Stores(w) PROVE Visits'
    <2>1. stage = "query" /\ UNCHANGED <<disk, stage, asked, todo>>
        BY <1>6, StoresWhatIsThere
    <2>2. PICK g \in Files : files' = [files EXCEPT ![g] = disk[g]]
        BY <1>6, StoresWhatIsThere
    <2>3. \A f \in asked \ todo : files'[f] = files[f] \/ files'[f] = disk[f]
        BY <2>2 DEF TypeOK
    <2>4. QED
        BY <2>1, <2>3
<1>7. CASE \E f \in Files, t \in Texts \cup {Missing} : Edit(f, t)
    BY <1>7 DEF Edit
<1>8. QED
    BY <1>1, <1>2, <1>3, <1>4, <1>5, <1>6, <1>7 DEF Next

\* Every step keeps the versions within the batches.
LEMMA OnceStep == TypeOK /\ DocInv /\ [Next]_vars => OncePerBatch'
<1> SUFFICES ASSUME TypeOK, DocInv, [Next]_vars PROVE OncePerBatch'
    OBVIOUS
<1> USE DEF DocInv, OncePerBatch
<1>1. CASE \E fs \in SUBSET Files : BeginBatch(fs)
    BY <1>1 DEF BeginBatch, TypeOK
<1>2. CASE \E f \in Files : SyncUnreadable(f) \/ SyncCurrent(f)
    BY <1>2 DEF SyncUnreadable, SyncCurrent, BatchFails, Visited
<1>3. ASSUME NEW f \in Files, SyncSends(f) PROVE OncePerBatch'
    <2>1. /\ versions' = [versions EXCEPT ![f] = versions[f] + 1]
          /\ batches' = batches /\ todo' \subseteq todo \ {f} /\ versions[f] < batches
        BY <1>3 DEF SyncSends, Visiting, Send, NextVersion, BatchFails, Visited
    <2>2. QED
        BY <2>1 DEF TypeOK
<1>4. CASE Synced \/ EndBatch \/ ServerHandles \/ ConnectionLost \/ UNCHANGED vars
    BY <1>4 DEF Synced, EndBatch, ServerHandles, ConnectionLost, vars
<1>5. CASE \E w \in Workers : (\E f \in Files : Misses(w, f)) \/ Reads(w) \/ Stores(w)
    BY <1>5 DEF Misses, Reads, Stores
<1>6. CASE \E f \in Files, t \in Texts \cup {Missing} : Edit(f, t)
    BY <1>6 DEF Edit
<1>7. QED
    BY <1>1, <1>2, <1>3, <1>4, <1>5, <1>6 DEF Next

---------------------------------------------------------------------------
(* The wire and the documents.                                             *)

\* A step that leaves cache, wire and documents alone, or takes the connection
\* down with the wire, keeps what gopls has been told.
LEMMA ToldStays ==
    ASSUME ToldCached, WireAgrees, UNCHANGED <<files, versions, docs>>,
           UNCHANGED <<wire, up>> \/ (wire' = <<>> /\ up' = FALSE)
    PROVE  ToldCached' /\ WireAgrees'
<1>1. CASE UNCHANGED <<wire, up>>
    BY <1>1 DEF ToldCached, WireAgrees, Told, LatestAgrees, Sent, LastOf
<1>2. CASE wire' = <<>> /\ up' = FALSE
    BY <1>2 DEF ToldCached, WireAgrees, Told, Sent
<1>3. QED
    BY <1>1, <1>2

\* A notification sent of f is the last one of f, and of no other file.
LEMMA SentMoves ==
    ASSUME TypeOK, NEW n \in Note, wire' = Append(wire, n)
    PROVE  \A f \in Files : /\ f # n.file => Sent(f)' = Sent(f)
                            /\ f = n.file => Sent(f)' = Sent(f) \cup {Len(wire) + 1}
                            /\ \A i \in Sent(f) : wire'[i] = wire[i]
                            /\ wire'[Len(wire) + 1] = n /\ Sent(f) \subseteq 1..Len(wire)
<1>1. /\ Len(wire') = Len(wire) + 1 /\ Len(wire) \in Nat /\ wire'[Len(wire) + 1] = n
      /\ \A i \in 1..Len(wire) : wire'[i] = wire[i]
    BY Appended DEF TypeOK
<1>2. 1..(Len(wire) + 1) = (1..Len(wire)) \cup {Len(wire) + 1}
    BY <1>1
<1>3. QED
    BY <1>1, <1>2 DEF Sent

\* Sending brings gopls to the text and the version the client has.
LEMMA SendAgrees ==
    ASSUME TypeOK, DocInv, NEW f \in Files, SyncSends(f)
    PROVE  ToldCached' /\ WireAgrees'
<1>1. PICK method \in {"didOpen", "didChange"} : Send(f, method)
    BY DEF SyncSends
<1>2. /\ disk[f] \in Texts
      /\ [method |-> method, file |-> f, version |-> NextVersion(f), text |-> disk[f]] \in Note
    BY NoteTypes DEF SyncSends
<1>3. /\ files' = [files EXCEPT ![f] = disk[f]]
      /\ versions' = [versions EXCEPT ![f] = NextVersion(f)] /\ UNCHANGED <<docs, up>>
    BY <1>1 DEF Send
<1>4. /\ files'[f] = disk[f] /\ versions'[f] = NextVersion(f)
      /\ \A g \in Files \ {f} : files'[g] = files[g] /\ versions'[g] = versions[g]
    BY <1>3 DEF TypeOK
<1>5. CASE up
    <2> DEFINE n == [method |-> method, file |-> f, version |-> NextVersion(f), text |-> disk[f]]
    <2>1. wire' = Append(wire, n)
        BY <1>1, <1>5 DEF Send
    <2>2. /\ \A g \in Files \ {f} : Sent(g)' = Sent(g) /\ \A i \in Sent(g) : wire'[i] = wire[i]
          /\ Sent(f)' = Sent(f) \cup {Len(wire) + 1} /\ wire'[Len(wire) + 1] = n
          /\ Sent(f) \subseteq 1..Len(wire)
        BY <1>2, <2>1, SentMoves
    <2>3. ASSUME NEW g \in Files \ {f}, Told(g)'
          PROVE  files'[g] # Uncached /\ LatestAgrees(g)'
        <3>1. Told(g) /\ files[g] # Uncached /\ LatestAgrees(g)
            BY <1>3, <1>5, <2>2, <2>3 DEF Told, DocInv, ToldCached, WireAgrees
        <3>2. QED
            BY <1>3, <1>4, <2>2, <3>1 DEF LatestAgrees, LastOf
    <2>4. files'[f] # Uncached
        BY <1>2, <1>4
    <2>5. LatestAgrees(f)'
        <3>1. Len(wire) \in Nat
            BY DEF TypeOK
        <3>2. ASSUME NEW i \in Sent(f)', \A j \in Sent(f)' : j <= i PROVE i = Len(wire) + 1
            <4>1. Len(wire) + 1 <= i /\ (i \in 1..Len(wire) \/ i = Len(wire) + 1)
                BY <2>2, <3>2
            <4>2. QED
                BY <3>1, <4>1
        <3>3. Sent(f)' # {} /\ wire'[Len(wire) + 1].version = versions'[f]
                           /\ wire'[Len(wire) + 1].text = files'[f]
            BY <1>4, <2>2
        <3>4. QED
            BY <3>2, <3>3 DEF LatestAgrees, LastOf
    <2>6. QED
        BY <2>3, <2>4, <2>5 DEF ToldCached, WireAgrees
<1>6. CASE ~up
    <2>1. UNCHANGED wire
        BY <1>1, <1>6 DEF Send
    <2>2. \A g \in Files : Told(g)' = Told(g)
        BY <1>3, <2>1 DEF Told, Sent
    <2>3. QED
        BY <1>2, <1>3, <1>4, <1>6, <2>2 DEF DocInv, ToldCached, WireAgrees
<1>7. QED
    BY <1>5, <1>6

\* Handling moves the places of the others forward.
LEMMA SentForward ==
    ASSUME TypeOK, wire # <<>>, wire' = Tail(wire)
    PROVE  /\ wire[1] \in Note /\ Head(wire) = wire[1]
           /\ \A f \in Files : /\ Sent(f) \subseteq Nat \ {0} /\ Sent(f)' \subseteq Nat \ {0}
                               /\ (1 \in Sent(f)) = (wire[1].file = f)
                               /\ \A i \in Nat \ {0} : (i \in Sent(f)') = (i + 1 \in Sent(f))
                               /\ \A i \in Sent(f)' : wire'[i] = wire[i + 1]
<1>1. /\ Len(wire) \in Nat \ {0} /\ Len(wire') = Len(wire) - 1
      /\ Head(wire) = wire[1] /\ wire[1] \in Note
      /\ \A i \in 1..(Len(wire) - 1) : wire'[i] = wire[i + 1]
    BY Handled DEF TypeOK
<1>2. QED
    BY <1>1 DEF Sent

\* Handling gives a document gopls holds open the text it was sent last.
LEMMA HandleAgrees ==
    ASSUME TypeOK, DocInv, ServerHandles
    PROVE  ToldCached' /\ WireAgrees'
<1>1. wire # <<>> /\ wire' = Tail(wire) /\ UNCHANGED <<files, versions, up>>
    BY DEF ServerHandles
<1>2. /\ \A f \in Files : f # wire[1].file => docs'[f] = docs[f]
      /\ \/ UNCHANGED docs
         \/ docs'[wire[1].file] = [version |-> wire[1].version, text |-> wire[1].text]
      /\ docs[wire[1].file] # Closed =>
            docs'[wire[1].file] = [version |-> wire[1].version, text |-> wire[1].text]
    <2>1. Head(wire) = wire[1] /\ wire[1].file \in Files
        BY <1>1, SentForward DEF Note
    <2>2. docs' = IF wire[1].method = "didOpen" \/ docs[wire[1].file] # Closed
                  THEN [docs EXCEPT ![wire[1].file] =
                           [version |-> wire[1].version, text |-> wire[1].text]]
                  ELSE docs
        BY <2>1 DEF ServerHandles
    <2>3. QED
        BY <2>1, <2>2 DEF TypeOK
<1>3. ASSUME NEW f \in Files, Told(f)' PROVE Told(f)
    <2>1. CASE Sent(f)' # {}
        BY <1>1, <2>1, SentForward DEF Told
    <2>2. CASE docs'[f] # Closed /\ f = wire[1].file
        BY <1>1, <2>2, SentForward DEF Told
    <2>3. CASE docs'[f] # Closed /\ f # wire[1].file
        BY <1>2, <2>3 DEF Told
    <2>4. QED
        BY <1>3, <2>1, <2>2, <2>3 DEF Told
<1>4. ASSUME up, NEW f \in Files, Told(f)' PROVE LatestAgrees(f)'
    <2>1. LatestAgrees(f)
        BY <1>3, <1>4 DEF DocInv, WireAgrees
    <2>2. ASSUME NEW i \in Sent(f)', \A j \in Sent(f)' : j <= i
          PROVE  wire'[i].version = versions'[f] /\ wire'[i].text = files'[f]
        <3>1. i \in Nat \ {0} /\ i + 1 \in Sent(f) /\ wire'[i] = wire[i + 1]
            BY <1>1, <2>2, SentForward
        <3>2. ASSUME NEW j \in Sent(f) PROVE j <= i + 1
            <4>1. j \in Nat \ {0}
                BY <1>1, SentForward
            <4>2. CASE j = 1
                BY <3>1, <4>2
            <4>3. CASE j # 1
                <5>1. j - 1 \in Nat \ {0} /\ (j - 1) + 1 = j
                    BY <4>1, <4>3
                <5>2. j - 1 \in Sent(f)'
                    <6>1. (j - 1 \in Sent(f)') = ((j - 1) + 1 \in Sent(f))
                        BY <1>1, <5>1, SentForward
                    <6>2. QED
                        BY <5>1, <6>1
                <5>3. j - 1 <= i
                    BY <2>2, <5>2
                <5>4. QED
                    BY <3>1, <4>1, <5>3
            <4>4. QED
                BY <4>2, <4>3
        <3>3. QED
            BY <1>1, <2>1, <3>1, <3>2 DEF LatestAgrees, LastOf
    <2>3. ASSUME Sent(f)' = {} PROVE docs'[f] = [version |-> versions'[f], text |-> files'[f]]
        <3>1. CASE f = wire[1].file
            <4>1. Sent(f) = {1}
                <5>1. 1 \in Sent(f) /\ Sent(f) \subseteq Nat \ {0}
                    BY <1>1, <3>1, SentForward
                <5>2. \A j \in Sent(f) : j # 1 => j - 1 \in Sent(f)'
                    <6>1. \A j \in Nat \ {0} : j # 1 => j - 1 \in Nat \ {0} /\ (j - 1) + 1 = j
                        OBVIOUS
                    <6>2. QED
                        BY <1>1, <5>1, <6>1, SentForward
                <5>3. QED
                    BY <2>3, <5>1, <5>2
            <4>2. wire[1].version = versions[f] /\ wire[1].text = files[f]
                BY <2>1, <4>1 DEF LatestAgrees, LastOf
            <4>3. docs'[f] # Closed
                BY <1>4, <2>3 DEF Told
            <4>4. QED
                BY <1>1, <1>2, <3>1, <4>2, <4>3
        <3>2. CASE f # wire[1].file
            <4>1. Sent(f) = {}
                <5>1. 1 \notin Sent(f) /\ Sent(f) \subseteq Nat \ {0}
                    BY <1>1, <3>2, SentForward
                <5>2. ASSUME NEW j \in Sent(f) PROVE FALSE
                    <6>1. j - 1 \in Nat \ {0} /\ (j - 1) + 1 = j
                        BY <5>1
                    <6>2. j - 1 \in Sent(f)'
                        BY <1>1, <6>1, SentForward
                    <6>3. QED
                        BY <2>3, <6>2
                <5>3. QED
                    BY <5>2
            <4>2. QED
                BY <1>1, <1>2, <2>1, <3>2, <4>1 DEF LatestAgrees
        <3>3. QED
            BY <3>1, <3>2
    <2>4. QED
        BY <2>2, <2>3 DEF LatestAgrees, LastOf
<1>5. QED
    BY <1>1, <1>3, <1>4 DEF DocInv, ToldCached, WireAgrees

\* A worker that stores a file gopls knows of stores what is cached already.
LEMMA StoreAgrees ==
    ASSUME TypeOK, DocInv, NEW w \in Workers, Stores(w)
    PROVE  ToldCached' /\ WireAgrees'
<1>1. PICK g \in Files : /\ files[g] \in {Uncached, disk[g]} /\ disk[g] \in Texts
                         /\ files' = [files EXCEPT ![g] = disk[g]]
    BY StoresWhatIsThere DEF DocInv
<1>2. UNCHANGED <<versions, wire, docs, up>>
    BY StoresWhatIsThere DEF DocInv
<1>3. \A f \in Files : Told(f)' = Told(f)
    BY <1>2 DEF Told, Sent
<1>4. \A f \in Files : files[f] # Uncached => files'[f] = files[f]
    BY <1>1 DEF TypeOK
<1>5. \A f \in Files : files[f] # Uncached /\ LatestAgrees(f) => LatestAgrees(f)'
    BY <1>2, <1>4 DEF LatestAgrees, Sent, LastOf
<1>6. QED
    BY <1>2, <1>3, <1>4, <1>5 DEF DocInv, ToldCached, WireAgrees

\* Every step keeps what gopls has been told in agreement with the cache.
LEMMA AgreeStep == TypeOK /\ DocInv /\ [Next]_vars => ToldCached' /\ WireAgrees'
<1> SUFFICES ASSUME TypeOK, DocInv, [Next]_vars PROVE ToldCached' /\ WireAgrees'
    OBVIOUS
<1> USE DEF DocInv
<1>1. CASE \E f \in Files : SyncSends(f)
    BY <1>1, SendAgrees
<1>2. CASE ServerHandles
    BY <1>2, HandleAgrees
<1>3. CASE \E w \in Workers : Stores(w)
    BY <1>3, StoreAgrees
<1>4. CASE \/ \E fs \in SUBSET Files : BeginBatch(fs)
           \/ \E f \in Files : SyncUnreadable(f) \/ SyncCurrent(f)
           \/ \E f \in Files, t \in Texts \cup {Missing} : Edit(f, t)
    BY <1>4, ToldStays DEF BeginBatch, SyncUnreadable, SyncCurrent, Edit
<1>5. CASE Synced \/ EndBatch \/ ConnectionLost \/ UNCHANGED vars
    BY <1>5, ToldStays DEF Synced, EndBatch, ConnectionLost, vars
<1>6. CASE \E w \in Workers : (\E f \in Files : Misses(w, f)) \/ Reads(w)
    BY <1>6, ToldStays DEF Misses, Reads
<1>7. QED
    BY <1>1, <1>2, <1>3, <1>4, <1>5, <1>6 DEF Next

---------------------------------------------------------------------------
(* The theorems.                                                           *)

\* Cache, wire and documents keep their types and what relates them, for any
\* number of files, workers, batches and edits.
THEOREM DocSyncSafe == Spec => [](TypeOK /\ DocInv)
<1>1. TypeOK /\ DocInv /\ [Next]_vars => (TypeOK /\ DocInv)'
    BY TypeStep, FetchStep, VisitStep, OnceStep, AgreeStep DEF DocInv
<1>2. QED
    BY InitTypes, <1>1, PTL DEF Spec

\* The state of the document cache has the types of the code.
THEOREM TypeCorrect == Spec => []TypeOK
BY DocSyncSafe, PTL

\* While the connection works, gopls computes its positions of a document it holds
\* open on the text that the client converts columns with.
THEOREM GoplsSeesTheCache == Spec => []OpenedAgree
<1>1. DocInv => OpenedAgree
    BY DEF DocInv, WireAgrees, Told, OpenedAgree, Opened
<1>2. QED
    BY DocSyncSafe, <1>1, PTL

\* While a batch asks, the cache has the text on disk of each file it asks about.
THEOREM QueriesSeeTheDisk == Spec => []AskedAreCurrent
<1>1. TypeOK /\ DocInv => AskedAreCurrent
    BY DEF DocInv, Visits, AskedAreCurrent
<1>2. QED
    BY DocSyncSafe, <1>1, PTL
=============================================================================
