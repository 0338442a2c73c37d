------------------------------ MODULE Journal ------------------------------
(***************************************************************************)
(* The retained journal of one chat, and what a process that died leaves   *)
(* in it for the next one.                                                 *)
(*                                                                         *)
(* Every event of a chat is appended to its journal (chats/<id>.jsonl)     *)
(* except the streamed deltas: they go to a flight file, which the record  *)
(* that ends the turn makes superfluous and removes.  That record carries  *)
(* what the deltas added up to ("_retained").  A start merges a flight     *)
(* file it finds, projects each journal, through a cache, into the state   *)
(* of its chat, closes the run the process died in and gives the scheduler *)
(* its waiting messages back.                                              *)
(*                                                                         *)
(* A turn is a number, unique over the chat's life (the code keys it by    *)
(* run and turn); a text is the number of deltas it is made of.  The       *)
(* scheduler appears only through what it publishes and keeps for the      *)
(* chat; Scheduler.tla is its model.  The chat's model answers, so no      *)
(* message waits for an unreachable one.                                   *)
(***************************************************************************)
EXTENDS Naturals, FiniteSets, Sequences, SequencesExt

CONSTANTS
    Reasoning,   \* the turns whose deltas are reasoning, which no response repeats
    MaxTurn, MaxMessage, MaxDelta, MaxCrash, MaxFault   \* bounds of the model

Turn    == 1 .. MaxTurn
Message == 1 .. MaxMessage

ASSUME JournalAssumption ==
    /\ {MaxTurn, MaxDelta, MaxCrash, MaxFault} \subseteq Nat
    /\ MaxMessage \in Nat \ {0}
    /\ Reasoning \subseteq Turn

VARIABLES
    journal,   \* the records of chats/<id>.jsonl
    flight,    \* the records of .chat-flight-<id>.jsonl
    unlink,    \* writeRecord is about to remove the flight file
    cache,     \* the projection cache's entry: the journal it covers, its snapshot
    phase,     \* "up", or how far a start has come; "refused": it gave up
    image,     \* the snapshot a start works on
    run,       \* the message whose run is active, 0: none
    turn,      \* the turn that streams, 0: none
    waiting,   \* Scheduler.pending of the chat
    messages,  \* the conversation of the session
    ids,       \* the message id counter
    reducer,   \* RetainedReducer: the open turn and its text so far
    out,       \* what the scheduler's operation still has to publish
    runWaits,  \* the operation is the run's own
    \* and, for the properties:
    turns, streamed, owed, sent, crashes, faults, lost

diskVars   == <<journal, flight, unlink, cache>>
memoryVars == <<run, turn, waiting, messages, ids, reducer, out, runWaits>>
auditVars  == <<turns, streamed, owed, sent, crashes, faults, lost>>
vars       == <<diskVars, phase, image, memoryVars, auditVars>>

-----------------------------------------------------------------------------
(* Records and their projection.                                           *)

Appended(m)    == [type |-> "message.appended", id |-> m]
Removed(m)     == [type |-> "message.removed", id |-> m]
Queued(m)      == [type |-> "message.queued", id |-> m]
Unqueued(m)    == [type |-> "message.queued.0", id |-> m]
Started(m)     == [type |-> "run.started", id |-> m]
Request(t)     == [type |-> "model.request", turn |-> t]
Delta(t)       == [type |-> "model.delta", turn |-> t]
Response(t, n, k) == [type |-> "model.response", turn |-> t, text |-> n, kept |-> k]
Stopped(t, k)  == [type |-> "run.stopped", turn |-> t, kept |-> k]
Created(s)     == [type |-> "session.created", session |-> s]
Torn           == [type |-> "torn"]

\* The sequence s without the members of D.
Without(s, D) ==
    LET kept[i \in 0 .. Len(s)] ==
            IF i = 0 THEN <<>>
            ELSE IF s[i] \in D THEN kept[i - 1] ELSE Append(kept[i - 1], s[i])
    IN  kept[Len(s)]

\* Empty.
Empty == [messages |-> <<>>, queued |-> <<>>, running |-> FALSE,
          shown |-> [t \in Turn |-> 0]]

\* NextState: what each record does to the snapshot.  The text of a turn is
\* what its record retained; a response overwrites it with its own content,
\* which holds no reasoning.
NextState(s, r) ==
    CASE r.type = "message.appended" -> [s EXCEPT !.messages = Append(@, r.id)]
      [] r.type = "message.removed"  -> [s EXCEPT !.messages = Without(@, {r.id})]
      [] r.type = "message.queued"   -> [s EXCEPT !.queued = Append(@, r.id)]
      [] r.type = "message.queued.0" -> [s EXCEPT !.queued = Without(@, {r.id})]
      [] r.type = "run.started"      -> [s EXCEPT !.queued = Without(@, {r.id}),
                                                  !.running = TRUE]
      [] r.type = "model.request"    -> s
      [] r.type = "model.delta"      -> [s EXCEPT !.shown[r.turn] = @ + 1]
      [] r.type = "model.response"   ->
            [s EXCEPT !.shown[r.turn] = IF r.turn \in Reasoning THEN r.kept ELSE r.text]
      [] r.type = "run.stopped"      ->
            [s EXCEPT !.running = FALSE,
                      !.shown = IF r.turn = 0 THEN @ ELSE [@ EXCEPT ![r.turn] = r.kept]]
      [] r.type = "session.created"  -> r.session

\* projectRecords, and projectTail from the state before the records.
ProjectFrom(s, records) ==
    LET state[i \in 0 .. Len(records)] ==
            IF i = 0 THEN s ELSE NextState(state[i - 1], records[i])
    IN  state[Len(records)]
Project(records) == ProjectFrom(Empty, records)

Readable(records) == \A i \in DOMAIN records : records[i] # Torn

Ends(r, t) == r.type \in {"model.response", "run.stopped"} /\ r.turn = t
Ended(records, t) == \E i \in DOMAIN records : Ends(records[i], t)

\* RetainedReducer.Prepare over a journal that is read again: a record that
\* ends a turn retains the deltas that stand before it in this journal.
Reprepared(records) ==
    [i \in DOMAIN records |->
        IF records[i].type \in {"model.response", "run.stopped"} /\ records[i].turn # 0
          THEN [records[i] EXCEPT !.kept =
                   Cardinality({j \in 1 .. i : records[j] = Delta(records[i].turn)})]
          ELSE records[i]]

\* slimJournal's copy: prepared again, without the deltas of ended turns.
Slimmed(records) ==
    Without(Reprepared(records), {Delta(t) : t \in {u \in Turn : Ended(records, u)}})

-----------------------------------------------------------------------------
NoCache == [covers |-> <<>>, snapshot |-> Empty]
NoTurn  == [turn |-> 0, text |-> 0]

\* A chat whose first message has just started a run.
Init ==
    /\ journal = <<Created(Empty), Appended(1), Started(1)>>
    /\ flight = <<>> /\ unlink = FALSE /\ cache = NoCache
    /\ phase = "up" /\ image = Empty
    /\ run = 1 /\ turn = 0 /\ waiting = <<>> /\ messages = <<1>> /\ ids = 1
    /\ reducer = NoTurn /\ out = <<>> /\ runWaits = FALSE
    /\ turns = 0 /\ streamed = [t \in Turn |-> 0]
    /\ owed = <<>> /\ sent = {} /\ crashes = 0 /\ faults = 0 /\ lost = FALSE

Up == phase = "up" /\ ~ unlink

\* The scheduler's mutex: one operation publishes at a time.
Free == Up /\ out = <<>>

-----------------------------------------------------------------------------
(* What the scheduler publishes.                                           *)

\* f of every member of s, one after the other.
Each(s, f) ==
    LET list[i \in 0 .. Len(s)] == IF i = 0 THEN <<>> ELSE list[i - 1] \o f[s[i]]
    IN  list[Len(s)]

Returns  == [m \in Message |-> <<Removed(m), Unqueued(m)>>]
Delivers == [m \in Message |-> <<Removed(m), Appended(m), Unqueued(m)>>]

\* submitAttachmentsFrom: a message for a chat with a run waits; otherwise
\* what still waits goes back to the composer and the message starts a run.
Submit ==
    /\ Free /\ ids < MaxMessage
    /\ ids' = ids + 1
    /\ sent' = sent \ {ids'}
    /\ \/ /\ run # 0
          /\ waiting' = Append(waiting, ids')
          /\ messages' = Append(messages, ids')
          /\ out' = <<Appended(ids'), Queued(ids')>>
          /\ run' = run
       \/ /\ run = 0
          /\ waiting' = <<>>
          /\ messages' = Append(Without(messages, Range(waiting)), ids')
          /\ out' = Each(waiting, Returns) \o <<Appended(ids'), Started(ids')>>
          /\ run' = ids'
    /\ runWaits' = (run = 0)
    /\ UNCHANGED <<diskVars, phase, image, turn, reducer, turns, streamed, owed,
                   crashes, faults, lost>>

\* takeQueuedAtBoundary, deliverPendingLocked: between two turns the run takes
\* what waits, at the end of the conversation.
TakeQueued ==
    /\ Free /\ run # 0 /\ turn = 0 /\ waiting # <<>>
    /\ waiting' = <<>>
    /\ messages' = Without(messages, Range(waiting)) \o waiting
    /\ out' = Each(waiting, Delivers)
    /\ runWaits' = TRUE
    /\ UNCHANGED <<diskVars, phase, image, run, turn, ids, reducer, auditVars>>

\* finish: the run ended by itself; the first message that waits starts the
\* next one.
Finish ==
    /\ Free /\ run # 0 /\ turn = 0
    /\ waiting' = <<>>
    /\ messages' = Without(messages, Range(waiting)) \o waiting
    /\ run' = IF waiting = <<>> THEN 0 ELSE Head(waiting)
    /\ out' = Each(waiting, Delivers) \o <<Stopped(0, 0)>>
                \o (IF waiting = <<>> THEN <<>> ELSE <<Started(Head(waiting))>>)
    /\ runWaits' = TRUE
    /\ UNCHANGED <<diskVars, phase, image, turn, ids, reducer, auditVars>>

\* Stop, in the middle of a turn or between two: what waits goes back to the
\* composer.  The run is cancelled before its end is published.
Stop ==
    /\ Free /\ run # 0
    /\ waiting' = <<>>
    /\ messages' = Without(messages, Range(waiting))
    /\ out' = Each(waiting, Returns) \o <<Stopped(0, 0)>>
    /\ run' = 0 /\ turn' = 0
    /\ runWaits' = FALSE
    /\ UNCHANGED <<diskVars, phase, image, ids, reducer, auditVars>>

-----------------------------------------------------------------------------
(* Writing.                                                                *)

\* retainedSink: run.stopped retains the text of a turn it cuts.
Prepared(r) ==
    IF r.type = "run.stopped" THEN Stopped(reducer.turn, reducer.text) ELSE r

\* The record that ends a turn closes the flight file after it was written.
Closes(r) == r.type \in {"model.response", "run.stopped"}

\* writeRecord of the next event.  The write of a fault appends nothing; its
\* error is published and the process goes on (bus.go).
Publish ==
    /\ Up /\ out # <<>>
    /\ \/ /\ journal' = Append(journal, Prepared(Head(out)))
          /\ unlink' = Closes(Head(out))
          /\ UNCHANGED <<faults, lost>>
       \/ /\ faults < MaxFault
          /\ faults' = faults + 1 /\ lost' = TRUE
          /\ UNCHANGED <<journal, unlink>>
    /\ reducer' = IF Closes(Head(out)) THEN NoTurn ELSE reducer
    /\ out' = Tail(out)
    /\ runWaits' = (runWaits /\ Len(out) > 1)
    /\ UNCHANGED <<flight, cache, phase, image, run, turn, waiting, messages, ids,
                   turns, streamed, owed, sent, crashes>>

\* A short write (io.ErrShortWrite) leaves part of a line.
ShortWrite ==
    /\ Up /\ out # <<>> /\ faults < MaxFault
    /\ faults' = faults + 1 /\ lost' = TRUE
    /\ journal' = Append(journal, Torn)
    /\ reducer' = IF Closes(Head(out)) THEN NoTurn ELSE reducer
    /\ out' = Tail(out)
    /\ runWaits' = (runWaits /\ Len(out) > 1)
    /\ UNCHANGED <<flight, unlink, cache, phase, image, run, turn, waiting,
                   messages, ids, turns, streamed, owed, sent, crashes>>

\* closePending.
ClosePending ==
    /\ phase = "up" /\ unlink
    /\ unlink' = FALSE
    /\ flight' = <<>>
    /\ UNCHANGED <<journal, cache, phase, image, memoryVars, auditVars>>

\* The run's request, its deltas and the response.
SendRequest ==
    /\ Up /\ run # 0 /\ turn = 0 /\ turns < MaxTurn
    /\ ~ (runWaits /\ out # <<>>)
    /\ turns' = turns + 1
    /\ turn' = turns'
    /\ journal' = Append(journal, Request(turns'))
    /\ reducer' = [turn |-> turns', text |-> 0]
    /\ sent' = sent \cup (Range(messages) \ Range(waiting))
    /\ UNCHANGED <<flight, unlink, cache, phase, image, run, waiting, messages,
                   ids, out, runWaits, streamed, owed, crashes, faults, lost>>

ReceiveDelta ==
    /\ Up /\ turn # 0 /\ streamed[turn] < MaxDelta
    /\ flight' = Append(flight, Delta(turn))
    /\ streamed' = [streamed EXCEPT ![turn] = @ + 1]
    /\ reducer' = [reducer EXCEPT !.text = @ + 1]
    /\ UNCHANGED <<journal, unlink, cache, phase, image, run, turn, waiting,
                   messages, ids, out, runWaits, turns, owed, sent, crashes,
                   faults, lost>>

ReceiveResponse ==
    /\ Up /\ turn # 0
    /\ journal' = Append(journal, Response(turn, streamed[turn], reducer.text))
    /\ unlink' = TRUE
    /\ reducer' = NoTurn
    /\ turn' = 0
    /\ UNCHANGED <<flight, cache, phase, image, run, waiting, messages, ids, out,
                   runWaits, auditVars>>

-----------------------------------------------------------------------------
(* Dying and starting again.                                               *)

\* The process dies, while it serves or while it starts.  A message is owed
\* when it waited and nothing about it was still to be published.
Crash ==
    /\ phase \notin {"down", "refused"} /\ crashes < MaxCrash
    /\ crashes' = crashes + 1
    /\ phase' = "down"
    /\ unlink' = FALSE
    /\ run' = 0 /\ turn' = 0 /\ waiting' = <<>> /\ messages' = <<>> /\ ids' = 0
    /\ reducer' = NoTurn /\ out' = <<>> /\ runWaits' = FALSE
    /\ owed' = IF phase # "up" THEN owed
               ELSE Without(waiting, {m \in Message : Queued(m) \in Range(out)})
    /\ image' = Empty
    /\ UNCHANGED <<journal, flight, cache, turns, streamed, sent, faults, lost>>

\* A mutant: the two projections are not compared.
SlimUnchecked ==
    /\ phase = "down"
    /\ phase' = IF flight # <<>> /\ Readable(journal) THEN "slimmed" ELSE "load"
    /\ journal' = IF phase' = "slimmed" THEN Slimmed(journal \o flight) ELSE journal
    /\ UNCHANGED <<flight, unlink, cache, image, memoryVars, auditVars>>

\* slimRetainedChats, SlimJournal: a journal with a flight file is written
\* anew, with the flight's records at its end, unless the two would not be
\* projected alike; AtomicReplace.
Slim ==
    LET merged == journal \o flight
        alike  == Project(Slimmed(merged)) = Project(merged)
    IN
    /\ phase = "down"
    /\ phase' = IF flight # <<>> /\ Readable(journal) /\ alike THEN "slimmed" ELSE "load"
    /\ journal' = IF phase' = "slimmed" THEN Slimmed(merged) ELSE journal
    /\ UNCHANGED <<flight, unlink, cache, image, memoryVars, auditVars>>

\* os.Remove of the flight file, after the replacement.
DropFlight ==
    /\ phase = "slimmed"
    /\ phase' = "load"
    /\ flight' = <<>>
    /\ UNCHANGED <<journal, unlink, cache, image, memoryVars, auditVars>>

\* LoadCachedSnapshot.  The entry names a byte offset: a journal that was
\* written anew with other records before it has no record boundary there,
\* and reading the rest fails.
CacheHit ==
    /\ cache.covers # <<>>
    /\ IsPrefix(cache.covers, journal)
    /\ Readable(journal)

\* restoreProjections: the cached snapshot and the records after it, or the
\* whole journal, whose snapshot is stored.  A journal that cannot be read
\* ends the start.
Load ==
    /\ phase = "load"
    /\ \/ /\ CacheHit
          /\ image' = ProjectFrom(cache.snapshot,
                                  SubSeq(journal, Len(cache.covers) + 1, Len(journal)))
          /\ cache' = cache
          /\ phase' = "restore"
       \/ /\ ~ CacheHit /\ Readable(journal)
          /\ image' = Project(journal)
          /\ cache' = [covers |-> journal, snapshot |-> image']
          /\ phase' = "restore"
       \/ /\ ~ Readable(journal)
          /\ phase' = "refused"
          /\ UNCHANGED <<image, cache>>
    /\ UNCHANGED <<journal, flight, unlink, memoryVars, auditVars>>

\* Mutants: the cut run stays open; the announced state has no queue.
ClosedNot(s) == s
ClosedEmpty(s) == [s EXCEPT !.running = FALSE, !.queued = <<>>]

\* closeRunCutByProcessDeath and RestoreWithTranscript: what the chat is
\* announced with.
Closed(s) == [s EXCEPT !.running = FALSE]

\* snapshotIDFloor.
Floor(s) == CHOOSE n \in 0 .. MaxMessage :
               /\ n = 0 \/ n \in Range(s.messages)
               /\ \A m \in Range(s.messages) : m <= n

\* RestoreQueue: the queued messages that are still in the conversation.
RestoreQueue(s) == Without(s.queued, Message \ Range(s.messages))

\* restoreRetainedChats for the chat, then RestoreQueue: session.created carries
\* the restored state.
Restore ==
    LET saved == Closed(image) IN
    /\ phase = "restore"
    /\ phase' = "up"
    /\ journal' = Append(journal, Created(saved))
    /\ messages' = saved.messages
    /\ waiting' = RestoreQueue(saved)
    /\ ids' = Floor(saved)
    /\ image' = Empty
    /\ UNCHANGED <<flight, unlink, cache, run, turn, reducer, out, runWaits,
                   auditVars>>

Next ==
    \/ Submit \/ TakeQueued \/ Finish \/ Stop
    \/ Publish \/ ShortWrite \/ ClosePending
    \/ SendRequest \/ ReceiveDelta \/ ReceiveResponse
    \/ Crash \/ Slim \/ DropFlight \/ Load \/ Restore

Spec == Init /\ [][Next]_vars

-----------------------------------------------------------------------------
(* Properties.                                                             *)

\* The snapshots, the records, and what the scheduler publishes.
State == [messages : Seq(Message), queued : Seq(Message), running : BOOLEAN,
          shown : [Turn -> Nat]]

IdTypes == {"message.appended", "message.removed", "message.queued",
            "message.queued.0", "run.started"}
IdRecord       == [type : IdTypes, id : Message]
TurnRecord     == [type : {"model.request", "model.delta"}, turn : Turn]
ResponseRecord == [type : {"model.response"}, turn : Turn, text : Nat, kept : Nat]
StoppedRecord  == [type : {"run.stopped"}, turn : Turn \cup {0}, kept : Nat]
CreatedRecord  == [type : {"session.created"}, session : State]
Record == IdRecord \cup TurnRecord \cup ResponseRecord \cup StoppedRecord \cup CreatedRecord

Outgoing == IdRecord \cup {Stopped(0, 0)}
Deltas   == {Delta(t) : t \in Turn}

\* The variables hold values of their kinds: a journal is records and torn lines,
\* a flight file deltas.
TypeOK ==
    /\ journal \in Seq(Record \cup {Torn})
    /\ flight \in Seq(Deltas)
    /\ unlink \in BOOLEAN
    /\ cache \in [covers : Seq(Record), snapshot : State]
    /\ phase \in {"up", "down", "slimmed", "load", "restore", "refused"}
    /\ image \in State
    /\ run \in Message \cup {0} /\ ids \in Message \cup {0}
    /\ turn \in Turn \cup {0}
    /\ waiting \in Seq(Message) /\ messages \in Seq(Message)
    /\ reducer \in [turn : Turn \cup {0}, text : Nat]
    /\ out \in Seq(Outgoing)
    /\ runWaits \in BOOLEAN /\ lost \in BOOLEAN
    /\ turns \in 0 .. MaxTurn /\ streamed \in [Turn -> Nat]
    /\ owed \in Seq(Message) /\ sent \in SUBSET Message

\* A start has handed the chat over.
Restored == phase = "restore" /\ phase' = "up"

\* s can be read off w, in its order.
Within(s, w) ==
    \E at \in [DOMAIN s -> DOMAIN w] :
        \A i \in DOMAIN s : w[at[i]] = s[i] /\ \A j \in 1 .. i - 1 : at[j] < at[i]

\* A message that waited when the process died waits again after the next
\* start, in its place, however often starts are cut off; and nothing comes
\* back that a request had already sent.  scheduler.go: "a restart turned a
\* queue of three into three ordinary history messages that nothing would ever
\* send".
WaitingSurvives ==
    [][Restored /\ ~ lost =>
          /\ Within(owed, waiting')
          /\ Range(waiting') \cap sent = {}]_vars

\* The journal alone shows all the text of a turn whose end was recorded: no
\* rewriting of it at a start, and no crash in the middle of one, takes away
\* what was streamed (slimJournal's comparison of the two projections).
CompletedTextKept ==
    Readable(journal) =>
        LET shown == Project(journal).shown IN
        \A t \in Turn : Ended(journal, t) => shown[t] = streamed[t]

\* Between two operations the journal says what the process has: the same
\* conversation, a run exactly when there is one, and, of the conversation, the
\* waiting messages as queued.  A chat whose run died with the process does not
\* claim to be running (main.go: "A chat that claims to be thinking forever is
\* worse than one that says it was cut").
JournalFollowsChat ==
    Free /\ ~ lost =>
        LET s == Project(journal) IN
        /\ s.messages = messages
        /\ s.running = (run # 0)
        /\ Range(waiting) = Range(s.queued) \cap Range(messages)

\* Stated by the repository and refuted by this model:

\* replay_test.go, TestSlimJournalKeepsProjectionAndInterruptedTurn: a turn
\* that the crash cut is shown with what it had streamed.
InterruptedTextKept ==
    phase = "restore" => image.shown = streamed

\* scheduler.go, RestoreQueue: the queued messages come back "in the order they
\* were accepted".
QueueOrderKept ==
    [][Restored /\ ~ lost =>
          LET First(m) == SelectInSeq(waiting', LAMBDA x : x = m) IN
          \A i, j \in DOMAIN owed : i < j => First(owed[i]) <= First(owed[j])]_vars

\* main.go: "one chat that cannot be restored is not a reason to refuse to start".
StartsAnyway == phase # "refused"

\* scheduler.go, RestoreQueue: a queue entry without its message "is dropped
\* rather than carried as a ghost".
NoGhostEntry ==
    Free /\ ~ lost => Project(journal).queued = waiting

\* scheduler.go: a message that was taken from the queue is in a request, or
\* a run of its own was recorded, or it waits again; it is not one of the
\* "history messages that nothing would ever send".
NothingForgotten ==
    [][Restored /\ ~ lost =>
          \A m \in Range(messages') :
             m \in sent \cup Range(waiting') \/ Started(m) \in Range(journal)]_vars
=============================================================================
