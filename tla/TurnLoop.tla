------------------------------ MODULE TurnLoop ------------------------------
(***************************************************************************)
(* The turn loop of one run: runInPhases of internal/agent/run_phases.go,  *)
(* the one rule of compaction (internal/context/one_rule.go), the repair   *)
(* of history (internal/agent/truncation.go) and the flight book that      *)
(* writes the abort record (internal/agent/abort.go).                      *)
(*                                                                         *)
(* The run goes round the phases: take what waits at the boundary, build   *)
(* the request, fit it to the window, call the model, read the answer, run *)
(* its tools, append.  A phase ends the run, begins the round again or     *)
(* goes on.  Beside it the operator may stop the run, its wall clock may   *)
(* run out, and Stop writes the abort record itself when the run does not  *)
(* return within two seconds.                                              *)
(*                                                                         *)
(* What the model answers, what a request weighs and what a tool returns   *)
(* are inputs.  A message is its role and the calls it is about.           *)
(***************************************************************************)
EXTENDS Integers, Sequences, FiniteSets

CONSTANTS
    Kind,          \* the kinds of calls the model makes, see below
    MaxTurn,       \* bound: turns of the run
    MaxCalls,      \* bound: tool calls of one answer
    MaxMore,       \* bound: messages taken from the waiting list
    MaxAgain,      \* bound: rounds begun again in the same turn, but for a refusal's compaction
    HasFallback,   \* the chat's connection names a fallback
    RepeatsIds     \* the server may give two calls the same id

ASSUME TurnAssumption ==
    /\ MaxTurn \in Nat /\ MaxCalls \in Nat \ {0} /\ MaxMore \in Nat /\ MaxAgain \in Nat
    /\ Kind \subseteq {"read", "write", "shell", "bad"}
    /\ HasFallback \in BOOLEAN /\ RepeatsIds \in BOOLEAN

VARIABLES
    phase,      \* the phase the run is in
    x,          \* struct runState: what the loop remembers between phases
    messages,   \* the messages of the chat
    calls,      \* x.toolCalls: the calls of the answer that is being worked off
    tool,       \* tool[i]: how far the call is
    flight,     \* flights.active: what an abort record written now would name
    recorded,   \* flights.recorded
    records,    \* the abort records written
    asked,      \* who cancelled the run's context
    reason,     \* the reason the run stopped for
    (* history *)
    untold      \* calls that took effect and whose result the chat was not given

turnVars == <<phase, x, messages, calls, tool, flight, recorded, records, asked, reason,
              untold>>
toolVars == <<calls, tool, untold>>
bookVars == <<flight, recorded, records>>

\* read: the tools of Registry.Reads.  write: write_file and edit_file, which name
\* their path.  shell: shell and run_script.  bad: arguments that do not decode.
\* The sequences of calls the model may ask for in turn t; id is what the server calls
\* the call.
Id(t, i) == t * MaxCalls + i
Asks(t) ==
    {cs \in UNION {[1..n -> [id : {Id(t, i) : i \in 1..MaxCalls}, kind : Kind]] : n \in 1..MaxCalls} :
        \A i \in DOMAIN cs : cs[i].id = Id(t, i) \/ (RepeatsIds /\ cs[i].id = Id(t, 1))}

\* A message: the ids of the calls it makes or answers, and whether one is malformed.
User    == [role |-> "user", ids |-> {}, bad |-> FALSE, pinned |-> FALSE]
Task    == [User EXCEPT !.pinned = TRUE]
Harness == [User EXCEPT !.role = "harness"]
Text    == [User EXCEPT !.role = "assistant"]
Asking(cs) == [Text EXCEPT !.ids = {cs[i].id : i \in DOMAIN cs},
                           !.bad = \E i \in DOMAIN cs : cs[i].kind = "bad"]
Result(id) == [User EXCEPT !.role = "tool", !.ids = {id}]

\* appendHarnessLine.  One harness message stands for the lines in a row.
Say(ms) ==
    IF ms # <<>> /\ ms[Len(ms)] = Harness THEN ms ELSE Append(ms, Harness)

\* The chat holds an earlier turn when the run starts.
Earlier == 1

Cancelled == asked # {}

\* beginFlight, and what setFlightStage leaves at a stage other than execute.
NoFlight == [paths |-> {}, complete |-> TRUE, partial |-> <<>>]
Unknown  == 0   \* "unknown: command or script may write arbitrary paths"

NewRun ==
           [turn |-> 0, refusals |-> 0, sentence |-> FALSE, repair |-> FALSE,
            fallback |-> FALSE, asText |-> 0, malformed |-> FALSE, truncated |-> FALSE,
            announced |-> FALSE, pending |-> FALSE, used |-> FALSE, answered |-> FALSE,
            more |-> 0, rounds |-> 0]

TurnInit ==
    /\ phase = "boundary"
    /\ x = NewRun
    /\ messages = <<[Text EXCEPT !.ids = {Earlier}], Result(Earlier), Task>>
    /\ calls = <<>> /\ tool = <<>>
    /\ flight = NoFlight /\ recorded = FALSE /\ records = <<>>
    /\ asked = {} /\ reason = ""
    /\ untold = {}

\* The type invariant of the loop.
TurnTypeOK ==
    /\ phase \in {"boundary", "build", "fit", "summary", "call", "tools", "observe", "card",
                  "ended", "finished"}
    /\ DOMAIN x = DOMAIN NewRun /\ x.turn \in 0..MaxTurn /\ x.refusals \in 0..2
    /\ x.more \in 0..MaxMore /\ x.asText \in 0..MaxTurn
    /\ \A k \in DOMAIN messages :
          /\ DOMAIN messages[k] = DOMAIN User
          /\ messages[k].role \in {"user", "harness", "assistant", "tool"}
          /\ messages[k].ids \subseteq {Earlier} \cup {Id(t, i) : t \in 1..MaxTurn, i \in 1..MaxCalls}
    /\ \A k \in DOMAIN calls : calls[k].kind \in Kind
    /\ DOMAIN tool = DOMAIN calls
    /\ \A k \in DOMAIN tool : tool[k] \in {"idle", "begun", "acted", "returned", "seen"}
    /\ asked \subseteq {"stop", "wall"} /\ recorded \in BOOLEAN
    /\ \A u \in untold : u.call \in 1..MaxCalls /\ u.kind \in Kind

-----------------------------------------------------------------------------
(* The flight book *)

\* possibleWrittenPaths of one call, possiblePartialPaths of the calls streamed.
PathsOf(cs, i) ==
    [paths    |-> CASE cs[i].kind = "write" -> {i} [] cs[i].kind = "shell" -> {Unknown}
                    [] OTHER -> {},
     complete |-> cs[i].kind # "shell"]

PartialPaths(cs) ==
    [paths    |-> UNION {PathsOf(cs, i).paths : i \in DOMAIN cs},
     complete |-> \A i \in DOMAIN cs : PathsOf(cs, i).complete]

\* setFlightStage: any stage but execute forgets the tool in flight.
AtStage(f) == [f EXCEPT !.paths = {}, !.complete = TRUE]

\* recordAbort: once per flight; the message it appends.
AbortRecord ==
    IF flight.paths = {} /\ flight.partial # <<>>
    THEN PartialPaths(flight.partial)
    ELSE [paths |-> flight.paths, complete |-> flight.complete]

RecordAbort ==
    IF recorded THEN UNCHANGED <<records, messages>>
    ELSE records' = Append(records, AbortRecord) /\ messages' = Say(messages)

\* The run returns: its runState goes and its deferred calls end the flight.
Return(why) ==
    /\ phase' = "ended" /\ reason' = why
    /\ x' = NewRun /\ calls' = <<>> /\ tool' = <<>>
    /\ flight' = [NoFlight EXCEPT !.complete = FALSE] /\ recorded' = FALSE
    /\ UNCHANGED <<asked, untold>>

StopRun(why) == Return(why) /\ UNCHANGED <<messages, records>>
StopSaying(why, ms) == Return(why) /\ messages' = ms /\ UNCHANGED records

\* For a mutant: a cancelled turn returns without the abort record.
ContextStopQuiet == StopRun(IF "wall" \in asked THEN "wall_clock" ELSE "aborted")

\* x.contextStop: a wall clock that ran out names itself, anything else is an abort.
ContextStop ==
    IF "wall" \in asked THEN StopRun("wall_clock") ELSE Return("aborted") /\ RecordAbort

\* The round begins again, or goes on to phase p.
GoTo(p, y) ==
    /\ phase' = p /\ x' = y
    /\ UNCHANGED <<asked, reason, recorded, records>>

-----------------------------------------------------------------------------
(* The conversation *)

\* ValidateMessageList: a result follows a call with its id that has none yet.
ValidList(ms) ==
    \A k \in DOMAIN ms : ms[k].role = "tool" =>
        \E j \in 1..(k - 1) :
            /\ ms[j].role = "assistant" /\ ms[k].ids \subseteq ms[j].ids
            /\ \A l \in (j + 1)..(k - 1) : ms[l].role = "tool" => ms[l].ids # ms[k].ids

Malformed(ms) == {k \in DOMAIN ms : ms[k].bad}
Newest(S) == CHOOSE k \in S : \A j \in S : j <= k

Pick(ms, S) ==
    LET at[k \in 0..Len(ms)] ==
            IF k = 0 THEN <<>> ELSE IF k \in S THEN Append(at[k - 1], ms[k]) ELSE at[k - 1]
    IN  at[Len(ms)]

\* repairMalformedToolCall: the newest message with a call that does not decode loses
\* its calls, or goes when it has no prose, and the results of those calls go.
Repaired(ms, prose) ==
    LET k    == Newest(Malformed(ms))
        gone == {j \in DOMAIN ms : ms[j].role = "tool" /\ ms[j].ids \subseteq ms[k].ids}
    IN  Pick([ms EXCEPT ![k] = Text],
             DOMAIN ms \ (gone \cup IF prose THEN {} ELSE {k}))

\* For a mutant: a span is its first message only.
SpanOne(ms, b) == {b}

\* oneRuleKeep: from the pinned message on, every user message, the newest span of work
\* and those earlier spans that fit the allowance.  A span ends before the next user or
\* assistant message.
PinIndex(ms) ==
    IF \E k \in DOMAIN ms : ms[k].pinned THEN CHOOSE k \in DOMAIN ms : ms[k].pinned ELSE 1
SpanBegins(ms) ==
    {k \in PinIndex(ms)..Len(ms) :
        /\ ms[k].role # "user"
        /\ k = PinIndex(ms) \/ ms[k].role = "assistant" \/ ms[k - 1].role = "user"}
Span(ms, b) ==
    {k \in b..Len(ms) : \A j \in (b + 1)..k : ms[j].role \notin {"user", "assistant"}}
Users(ms) == {k \in PinIndex(ms)..Len(ms) : ms[k].role = "user"}

KeepSpans(ms, B) == Users(ms) \cup UNION {Span(ms, b) : b \in B}
Keeps(ms) ==
    LET begins == SpanBegins(ms)
    IN  IF begins = {} THEN {Users(ms)}
        ELSE {KeepSpans(ms, B \cup {Newest(begins)}) : B \in SUBSET begins}
\* newestOneRule: no allowance.
KeepNewest(ms) ==
    KeepSpans(ms, IF SpanBegins(ms) = {} THEN {} ELSE {Newest(SpanBegins(ms))})

-----------------------------------------------------------------------------
(* The phases *)

\* turnBoundary goes on: what waits is delivered, a malformed call in the history is
\* repaired once, the turn begins.
BeginTurn(ms, y) ==
    IF ~x.repair /\ Malformed(ms) # {}
    THEN \E prose \in BOOLEAN :
            /\ messages' = Repaired(ms, prose)
            /\ GoTo("boundary", [y EXCEPT !.repair = TRUE])
    ELSE /\ messages' = ms
         /\ GoTo("build", [y EXCEPT !.turn = @ + 1, !.used = @ /\ x.pending])

TurnBoundary ==
    /\ phase = "boundary"
    /\ \/ Cancelled /\ ContextStop
       \/ ~Cancelled /\ \E why \in {"mailbox_stop", "connection_not_runnable"} : StopRun(why)
       \/ /\ ~Cancelled /\ x.turn < MaxTurn
          /\ \/ BeginTurn(messages, x)
             \/ x.more < MaxMore /\ BeginTurn(Append(messages, User), [x EXCEPT !.more = @ + 1])
          /\ UNCHANGED <<toolVars, flight>>

\* buildRequest: a list that fails a rule ends the run; the count of a cancelled run
\* may fail too.
BuildRequest ==
    /\ phase = "build"
    /\ \/ Cancelled /\ ContextStop
       \/ ~Cancelled /\ ~ValidList(messages) /\ StopRun("model_error")
       \/ /\ ValidList(messages)
          /\ flight' = [AtStage(flight) EXCEPT !.partial = <<>>]
          /\ GoTo("fit", x)
          /\ UNCHANGED <<messages, toolVars>>

\* The reason fitWindow stops with.
Exhausted == IF x.sentence THEN "model_error" ELSE "context_exhausted"

\* A compaction changed the messages: the round begins again, the refusal is forgotten.
Compacted(ms) ==
    /\ messages' = ms
    /\ GoTo("boundary", [x EXCEPT !.turn = @ - 1, !.sentence = FALSE,
                                  !.rounds = IF x.sentence THEN @ ELSE @ + 1])
    /\ UNCHANGED toolVars

\* fitWindow up to the summary.
FitWindow ==
    /\ phase = "fit"
    /\ \/ x.fallback /\ StopRun("context_exhausted")
       \/ x.refusals >= 2 /\ StopRun(Exhausted)
       \/ /\ x.refusals < 2 /\ ~x.sentence
          /\ GoTo("call", [x EXCEPT !.pending = FALSE, !.used = @ \/ x.pending])
          /\ UNCHANGED <<messages, toolVars, flight>>
       \/ /\ x.refusals < 2 /\ (x.sentence \/ x.rounds < MaxAgain)
          /\ \/ StopRun(Exhausted)
             \/ Compacted(<<Harness>> \o messages) /\ UNCHANGED flight
             \/ /\ GoTo("summary", x)
                /\ flight' = AtStage(flight)
                /\ UNCHANGED <<messages, toolVars>>

\* Compact after the summary, whether the model wrote one or not.
Summarize ==
    /\ phase = "summary"
    /\ \/ /\ \E keep \in Keeps(messages) : Compacted(<<Harness>> \o Pick(messages, keep))
          /\ UNCHANGED flight
       \/ StopSaying(Exhausted, <<Harness>> \o Pick(messages, KeepNewest(messages)))

\* callModel, when the call fails.  The message goes back to the composer when nothing
\* was answered yet.
Again(y) ==
    /\ GoTo("boundary", [y EXCEPT !.turn = @ - 1])
    /\ UNCHANGED <<toolVars, flight>>

CallFails ==
    /\ phase = "call"
    /\ \/ Cancelled /\ ContextStop
       \/ /\ ~Cancelled
          /\ \/ \E kept \in {<<>>, <<Text>>} : StopSaying("length", messages \o kept)
             \/ \E ms \in {messages, Say(messages)} :
                   /\ messages' = ms
                   /\ Again([x EXCEPT !.refusals = @ + 1, !.sentence = TRUE])
             \/ /\ x.asText # x.turn
                /\ x.rounds < MaxAgain
                /\ Again([x EXCEPT !.asText = x.turn, !.rounds = @ + 1])
                /\ UNCHANGED messages
             \/ /\ HasFallback /\ ~x.fallback
                /\ x.rounds < MaxAgain
                /\ Again([x EXCEPT !.fallback = TRUE, !.rounds = @ + 1])
                /\ UNCHANGED messages
             \/ \E why \in {"model_unreachable", "model_error"} : StopRun(why)
             \/ /\ ~x.answered
                /\ \E why \in {"model_unreachable", "model_error"} :
                      StopSaying(why, SelectSeq(messages, LAMBDA m : ~m.pinned))

\* readAnswer.  An answer without a call, or with none that may run.
Answered == [x EXCEPT !.answered = TRUE]

ReadNoCalls ==
    /\ phase = "call"
    /\ IF x.malformed
       THEN StopSaying("malformed_turn", Say(messages))
       ELSE /\ GoTo("boundary", [Answered EXCEPT !.malformed = TRUE])
            /\ UNCHANGED <<messages, toolVars, flight>>

ReadUnoffered ==
    /\ phase = "call"
    /\ messages' = Say(messages)
    /\ GoTo("boundary", [Answered EXCEPT !.announced = FALSE])
    /\ UNCHANGED <<toolVars, flight>>

ReadReasoningOnly ==
    /\ phase = "call" /\ ~x.used /\ x.rounds < MaxAgain
    /\ Again([Answered EXCEPT !.pending = TRUE, !.rounds = @ + 1])
    /\ UNCHANGED messages

ReadTruncatedCalls ==
    /\ phase = "call"
    /\ \/ StopRun("length")
       \/ /\ ~x.truncated
          /\ GoTo("boundary", [Answered EXCEPT !.truncated = TRUE, !.announced = FALSE])
          /\ UNCHANGED <<messages, toolVars, flight>>

ReadText ==
    /\ phase = "call"
    /\ \/ x.truncated /\ StopRun("length")
       \/ /\ ~x.truncated
          /\ \/ \E kept \in {<<>>, <<Text>>} : StopSaying("length", messages \o kept)
             \/ \E why \in {"done", "reply_empty"} :
                   StopSaying(why, Append(messages, Text))
             \/ StopSaying("done", Say(Append(messages, Text)))
             \/ IF x.announced
                THEN StopSaying("announced_action_and_stopped",
                                Append(messages, Text))
                ELSE /\ messages' = Append(messages, Text)
                     /\ GoTo("boundary", [Answered EXCEPT !.announced = TRUE])
                     /\ UNCHANGED <<toolVars, flight>>

\* Calls of tools that are not offered are dropped with a line, the others run.
ReadCalls ==
    /\ phase = "call"
    /\ \/ x.truncated /\ StopRun("length")
       \/ \E cs \in Asks(x.turn), ms \in {messages, Say(messages)} :
            /\ messages' = ms
            /\ calls' = cs /\ tool' = [i \in DOMAIN cs |-> "idle"]
            /\ flight' = [AtStage(flight) EXCEPT !.partial = cs]
            /\ GoTo("tools", [Answered EXCEPT !.announced = FALSE, !.truncated = FALSE])
            /\ UNCHANGED untold

-----------------------------------------------------------------------------
(* The tools of the answer *)

\* runRawTools: a run of reads goes in parallel (at most four at a time, more than an
\* answer has here), any other call on its own and in order.
Together(i, j) == \A k \in i..j : calls[k].kind = "read"
MayBegin(i) == \A j \in 1..(i - 1) : tool[j] = "returned" \/ Together(j, i)

\* runRawTool up to executeTool: setFlightTool.
ToolBegins(i) ==
    /\ phase = "tools" /\ tool[i] = "idle" /\ calls[i].kind # "bad" /\ MayBegin(i)
    /\ tool' = [tool EXCEPT ![i] = "begun"]
    /\ flight' = [flight EXCEPT !.paths = PathsOf(calls, i).paths,
                                !.complete = PathsOf(calls, i).complete]
    /\ UNCHANGED <<phase, x, messages, calls, recorded, records, asked, reason, untold>>

\* Arguments that do not decode, or a hook that refuses: the call never executes.
ToolRefused(i) ==
    /\ phase = "tools" /\ tool[i] = "idle" /\ MayBegin(i)
    /\ tool' = [tool EXCEPT ![i] = "returned"]
    /\ UNCHANGED <<phase, x, messages, calls, bookVars, asked, reason, untold>>

\* CallDetailed finds the context alive and the tool does its work.
ToolActs(i) ==
    /\ phase = "tools" /\ tool[i] = "begun" /\ ~Cancelled
    /\ tool' = [tool EXCEPT ![i] = "acted"]
    /\ untold' = untold \cup {[call |-> i, kind |-> calls[i].kind]}
    /\ UNCHANGED <<phase, x, messages, calls, bookVars, asked, reason>>

\* The call returns; one that was denied or cancelled did nothing.
ToolReturns(i) ==
    /\ phase = "tools" /\ tool[i] \in {"begun", "acted"}
    /\ tool' = [tool EXCEPT ![i] = "returned"]
    /\ UNCHANGED <<phase, x, messages, calls, bookVars, asked, reason, untold>>

\* finishOrRunToolsStep: a cancelled turn is dropped, any other appended.
AppendTurn ==
    /\ phase = "tools" /\ \A i \in DOMAIN calls : tool[i] = "returned"
    /\ \/ Cancelled /\ ContextStop
       \/ /\ ~Cancelled
          /\ messages' = Append(messages, Asking(calls)) \o
                         [i \in DOMAIN calls |-> Result(calls[i].id)]
          /\ untold' = {}
          /\ flight' = AtStage(flight)
          /\ GoTo("observe", x)
          /\ UNCHANGED <<calls, tool>>

\* The guards look at each result: it may pass, earn a line or open the cycle card.
Unseen == {i \in DOMAIN calls : tool[i] # "seen"}
Saw    == tool' = [tool EXCEPT ![CHOOSE i \in Unseen : \A j \in Unseen : i <= j] = "seen"]

Observe ==
    /\ phase = "observe" /\ Unseen # {}
    /\ \/ \E ms \in {messages, Say(messages)} : messages' = ms /\ Saw /\ GoTo("observe", x)
       \/ GoTo("card", x) /\ UNCHANGED <<messages, tool>>
    /\ UNCHANGED <<calls, flight, untold>>

\* WaitCycleDecision: the operator lets the run go on or ends it.
AnswerCard ==
    /\ phase = "card"
    /\ \/ StopRun("cycle")
       \/ /\ \E ms \in {messages, Say(messages)} : messages' = ms
          /\ GoTo("observe", x) /\ Saw /\ UNCHANGED <<calls, flight, untold>>

\* For a mutant: the wait does not watch the context.
CardWaits == phase = "card" /\ reason # "" /\ UNCHANGED turnVars

CardCancelled == phase = "card" /\ Cancelled /\ ContextStop

EndTurn ==
    /\ phase = "observe" /\ Unseen = {}
    /\ GoTo("boundary", x)
    /\ calls' = <<>> /\ tool' = <<>>
    /\ flight' = AtStage(flight)
    /\ UNCHANGED <<messages, untold>>

-----------------------------------------------------------------------------
(* Beside the loop *)

\* Stop cancels the run, and so does the wall clock.
Cancel(who) ==
    /\ phase \notin {"ended", "finished"} /\ who \notin asked
    /\ asked' = asked \cup {who}
    /\ UNCHANGED <<phase, x, messages, toolVars, bookVars, reason>>

\* Stop waited two seconds for the run and writes its abort record.
StopOverdue ==
    /\ phase # "finished" /\ "stop" \in asked /\ ~recorded
    /\ RecordAbort /\ recorded' = TRUE
    /\ UNCHANGED <<phase, x, toolVars, flight, asked, reason>>

\* The scheduler's finish: the run is done, Stop no longer waits for it.
Finished ==
    /\ phase = "ended"
    /\ phase' = "finished"
    /\ UNCHANGED <<x, messages, toolVars, bookVars, asked, reason>>

Tools == \E i \in DOMAIN calls : ToolBegins(i) \/ ToolRefused(i) \/ ToolActs(i) \/ ToolReturns(i)
ReadAnswer == ReadNoCalls \/ ReadUnoffered \/ ReadReasoningOnly \/ ReadTruncatedCalls
                  \/ ReadText \/ ReadCalls
Round == TurnBoundary \/ BuildRequest \/ FitWindow \/ Summarize \/ CallFails \/ ReadAnswer
             \/ Tools \/ AppendTurn \/ Observe \/ CardCancelled \/ EndTurn \/ Finished

TurnNext == Round \/ AnswerCard \/ StopOverdue \/ \E who \in {"stop", "wall"} : Cancel(who)

\* The timer of the wall clock fires, a cancelled run goes on - what it waits for
\* returns when its context ends - and a run that returned is finished.  The model,
\* the tools and the operator owe nothing before that.
TurnFairness ==
    /\ WF_turnVars(Cancel("wall"))
    /\ WF_turnVars(Cancelled /\ Round)
    /\ WF_turnVars(Finished)
TurnSpec == TurnInit /\ [][TurnNext]_turnVars /\ TurnFairness

-----------------------------------------------------------------------------
(* Properties *)

\* The task is never summarised away, and neither is a message the run took from the
\* waiting list: the comment on SetRunPin in start (run_phases.go).
KeepsTask == \E k \in DOMAIN messages : messages[k].pinned
KeepsUsers == Cardinality({k \in DOMAIN messages : messages[k].role = "user"}) = 1 + x.more

\* Every call in the chat has its result after it.
CallsAnswered ==
    \A k \in DOMAIN messages : messages[k].role = "assistant" =>
        \A id \in messages[k].ids :
            \E j \in (k + 1)..Len(messages) :
                messages[j].role = "tool" /\ messages[j].ids = {id}

\* Two calls in the chat were given the same id.
RepeatedId ==
    \E j, k \in DOMAIN messages :
        j # k /\ messages[j].role = "tool" /\ messages[k] = messages[j]

\* Every request the model is sent holds the task and the messages taken since, and is
\* a list in which calls and results pair up, whatever compactions, repairs, refusals
\* and retries came before it; and nothing but a server that repeats the id of a call
\* makes a chat whose list fails the rules.
RequestIsWhole ==
    /\ phase = "build" => ValidList(messages) \/ RepeatedId
    /\ phase = "call" => KeepsTask /\ KeepsUsers /\ CallsAnswered

\* A tool call that took effect is in the chat with its result, or an abort record was
\* written before the chat may run again - unless the wall clock ended the run.
EffectsRecorded ==
    phase \in {"ended", "finished"} /\ untold # {} => records # <<>> \/ "wall" \in asked

\* Every run comes to an end: whatever the model answers, however often a request is
\* refused, whether a tool returns before it is cancelled and whether the operator
\* answers the cycle card or not.
RunEnds == <>(phase = "finished")

-----------------------------------------------------------------------------
(* Statements the code does not meet; the README says how. *)

\* An abort record names every path the dropped calls may have written, or says that
\* it does not know them all.
AbortNamesWrites ==
    \A k \in DOMAIN records :
        records[k].complete =>
            \A u \in untold : /\ u.kind = "write" => u.call \in records[k].paths
                              /\ u.kind # "shell"

\* The list built from the chat passes the rules.
ListIsValid == phase = "build" => ValidList(messages)

\* A run has one abort record.
OneRecord == Len(records) <= 1

\* A call that took effect is told or recorded, however the run ended.
EffectsTold == phase = "finished" /\ untold # {} => records # <<>>
=============================================================================
