------------------------------- MODULE Phone -------------------------------
(***************************************************************************)
(* The phone transport: the agent's client and the phone's client of one   *)
(* pairing (internal/broker/client.go, device.go), the sockets they write  *)
(* to (dial.go) and, between them, the broker, which lives in another      *)
(* repository and is modelled after the stand-in the tests keep            *)
(* (device_test.go, standInBroker).                                        *)
(*                                                                         *)
(* A session is named by the number of the handshake that made it.  What   *)
(* the ciphers check is kept: a frame opens only under its own session and *)
(* as the next one sealed (Noise counts frames).  A request of the phone   *)
(* and the answer to it travel under one message id, in opposite           *)
(* directions; a unit is what the agent streams on its own.                *)
(***************************************************************************)
EXTENDS Integers, Sequences, FiniteSets, SequencesExt

CONSTANTS
    Request,      \* message ids of what the phone asks
    Unit,         \* message ids of what the agent streams
    IntentLimit,  \* deliveryIntentLimit: 64 unacknowledged a side
    PendingLimit, \* maxPendingDeliveries: 2048 retained by the agent
    HandledLimit, \* answers kept for a repeated request: 1024
    MaxCut,       \* bound: connections lost to the network
    MaxRace,      \* bound: sends that straddle a change of session
    MaxLapse      \* bound: messages whose five minutes run out

ASSUME PhoneAssumption ==
    /\ IsFiniteSet(Request) /\ IsFiniteSet(Unit) /\ Request \cap Unit = {}
    /\ {IntentLimit, PendingLimit, HandledLimit} \subseteq Nat \ {0}
    /\ {MaxCut, MaxRace, MaxLapse} \subseteq Nat

Agent == "agent"
Device == "device"
End == {Agent, Device}
Other(e) == CHOOSE o \in End : o # e

Msg == Request \cup Unit
None == "none"

(***************************************************************************)
(* A frame: its type, the message it is about, the handshake or session it *)
(* belongs to, and for a CIPHERTEXT its place among those of its session.  *)
(* PEER carries in s whether the phone is there.                           *)
(***************************************************************************)
Frame(t, id, s, n) == [t |-> t, id |-> id, s |-> s, n |-> n]
About(t, id) == Frame(t, id, 0, 0)
Shake(t, s) == Frame(t, None, s, 0)

VARIABLES
    \* both ends
    up,        \* the end holds a connection it takes for alive
    link,      \* the number of that connection, or of the last one
    sess,      \* the session in use, 0 for none
    sent,      \* frames sealed under it
    opened,    \* frames opened under it
    kept,      \* what is retained until acknowledged: [id, sess, queued]
    jobs,      \* sends begun: the connection they hold, the ids left to send
    \* the agent's reader
    phase,     \* "down", "serving", or the handshake frame it waits for
    shake,     \* the handshake under way, or the last one
    busy,      \* the request being executed
    handled,   \* the requests whose answers are remembered, oldest first
    refused,   \* queueRefused
    \* the phone's reader
    opening,   \* the handshake it has answered
    fresh,     \* the session it has confirmed and not yet published
    \* the broker and the network
    conn,      \* the broker's side of each connection is alive
    out,       \* frames on their way from an end to the broker
    in,        \* frames on their way from the broker to an end
    intents,   \* what the broker wants delivered: [by, queued], or NoIntent
    sessionUp, \* the broker saw SESSION_READY on the two connections
    cuts,      \* connections lost so far
    races,     \* sends so far that straddled a change of session
    \* history
    tried,     \* units offered and requests sent
    ran,       \* how often the agent executed each request
    got,       \* answers and units handed to the phone's application
    lapsed,    \* <<end, id>> given up: expired, declined or evicted
    strayed    \* a frame of one connection's session was put on another

endVars == <<up, link, sess, sent, opened>>
keepVars == <<kept, lapsed, strayed>>
readerVars == <<phase, shake, busy, handled, refused, ran>>
phoneVars == <<opening, fresh, got>>
brokerVars == <<conn, intents, sessionUp, cuts, races>>
wires == <<out, in>>
vars == <<endVars, keepVars, jobs, readerVars, phoneVars, brokerVars, wires, tried>>

NoIntent == [by |-> None, queued |-> FALSE]

Init ==
    /\ up = [e \in End |-> FALSE] /\ conn = up
    /\ link = [e \in End |-> 0] /\ sess = link /\ sent = link /\ opened = link
    /\ kept = [e \in End |-> << >>] /\ out = kept /\ in = kept
    /\ jobs = [e \in End |-> {}]
    /\ phase = "down" /\ shake = 0 /\ busy = None /\ handled = << >> /\ refused = FALSE
    /\ opening = 0 /\ fresh = 0
    /\ intents = [m \in Msg |-> NoIntent] /\ sessionUp = FALSE /\ cuts = 0 /\ races = 0
    /\ tried = {} /\ ran = [r \in Request |-> 0] /\ got = {} /\ lapsed = {}
    /\ strayed = FALSE

-----------------------------------------------------------------------------
(* Sockets.                                                                *)

\* A frame put on connection l of end e: an ACK goes ahead of the data that
\* waits for the writer, and what is put on a dead connection is lost.
Put(wire, e, l, f) ==
    IF ~(up[e] /\ conn[e] /\ l = link[e]) THEN wire
    ELSE [wire EXCEPT ![e] = IF f.t = "ACK" THEN <<f>> \o @ ELSE Append(@, f)]

\* The broker writes to an end that is connected.
Tell(wire, e, fs) == IF conn[e] THEN [wire EXCEPT ![e] = @ \o fs] ELSE wire

\* The broker loses end e: what is on the wire to it is lost, no session is
\* up, and the agent, which asked for presence, hears that the phone left.
Lose(e) ==
    /\ conn' = [conn EXCEPT ![e] = FALSE]
    /\ out' = [out EXCEPT ![e] = << >>]
    /\ sessionUp' = (sessionUp /\ ~conn[e])
    /\ in' = IF e = Device /\ conn[e]
             THEN Tell([in EXCEPT ![e] = << >>], Agent, <<Shake("PEER", 0)>>)
             ELSE [in EXCEPT ![e] = << >>]
    /\ UNCHANGED <<intents, cuts, races>>

\* The network drops a connection; its end has yet to notice.
Cut(e) ==
    /\ conn[e] /\ cuts < MaxCut
    /\ cuts' = cuts + 1
    /\ conn' = [conn EXCEPT ![e] = FALSE]
    /\ out' = [out EXCEPT ![e] = << >>]
    /\ sessionUp' = FALSE
    /\ in' = IF e = Device THEN Tell(in, Agent, <<Shake("PEER", 0)>>) ELSE in
    /\ UNCHANGED <<endVars, keepVars, jobs, readerVars, phoneVars, intents, races, tried>>

Holds(e, id) == \E i \in 1..Len(kept[e]) : kept[e][i].id = id

\* removePendingLocked.
Without(e, id) ==
    IF Holds(e, id)
    THEN RemoveAt(kept[e], CHOOSE i \in 1..Len(kept[e]) : kept[e][i].id = id)
    ELSE kept[e]

-----------------------------------------------------------------------------
(* Sealing and retaining, alike at both ends.                              *)

\* retainPendingLocked: a message already retained is now under this
\* session; a new one may cost the oldest that the broker has not queued,
\* and finds no place when the broker has queued them all.  The phone,
\* whose slots bound it, evicts nothing.
Evicted(e, id) ==
    IF e = Device \/ Holds(e, id) \/ Len(kept[e]) < PendingLimit THEN {}
    ELSE LET free == {i \in 1..Len(kept[e]) : ~kept[e][i].queued}
         IN  IF free = {} THEN {id}
             ELSE {kept[e][CHOOSE i \in free : \A j \in free : i <= j].id}

Retain(e, id) ==
    IF Holds(e, id)
    THEN [i \in 1..Len(kept[e]) |->
             IF kept[e][i].id = id THEN [kept[e][i] EXCEPT !.sess = sess[e]] ELSE kept[e][i]]
    ELSE IF id \in Evicted(e, id) THEN kept[e]
    ELSE Append(IF Evicted(e, id) = {} THEN kept[e]
                ELSE Without(e, CHOOSE m \in Evicted(e, id) : TRUE),
                [id |-> id, sess |-> sess[e], queued |-> FALSE])

\* Client.Send and DeviceClient.seal, with a session: the message is
\* retained, sealed as the next frame of the session and put on connection
\* l, which need no longer be the one the session was made on.
Send(e, id, l) ==
    /\ kept' = [kept EXCEPT ![e] = Retain(e, id)]
    /\ lapsed' = lapsed \cup {<<e, m>> : m \in Evicted(e, id)}
    /\ sent' = [sent EXCEPT ![e] = @ + 1]
    /\ strayed' = (strayed \/ l # link[e])
    /\ out' = Put(out, e, l, Frame("CIPHER", id, sess[e], sent[e] + 1))

\* A goroutine that holds a connection and has messages left to send; one
\* that waits counts the second queueFullWait gives the broker's RESENDs.
Job(l, s, ids, waits) == [link |-> l, sess |-> s, ids |-> ids, waits |-> waits]

\* Deliver: with a session and room, a unit is bound to the connection.
Deliver(u) ==
    /\ u \notin tried /\ up[Agent] /\ sess[Agent] # 0
    /\ Len(kept[Agent]) < IntentLimit
    /\ tried' = tried \cup {u}
    /\ jobs' = [jobs EXCEPT ![Agent] = @ \cup {Job(link[Agent], sess[Agent], <<u>>, FALSE)}]
    /\ UNCHANGED <<endVars, keepVars, readerVars, phoneVars, brokerVars, wires>>

\* DeviceClient.Send: with a link and a free slot, likewise.
Ask(r) ==
    /\ r \notin tried /\ up[Device]
    /\ Len(kept[Device]) + Cardinality({j \in jobs[Device] : ~j.waits}) < IntentLimit
    /\ tried' = tried \cup {r}
    /\ jobs' = [jobs EXCEPT ![Device] = @ \cup {Job(link[Device], sess[Device], <<r>>, FALSE)}]
    /\ UNCHANGED <<endVars, keepVars, readerVars, phoneVars, brokerVars, wires>>

\* The next message of a job is sealed and put.  On a connection that has
\* ended the write may fail, which ends the job.  The send straddles a
\* change of session when its connection is no longer the session's, or when
\* the phone has confirmed the next session and not yet published it.
Straddles(e, j) == j.link # link[e] \/ (e = Device /\ fresh # 0)

Transmit(e, j) ==
    /\ j \in jobs[e] /\ ~j.waits /\ sess[e] # 0
    /\ IF Straddles(e, j) THEN races < MaxRace /\ races' = races + 1 ELSE UNCHANGED races
    /\ Send(e, Head(j.ids), j.link)
    /\ \E rest \in {Tail(j.ids)} \cup (IF j.link = link[e] /\ up[e] THEN {} ELSE {<< >>}) :
          jobs' = [jobs EXCEPT ![e] = (@ \ {j})
                      \cup (IF rest = << >> THEN {} ELSE {[j EXCEPT !.ids = rest]})]
    /\ UNCHANGED <<up, link, sess, opened, readerVars, phoneVars, conn, intents, sessionUp, cuts,
                   in, tried>>

\* With no session the send fails.  What was never sealed was refused to its
\* caller, who may try again.
SendFails(e, j) ==
    /\ j \in jobs[e] /\ ~j.waits /\ sess[e] = 0
    /\ jobs' = [jobs EXCEPT ![e] = @ \ {j}]
    /\ tried' = IF Holds(e, Head(j.ids)) \/ <<e, Head(j.ids)>> \in lapsed
                THEN tried ELSE tried \ {Head(j.ids)}
    /\ UNCHANGED <<endVars, keepVars, readerVars, phoneVars, brokerVars, wires>>

\* sendRefused and resendStale, a second after SESSION_READY: what is still
\* retained under an earlier session is sent again, oldest first.
Stale(e, s) ==
    LET older == {i \in 1..Len(kept[e]) : kept[e][i].sess # s}
    IN  {[k \in DOMAIN at |-> kept[e][at[k]].id] :
            at \in {at \in SetToSeqs(older) : \A k, l \in DOMAIN at : k < l => at[k] < at[l]}}

SendAgain(e, j) ==
    /\ j \in jobs[e] /\ j.waits
    /\ \E ids \in IF sess[e] = j.sess THEN Stale(e, j.sess) ELSE {<< >>} :
           jobs' = [jobs EXCEPT ![e] = (@ \ {j})
                       \cup (IF ids = << >> THEN {} ELSE {Job(j.link, j.sess, ids, FALSE)})]
    /\ UNCHANGED <<endVars, keepVars, readerVars, phoneVars, brokerVars, wires, tried>>

-----------------------------------------------------------------------------
(* The agent: Run, once, serve, establish and readHandshake.               *)

\* No frame of a handshake is on the way: relayed and answered in the tenth
\* of a second it takes, it is gone when a timer of a second or more fires.
ShakeFrame == {"INIT", "RESP", "FINISH", "READY"}
Quiet ==
    \A e \in End :
        /\ \A i \in 1..Len(out[e]) : out[e][i].t \notin ShakeFrame
        /\ \A i \in 1..Len(in[e]) : in[e][i].t \notin ShakeFrame

\* Run dials after a backoff of at least a second.
Dial ==
    /\ phase = "down" /\ Quiet
    /\ phase' = "serving"
    /\ up' = [up EXCEPT ![Agent] = TRUE]
    /\ link' = [link EXCEPT ![Agent] = @ + 1]
    /\ conn' = [conn EXCEPT ![Agent] = TRUE]
    /\ sessionUp' = FALSE
    /\ out' = [out EXCEPT ![Agent] = <<Shake("QUERY", 0)>>]
    /\ in' = [in EXCEPT ![Agent] = << >>]
    /\ UNCHANGED <<sess, sent, opened, keepVars, jobs, shake, busy, handled, refused, ran,
                   phoneVars, intents, cuts, races, tried>>

\* A mutant of AgentDrops: the retained deliveries go with the connection.
AgentDropsAll ==
    /\ Lose(Agent)
    /\ phase' = "down"
    /\ up' = [up EXCEPT ![Agent] = FALSE]
    /\ sess' = [sess EXCEPT ![Agent] = 0]
    /\ kept' = [kept EXCEPT ![Agent] = << >>]
    /\ UNCHANGED <<link, sent, opened, lapsed, strayed, jobs, shake, busy, handled, refused, ran,
                   phoneVars, tried>>

\* once returns with an error: the session and the connection are gone, and
\* Run dials again after its backoff.
AgentDrops ==
    /\ Lose(Agent)
    /\ phase' = "down"
    /\ up' = [up EXCEPT ![Agent] = FALSE]
    /\ sess' = [sess EXCEPT ![Agent] = 0]
    /\ UNCHANGED <<link, sent, opened, keepVars, jobs, shake, busy, handled, refused, ran,
                   phoneVars, tried>>

AgentNotices == up[Agent] /\ ~conn[Agent] /\ busy = None /\ AgentDrops

Shaking == phase \in {"RESP", "READY"}

\* The frame the agent's reader takes next.
Reads(t) == up[Agent] /\ busy = None /\ in[Agent] # << >> /\ Head(in[Agent]).t = t
Arrived == Head(in[Agent])
Read == in' = [in EXCEPT ![Agent] = Tail(@)]

\* PEER: the session ends, and with the phone there a handshake begins.
\* During a handshake it is held and then ignored.
AgentPeer ==
    /\ Reads("PEER") /\ Read
    /\ IF Shaking THEN UNCHANGED <<sess, phase, shake, out>>
       ELSE /\ sess' = [sess EXCEPT ![Agent] = 0]
            /\ IF Arrived.s = 0 THEN UNCHANGED <<phase, shake, out>>
               ELSE /\ phase' = "RESP" /\ shake' = shake + 1
                    /\ out' = Put(out, Agent, link[Agent], Shake("INIT", shake + 1))
    /\ UNCHANGED <<up, link, sent, opened, keepVars, jobs, busy, handled, refused, ran,
                   phoneVars, brokerVars, tried>>

\* The handshake's own frames, when they are the ones waited for.
AgentShake ==
    /\ Reads(phase) /\ Shaking /\ Arrived.s = shake /\ Read
    /\ IF phase = "RESP"
       THEN /\ phase' = "READY"
            /\ out' = Put(out, Agent, link[Agent], Shake("FINISH", shake))
            /\ UNCHANGED <<sess, sent, opened, jobs, refused>>
       ELSE /\ phase' = "serving"
            /\ sess' = [sess EXCEPT ![Agent] = shake]
            /\ sent' = [sent EXCEPT ![Agent] = 0]
            /\ opened' = [opened EXCEPT ![Agent] = 0]
            /\ refused' = FALSE
            /\ jobs' = IF refused
                       THEN [jobs EXCEPT ![Agent] = @ \cup {Job(link[Agent], shake, << >>, TRUE)}]
                       ELSE jobs
            /\ UNCHANGED out
    /\ UNCHANGED <<up, link, keepVars, shake, busy, handled, ran, phoneVars, brokerVars, tried>>

\* A frame that has no place here ends the connection: a handshake frame out
\* of turn, a CIPHERTEXT that does not open.
Opens(e, f) == f.s = sess[e] /\ sess[e] # 0 /\ f.n = opened[e] + 1
AgentRejects ==
    /\ \/ \E t \in {"RESP", "READY"} : Reads(t) /\ ~(t = phase /\ Arrived.s = shake)
       \/ Reads("CIPHER") /\ ~Shaking /\ ~Opens(Agent, Arrived)
    /\ AgentDrops

\* A mutant of HandshakeLimit: only the wait for SESSION_RESPONSE is bounded.
HandshakeLimitFirst == phase = "RESP" /\ Quiet /\ AgentDrops

\* SESSION_INIT to SESSION_READY is bounded at five seconds.
HandshakeLimit == Shaking /\ Quiet /\ AgentDrops

\* The broker has nobody to hand SESSION_INIT to (errOpeningUndeliverable);
\* any other QUEUED marks its message.
AgentQueued ==
    /\ Reads("QUEUED") /\ Read
    /\ phase' = IF Shaking /\ Arrived.s = shake THEN "serving" ELSE phase
    /\ kept' = [kept EXCEPT ![Agent] =
                  [i \in 1..Len(@) |->
                     IF @[i].id = Arrived.id THEN [@[i] EXCEPT !.queued = TRUE] ELSE @[i]]]
    /\ UNCHANGED <<endVars, lapsed, strayed, jobs, shake, busy, handled, refused, ran, phoneVars,
                   brokerVars, out, tried>>

\* deliver, up to the ACK, which goes out before the request is executed.
\* During a handshake the frame is left unacknowledged.
AgentCipher ==
    /\ Reads("CIPHER") /\ (Shaking \/ Opens(Agent, Arrived)) /\ Read
    /\ IF Shaking THEN UNCHANGED <<opened, busy, out>>
       ELSE /\ opened' = [opened EXCEPT ![Agent] = @ + 1]
            /\ busy' = Arrived.id
            /\ out' = Put(out, Agent, link[Agent], About("ACK", Arrived.id))
    /\ UNCHANGED <<up, link, sess, sent, keepVars, jobs, phase, shake, handled, refused, ran,
                   phoneVars, brokerVars, tried>>

\* A mutant of Remember: an answer is not remembered when the link is gone.
RememberConnected(r) == IF conn[Agent] THEN Append(handled, r) ELSE handled

\* The rest of deliver: a request not remembered is executed, and its answer
\* is sent, or sent again, under the request's id.
Remember(r) == LET all == Append(handled, r)
               IN  IF Len(all) > HandledLimit THEN Tail(all) ELSE all

AgentAnswers ==
    /\ busy # None
    /\ busy' = None
    /\ IF Contains(handled, busy) THEN UNCHANGED <<handled, ran>>
       ELSE /\ ran' = [ran EXCEPT ![busy] = @ + 1]
            /\ handled' = Remember(busy)
    /\ Send(Agent, busy, link[Agent])
    /\ UNCHANGED <<up, link, sess, opened, jobs, phase, shake, refused, phoneVars, brokerVars,
                   in, tried>>

\* ACK and DELIVERY_EXPIRED settle a delivery.
AgentSettles ==
    /\ \E t \in {"ACK", "EXPIRED"} : Reads(t)
    /\ Read
    /\ kept' = [kept EXCEPT ![Agent] = Without(Agent, Arrived.id)]
    /\ lapsed' = IF Arrived.t = "EXPIRED" /\ Holds(Agent, Arrived.id)
                 THEN lapsed \cup {<<Agent, Arrived.id>>} ELSE lapsed
    /\ UNCHANGED <<endVars, strayed, jobs, readerVars, phoneVars, brokerVars, out, tried>>

\* RESEND, which follows SESSION_READY: under the session of now, or declined;
\* left alone in a handshake.
AgentResend ==
    /\ Reads("RESEND") /\ Read
    /\ \/ /\ Shaking
          /\ UNCHANGED <<keepVars, sent, out>>
       \/ /\ ~Shaking /\ ~Holds(Agent, Arrived.id)
          /\ out' = Put(out, Agent, link[Agent], About("DECLINED", Arrived.id))
          /\ UNCHANGED <<keepVars, sent>>
       \/ /\ ~Shaking /\ Holds(Agent, Arrived.id) /\ sess[Agent] # 0
          /\ Send(Agent, Arrived.id, link[Agent])
    /\ UNCHANGED <<up, link, sess, opened, jobs, readerVars, phoneVars, brokerVars, tried>>

\* A nonfatal ERROR queue_full.
AgentFull ==
    /\ Reads("FULL") /\ Read
    /\ refused' = TRUE
    /\ UNCHANGED <<endVars, keepVars, jobs, phase, shake, busy, handled, ran, phoneVars,
                   brokerVars, out, tried>>

-----------------------------------------------------------------------------
(* The phone: Connect and serve.                                           *)

Connect ==
    /\ ~up[Device]
    /\ up' = [up EXCEPT ![Device] = TRUE]
    /\ link' = [link EXCEPT ![Device] = @ + 1]
    /\ conn' = [conn EXCEPT ![Device] = TRUE]
    /\ sessionUp' = FALSE
    /\ out' = [out EXCEPT ![Device] = << >>]
    /\ in' = Tell([in EXCEPT ![Device] = << >>], Agent, <<Shake("PEER", 1)>>)
    /\ UNCHANGED <<sess, sent, opened, keepVars, jobs, readerVars, phoneVars, intents, cuts, races,
                   tried>>

DeviceDrops ==
    /\ Lose(Device)
    /\ up' = [up EXCEPT ![Device] = FALSE]
    /\ sess' = [sess EXCEPT ![Device] = 0]
    /\ opening' = 0 /\ fresh' = 0
    /\ UNCHANGED <<link, sent, opened, keepVars, jobs, readerVars, got, tried>>

DeviceNotices == up[Device] /\ ~conn[Device] /\ DeviceDrops

DeviceReads(t) == up[Device] /\ fresh = 0 /\ in[Device] # << >> /\ Head(in[Device]).t = t
DeviceArrived == Head(in[Device])
DeviceRead == in' = [in EXCEPT ![Device] = Tail(@)]

DeviceInit ==
    /\ DeviceReads("INIT") /\ DeviceRead
    /\ opening' = DeviceArrived.s
    /\ out' = Put(out, Device, link[Device], Shake("RESP", DeviceArrived.s))
    /\ UNCHANGED <<endVars, keepVars, jobs, readerVars, fresh, got, brokerVars, tried>>

\* SESSION_READY is queued first, the session published after.
DeviceFinish ==
    /\ DeviceReads("FINISH") /\ opening # 0 /\ DeviceArrived.s = opening /\ DeviceRead
    /\ fresh' = opening /\ opening' = 0
    /\ out' = Put(out, Device, link[Device], Shake("READY", opening))
    /\ UNCHANGED <<endVars, keepVars, jobs, readerVars, got, brokerVars, tried>>

\* A mutant of DevicePublishes: nothing is sent again.
DevicePublishesOnly ==
    /\ fresh # 0
    /\ fresh' = 0
    /\ sess' = [sess EXCEPT ![Device] = fresh]
    /\ sent' = [sent EXCEPT ![Device] = 0]
    /\ opened' = [opened EXCEPT ![Device] = 0]
    /\ UNCHANGED <<up, link, keepVars, jobs, readerVars, opening, got, brokerVars, wires, tried>>

\* The session is in use, and resendStale begins its wait.
DevicePublishes ==
    /\ fresh # 0
    /\ fresh' = 0
    /\ sess' = [sess EXCEPT ![Device] = fresh]
    /\ sent' = [sent EXCEPT ![Device] = 0]
    /\ opened' = [opened EXCEPT ![Device] = 0]
    /\ jobs' = [jobs EXCEPT ![Device] = @ \cup {Job(link[Device], fresh, << >>, TRUE)}]
    /\ UNCHANGED <<up, link, keepVars, readerVars, opening, got, brokerVars, wires, tried>>

DeviceRejects ==
    /\ \/ DeviceReads("FINISH") /\ (opening = 0 \/ DeviceArrived.s # opening)
       \/ DeviceReads("CIPHER") /\ ~Opens(Device, DeviceArrived)
    /\ DeviceDrops

\* An opened message goes to the application's queue, and only then is it
\* acknowledged.
DeviceCipher ==
    /\ DeviceReads("CIPHER") /\ Opens(Device, DeviceArrived) /\ DeviceRead
    /\ opened' = [opened EXCEPT ![Device] = @ + 1]
    /\ got' = got \cup {DeviceArrived.id}
    /\ out' = Put(out, Device, link[Device], About("ACK", DeviceArrived.id))
    /\ UNCHANGED <<up, link, sess, sent, keepVars, jobs, readerVars, opening, fresh, brokerVars,
                   tried>>

\* QUEUED and queue_full are only reported.
DeviceSettles ==
    /\ \E t \in {"ACK", "EXPIRED", "QUEUED", "FULL"} : DeviceReads(t)
    /\ DeviceRead
    /\ LET settled == DeviceArrived.t \in {"ACK", "EXPIRED"}
           id == DeviceArrived.id
       IN  /\ kept' = IF settled THEN [kept EXCEPT ![Device] = Without(Device, id)] ELSE kept
           /\ lapsed' = IF DeviceArrived.t = "EXPIRED" /\ Holds(Device, id)
                        THEN lapsed \cup {<<Device, id>>} ELSE lapsed
    /\ UNCHANGED <<endVars, strayed, jobs, readerVars, phoneVars, brokerVars, out, tried>>

DeviceResend ==
    /\ DeviceReads("RESEND") /\ DeviceRead
    /\ \/ /\ ~Holds(Device, DeviceArrived.id)
          /\ out' = Put(out, Device, link[Device], About("DECLINED", DeviceArrived.id))
          /\ UNCHANGED <<keepVars, sent>>
       \/ /\ Holds(Device, DeviceArrived.id) /\ sess[Device] # 0
          /\ Send(Device, DeviceArrived.id, link[Device])
    /\ UNCHANGED <<up, link, sess, opened, jobs, readerVars, phoneVars, brokerVars, tried>>

\* A PING finds an opening older than the handshake limit, which the agent
\* has left by then.
DeviceForgets ==
    /\ up[Device] /\ fresh = 0 /\ opening # 0 /\ ~(Shaking /\ shake = opening)
    /\ opening' = 0
    /\ UNCHANGED <<endVars, keepVars, jobs, readerVars, fresh, got, brokerVars, wires, tried>>

\* Nothing is on the wires, as when five minutes have passed.
Still == \A e \in End : out[e] = << >> /\ in[e] = << >>

\* expireLocked: five minutes after it was first sealed.
DeviceExpires(id) ==
    /\ up[Device] /\ Still /\ Holds(Device, id) /\ Cardinality(lapsed) < MaxLapse
    /\ kept' = [kept EXCEPT ![Device] = Without(Device, id)]
    /\ lapsed' = lapsed \cup {<<Device, id>>}
    /\ UNCHANGED <<endVars, strayed, jobs, readerVars, phoneVars, brokerVars, wires, tried>>

-----------------------------------------------------------------------------
(* The broker, after the tests' stand-in.                                  *)

Takes(e, ts) == out[e] # << >> /\ Head(out[e]).t \in ts
Taken(e) == Head(out[e])
Take(e) == out' = [out EXCEPT ![e] = Tail(@)]

BrokerQuery ==
    /\ Takes(Agent, {"QUERY"}) /\ Take(Agent)
    /\ in' = Tell(in, Agent, <<Shake("PEER", IF conn[Device] THEN 1 ELSE 0)>>)
    /\ UNCHANGED <<endVars, keepVars, jobs, readerVars, phoneVars, brokerVars, tried>>

\* What of end o is not acknowledged, asked for again in the order a map is
\* walked.
Asked(o) ==
    {[i \in DOMAIN ids |-> About("RESEND", ids[i])] :
        ids \in SetToSeqs({m \in Msg : intents[m].by = o})}

\* A handshake frame is relayed to a phone or an agent that is there; an
\* INIT for an absent phone may be answered.  SESSION_READY puts the session
\* up and asks for everything not acknowledged again.
BrokerShake(e) ==
    /\ Takes(e, ShakeFrame) /\ Take(e)
    /\ LET f == Taken(e)
           ready == f.t = "READY" /\ conn[Other(e)]
           relayed == Tell(in, Other(e), <<f>>)
       IN  /\ \/ ~ready /\ in' = relayed
              \/ /\ ready
                 /\ \E again \in Asked(Agent), more \in Asked(Device) :
                       in' = Tell(Tell(relayed, Agent, again), Device, more)
              \/ /\ f.t = "INIT" /\ ~conn[Device]
                 /\ in' = Tell(in, Agent, <<Shake("QUEUED", f.s)>>)
           /\ sessionUp' = (sessionUp \/ ready)
           /\ intents' = IF ready THEN [m \in Msg |-> [intents[m] EXCEPT !.queued = FALSE]]
                         ELSE intents
    /\ UNCHANGED <<endVars, keepVars, jobs, readerVars, phoneVars, conn, cuts, races, tried>>

\* A CIPHERTEXT is relayed, or kept as an intent when the far end has no
\* session, or refused when there are too many of those.
BrokerCipher(e) ==
    /\ Takes(e, {"CIPHER"}) /\ Take(e)
    /\ LET f == Taken(e)
           reachable == conn[Other(e)] /\ sessionUp
           full == Cardinality({m \in Msg : intents[m].queued}) >= IntentLimit
       IN  /\ in' = IF reachable THEN Tell(in, Other(e), <<f>>)
                    ELSE Tell(in, e, <<About(IF full THEN "FULL" ELSE "QUEUED", f.id)>>)
           /\ intents' = IF ~reachable /\ full THEN intents
                         ELSE [intents EXCEPT ![f.id] = [by |-> e, queued |-> ~reachable]]
    /\ UNCHANGED <<endVars, keepVars, jobs, readerVars, phoneVars, conn, sessionUp, cuts, races,
                   tried>>

BrokerAck(e) ==
    /\ Takes(e, {"ACK"}) /\ Take(e)
    /\ intents' = [intents EXCEPT ![Taken(e).id] = NoIntent]
    /\ in' = Tell(in, Other(e), <<Taken(e)>>)
    /\ UNCHANGED <<endVars, keepVars, jobs, readerVars, phoneVars, conn, sessionUp, cuts, races,
                   tried>>

BrokerDeclined(e) ==
    /\ Takes(e, {"DECLINED"}) /\ Take(e)
    /\ LET id == Taken(e).id
           own == intents[id].by = e
       IN  /\ intents' = IF own THEN [intents EXCEPT ![id] = NoIntent] ELSE intents
           /\ in' = IF own THEN Tell(in, Other(e), <<About("EXPIRED", id)>>) ELSE in
    /\ UNCHANGED <<endVars, keepVars, jobs, readerVars, phoneVars, conn, sessionUp, cuts, races,
                   tried>>

BrokerExpires(id) ==
    /\ Still /\ intents[id] # NoIntent /\ Cardinality(lapsed) < MaxLapse
    /\ intents' = [intents EXCEPT ![id] = NoIntent]
    /\ in' = Tell(in, intents[id].by, <<About("EXPIRED", id)>>)
    /\ lapsed' = lapsed \cup {<<intents[id].by, id>>}
    /\ UNCHANGED <<endVars, kept, strayed, jobs, readerVars, phoneVars, conn, sessionUp, cuts, races,
                   out, tried>>

-----------------------------------------------------------------------------
AgentStep ==
    \/ Dial \/ AgentNotices \/ AgentPeer \/ AgentShake \/ AgentRejects \/ AgentQueued
    \/ AgentCipher \/ AgentAnswers \/ AgentSettles \/ AgentResend \/ AgentFull

DeviceStep ==
    \/ Connect \/ DeviceNotices \/ DeviceInit \/ DeviceFinish \/ DevicePublishes
    \/ DeviceRejects \/ DeviceCipher \/ DeviceSettles \/ DeviceResend

BrokerStep ==
    \/ BrokerQuery
    \/ \E e \in End : BrokerShake(e) \/ BrokerCipher(e) \/ BrokerAck(e) \/ BrokerDeclined(e)

JobStep(e) == \E j \in jobs[e] : Transmit(e, j) \/ SendFails(e, j) \/ SendAgain(e, j)

Next ==
    \/ AgentStep \/ HandshakeLimit \/ DeviceStep \/ BrokerStep
    \/ \E e \in End : JobStep(e) \/ Cut(e)
    \/ \E u \in Unit : Deliver(u)
    \/ \E r \in Request : Ask(r)
    \/ DeviceForgets
    \/ \E id \in Msg : DeviceExpires(id) \/ BrokerExpires(id)

Spec == Init /\ [][Next]_vars

(***************************************************************************)
(* Both clients read, write and dial for as long as they run, the broker   *)
(* serves, a timer fires.  Nothing makes the phone ask or the agent have a *)
(* unit, and no connection need be lost.                                   *)
(***************************************************************************)
FairSpec ==
    /\ Spec
    /\ WF_vars(AgentStep) /\ WF_vars(HandshakeLimit) /\ WF_vars(DeviceStep)
    /\ WF_vars(BrokerStep) /\ \A e \in End : WF_vars(JobStep(e))

-----------------------------------------------------------------------------
TypeOK ==
    /\ up \in [End -> BOOLEAN] /\ conn \in [End -> BOOLEAN]
    /\ \A e \in End : /\ {link[e], sess[e], sent[e], opened[e]} \subseteq Nat
                      /\ \A i, j \in 1..Len(kept[e]) : kept[e][i].id = kept[e][j].id => i = j
    /\ phase \in {"down", "serving", "RESP", "READY"}
    /\ busy \in Request \cup {None}
    /\ Len(handled) <= HandledLimit

\* A request is executed once, however often the phone, the broker and the
\* network bring it (client.go, deliver: "executes it at most once"): a
\* repeated one finds its answer remembered.
ExecutedOnce == \A r \in Request : ran[r] <= 1

\* The answer to an executed request has reached the phone's application, is
\* still retained by the agent, or was given up on the broker's word or for
\* room (client.go, Send: "retains it until it is acknowledged"): no loss of
\* a session or a connection drops it.
AnswerKept ==
    \A r \in Request :
        ran[r] > 0 => r \in got \/ Holds(Agent, r) \/ <<Agent, r>> \in lapsed

\* Once connections are no longer lost, the two ends come to one session and
\* stay in it (client.go, handshakeLimit: "a phone that dropped
\* mid-handshake is never left at holding").
PhoneConnected ==
    /\ phase = "serving" /\ sess[Agent] # 0
    /\ sess[Device] = sess[Agent]
PhoneReconnects == <>[]PhoneConnected

\* What the phone has sealed is executed, or the phone gives it up: over any
\* loss it is sent again (device.go, resendStale).  A send that takes its
\* connection before a reconnect and its session after it is the exception:
\* see RequestAlwaysRuns.
RequestRuns ==
    \A r \in Request :
        Holds(Device, r) ~> (ran[r] > 0 \/ <<Device, r>> \in lapsed \/ strayed)

\* The same without the exception, which the code does not keep: the frame
\* goes to the connection that has ended, and since it is retained under the
\* session of now it is not stale (device.go, seal and resendStale).
RequestAlwaysRuns ==
    \A r \in Request :
        Holds(Device, r) ~> (ran[r] > 0 \/ <<Device, r>> \in lapsed)

\* Deliver with no room "waits for an ACK or an expiry, and returns an error
\* if the session ends meanwhile" (client.go, Deliver): the wait ends.
RoomReturns ==
    (sess[Agent] # 0 /\ Len(kept[Agent]) >= IntentLimit)
        ~> (sess[Agent] = 0 \/ Len(kept[Agent]) < IntentLimit)
=============================================================================
