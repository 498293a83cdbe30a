------------------------------ MODULE RoomQueue ------------------------------
(***************************************************************************)
(* The queue between Controller.Publish and Room.Start, in both of its     *)
(* implementations.                                                        *)
(*                                                                         *)
(* Redis: PUBLISH with the retries of go-redis; one connection for each    *)
(* subscription with a reading goroutine and a buffered channel.  Memory:  *)
(* one unbuffered channel for everybody.  Behind both come the two         *)
(* goroutines of Controller.Subscribe, "funnel" and "relay", and           *)
(* room.inbound.  Which implementation serves, who belongs to which room   *)
(* and the bounds are fixed at the start.                                  *)
(***************************************************************************)
EXTENDS Naturals, Sequences, FiniteSets, Functions

CONSTANTS
    Senders,   \* threads that call queue.Publish
    Subs,      \* subscriptions, each with its funnel and its room
    Rooms,     \* room IDs
    Settings,  \* what TLC is to consider, see Setting
    MaxSent,   \* bound: messages that a sender sends
    MaxLog,    \* bound: length of the log
    ChanSize,  \* go-redis: size of a subscription's channel
    Hurried    \* senders whose context.Context has a deadline

\* The implementation; the room of each sender and subscription; go-redis's
\* MaxRetries; bounds: messages of each sender, breaks of each connection.
Setting == [backend : {"redis", "memory"}, room : [Senders \cup Subs -> Rooms],
            retries : Nat, budget : [Senders -> 0 .. MaxSent], breaks : [Subs -> Nat]]

\* A process in memory creates its rooms, and one subscription for each.
ASSUME SettingsAssumption ==
    \A c \in Settings :
        /\ c \in Setting
        /\ c.backend = "memory" => \A s, t \in Subs : c.room[s] = c.room[t] => s = t
ASSUME SendersAssumption == Senders \cap Subs = {} /\ Hurried \subseteq Senders
ASSUME SizesAssumption == MaxSent \in Nat /\ MaxLog \in Nat /\ ChanSize \in Nat \ {0}

Message == [from : Senders, n : 1 .. MaxSent]

VARIABLES
    setting,  \* the setting at hand
    \* the callers of Publish
    call,     \* idle or waiting
    sent,     \* messages the sender has begun to publish
    try,      \* the attempt it waits for
    answer,   \* whether the reply to that attempt has arrived
    \* Redis
    wire,     \* attempts that Redis has not executed; it may never do so
    log,      \* messages in the order they were accepted
    \* a subscription
    link,     \* none, up or down
    socket,   \* places of the log on the connection, one of them in the reader's hand
    channel,  \* the buffered channel of go-redis
    funnel,   \* the place fn holds; 0: none
    relay,    \* the place the second goroutine of Subscribe holds
    \* history
    got,      \* places sent to room.inbound
    missed,   \* places lost: no connection, a broken one, or a full channel
    gaveUp,   \* messages of which the client gave up an attempt
    breaks    \* its broken connections

callVars == <<call, sent, try, answer, gaveUp>>
pipeVars == <<channel, funnel, relay, got>>
linkVars == <<link, socket, missed, breaks>>
vars == <<setting, callVars, wire, log, linkVars, pipeVars>>

backend == setting.backend
room    == setting.room
MaxRetries == setting.retries
Nothing == 0  \* log places count from 1

\* One execution of a command by the client, on a connection of its own.
Attempt == [from : Senders, n : 1 .. MaxSent, try : 0 .. MaxRetries]

Init ==
    /\ setting \in Settings
    /\ call   = [p \in Senders |-> "idle"]
    /\ sent   = [p \in Senders |-> 0]
    /\ try    = [p \in Senders |-> 0]
    /\ answer = [p \in Senders |-> FALSE]
    /\ wire = {} /\ log = <<>>
    /\ link    = [s \in Subs |-> "none"]
    /\ socket  = [s \in Subs |-> <<>>]
    /\ channel = [s \in Subs |-> <<>>]
    /\ funnel  = [s \in Subs |-> Nothing]
    /\ relay   = [s \in Subs |-> Nothing]
    /\ got     = [s \in Subs |-> {}]
    /\ missed  = [s \in Subs |-> {}]
    /\ gaveUp = {}
    /\ breaks = [s \in Subs |-> 0]

-----------------------------------------------------------------------------
(* Publish                                                                 *)

Msg(p) == [from |-> p, n |-> sent[p]]
Current(p) == [from |-> p, n |-> sent[p], try |-> try[p]]

\* Mutant: the client writes the command and does not wait for its answer.
PublishAndForget(p) ==
    /\ call[p] = "idle" /\ sent[p] < setting.budget[p]
    /\ sent' = [sent EXCEPT ![p] = @ + 1]
    /\ wire' = wire \cup {[from |-> p, n |-> sent[p] + 1, try |-> 0]}
    /\ UNCHANGED <<setting, call, try, answer, gaveUp, log, linkVars, pipeVars>>

\* The call begins; go-redis writes its first attempt to a connection.
Publish(p) ==
    /\ call[p] = "idle" /\ sent[p] < setting.budget[p]
    /\ call'   = [call EXCEPT ![p] = "waiting"]
    /\ sent'   = [sent EXCEPT ![p] = @ + 1]
    /\ try'    = [try EXCEPT ![p] = 0]
    /\ answer' = [answer EXCEPT ![p] = FALSE]
    /\ wire'   = IF backend = "redis"
                 THEN wire \cup {[from |-> p, n |-> sent[p] + 1, try |-> 0]}
                 ELSE wire
    /\ UNCHANGED <<setting, gaveUp, log, linkVars, pipeVars>>

\* The subscriptions to the topic of p's room.
Audience(p) == {s \in Subs : room[s] = room[p]}

\* Redis executes an attempt: the message goes to the connections that are
\* subscribed, and the answer to the client, if it still waits for this one.
Execute(a) ==
    LET i == Len(log) + 1 IN
    /\ a \in wire /\ Len(log) < MaxLog
    /\ wire' = wire \ {a}
    /\ log'  = Append(log, [from |-> a.from, n |-> a.n])
    /\ answer' = [answer EXCEPT ![a.from] =
                    @ \/ (call[a.from] = "waiting" /\ Current(a.from) = a)]
    /\ socket' = [s \in Subs |-> IF s \in Audience(a.from) /\ link[s] = "up"
                                 THEN Append(socket[s], i) ELSE socket[s]]
    /\ missed' = [s \in Subs |-> IF s \in Audience(a.from) /\ link[s] # "up"
                                 THEN missed[s] \cup {i} ELSE missed[s]]
    /\ UNCHANGED <<setting, call, sent, try, gaveUp, link, breaks, pipeVars>>

Return(p) ==
    /\ call[p] = "waiting" /\ answer[p]
    /\ call' = [call EXCEPT ![p] = "idle"]
    /\ UNCHANGED <<setting, sent, try, answer, gaveUp, wire, log, linkVars, pipeVars>>

\* Mutants: one retry too many; the count of retries starts again.
GiveUpOnceMore(p) ==
    /\ backend = "redis" /\ call[p] = "waiting"
    /\ try[p] <= MaxRetries
    /\ gaveUp' = gaveUp \cup {Msg(p)}
    /\ try'    = [try EXCEPT ![p] = @ + 1]
    /\ answer' = [answer EXCEPT ![p] = FALSE]
    /\ wire'   = wire \cup {[Current(p) EXCEPT !.try = @ + 1]}
    /\ UNCHANGED <<setting, call, sent, log, linkVars, pipeVars>>
GiveUpAlways(p) ==
    /\ backend = "redis" /\ call[p] = "waiting"
    /\ gaveUp' = gaveUp \cup {Msg(p)}
    /\ try'    = [try EXCEPT ![p] = (@ + 1) % (MaxRetries + 1)]
    /\ answer' = [answer EXCEPT ![p] = FALSE]
    /\ wire'   = wire \cup {Current(p)}
    /\ UNCHANGED <<setting, call, sent, log, linkVars, pipeVars>>

\* The reply does not come within ReadTimeout, or the connection breaks: the
\* client closes it and sends the command again on another.  The first
\* attempt may still be on its way.
GiveUp(p) ==
    /\ backend = "redis" /\ call[p] = "waiting"
    /\ try[p] < MaxRetries
    /\ gaveUp' = gaveUp \cup {Msg(p)}
    /\ try'    = [try EXCEPT ![p] = @ + 1]
    /\ answer' = [answer EXCEPT ![p] = FALSE]
    /\ wire'   = wire \cup {[Current(p) EXCEPT !.try = @ + 1]}
    /\ UNCHANGED <<setting, call, sent, log, linkVars, pipeVars>>

\* Publish returns an error: its context is done; or, with Redis, no retry is
\* left, or the error is not one of those that are tried again.
PublishFails(p) ==
    /\ call[p] = "waiting"
    /\ p \in Hurried \/ backend = "redis"
    /\ call'   = [call EXCEPT ![p] = "idle"]
    /\ gaveUp' = gaveUp \cup {Msg(p)}
    /\ UNCHANGED <<setting, sent, try, answer, wire, log, linkVars, pipeVars>>

\* Memory: the sender meets any funnel; messages carry their room, and
\* nobody looks at it.
HandOver(p, s) ==
    /\ backend = "memory" /\ call[p] = "waiting" /\ Len(log) < MaxLog
    /\ link[s] = "up" /\ funnel[s] = Nothing
    /\ call'   = [call EXCEPT ![p] = "idle"]
    /\ log'    = Append(log, Msg(p))
    /\ funnel' = [funnel EXCEPT ![s] = Len(log) + 1]
    /\ UNCHANGED <<setting, sent, try, answer, gaveUp, wire, linkVars>>
    /\ UNCHANGED <<channel, relay, got>>

-----------------------------------------------------------------------------
(* The connection of a subscription                                        *)

\* Subscribe has the confirmation of Redis and has started its goroutines.
Subscribe(s) ==
    /\ link[s] = "none"
    /\ link' = [link EXCEPT ![s] = "up"]
    /\ UNCHANGED <<setting, callVars, wire, log, socket, missed, breaks, pipeVars>>

\* The connection breaks, or goes unanswered when the health check pings.
\* What is on it is lost; what the reader has in its hand may not be.
Break(s) ==
    /\ backend = "redis" /\ link[s] = "up" /\ breaks[s] < setting.breaks[s]
    /\ \E hand \in 0 .. 1 :
         /\ hand <= Len(socket[s])
         /\ socket' = [socket EXCEPT ![s] = SubSeq(@, 1, hand)]
         /\ missed' = [missed EXCEPT ![s] =
                         @ \cup {socket[s][k] : k \in hand + 1 .. Len(socket[s])}]
    /\ link'   = [link EXCEPT ![s] = "down"]
    /\ breaks' = [breaks EXCEPT ![s] = @ + 1]
    /\ UNCHANGED <<setting, callVars, wire, log, pipeVars>>

\* Receive finds no connection, makes one and subscribes again.
Resubscribe(s) ==
    /\ link[s] = "down"
    /\ link' = [link EXCEPT ![s] = "up"]
    /\ UNCHANGED <<setting, callVars, wire, log, socket, missed, breaks, pipeVars>>

-----------------------------------------------------------------------------
(* The goroutines of a subscription                                        *)

\* The reading goroutine of go-redis: Receive, then send to the channel ...
Fill(s) ==
    /\ socket[s] # <<>> /\ Len(channel[s]) < ChanSize
    /\ channel' = [channel EXCEPT ![s] = Append(@, Head(socket[s]))]
    /\ socket'  = [socket EXCEPT ![s] = Tail(@)]
    /\ UNCHANGED <<setting, callVars, wire, log, link, missed, breaks>>
    /\ UNCHANGED <<funnel, relay, got>>

\* Mutants: the reader drops the oldest message of a full channel, without a
\* word; it keeps a message that does not fit for later.
DropOldest(s) ==
    /\ socket[s] # <<>> /\ Len(channel[s]) = ChanSize
    /\ channel' = [channel EXCEPT ![s] = Append(Tail(@), Head(socket[s]))]
    /\ socket'  = [socket EXCEPT ![s] = Tail(@)]
    /\ UNCHANGED <<setting, callVars, wire, log, link, missed, breaks>>
    /\ UNCHANGED <<funnel, relay, got>>
DropLater(s) ==
    /\ socket[s] # <<>> /\ Len(channel[s]) = ChanSize
    /\ socket' = [socket EXCEPT ![s] = Append(Tail(@), Head(@))]
    /\ UNCHANGED <<setting, callVars, wire, log, link, missed, breaks, pipeVars>>

\* ... or drop the message, when the channel has been full for a minute.
Drop(s) ==
    /\ socket[s] # <<>> /\ Len(channel[s]) = ChanSize
    /\ missed' = [missed EXCEPT ![s] = @ \cup {Head(socket[s])}]
    /\ socket' = [socket EXCEPT ![s] = Tail(@)]
    /\ UNCHANGED <<setting, callVars, wire, log, link, breaks, pipeVars>>

\* fn receives from the channel.
FunnelTake(s) ==
    /\ channel[s] # <<>> /\ funnel[s] = Nothing
    /\ funnel'  = [funnel EXCEPT ![s] = Head(channel[s])]
    /\ channel' = [channel EXCEPT ![s] = Tail(@)]
    /\ UNCHANGED <<setting, callVars, wire, log, linkVars, relay, got>>

\* Mutant: the second goroutine selects once instead of in a loop.
RelayTakeOnce(s) ==
    /\ funnel[s] # Nothing /\ relay[s] = Nothing /\ got[s] = {}
    /\ relay'  = [relay EXCEPT ![s] = funnel[s]]
    /\ funnel' = [funnel EXCEPT ![s] = Nothing]
    /\ UNCHANGED <<setting, callVars, wire, log, linkVars, channel, got>>

\* fn and the second goroutine meet on "controller".
RelayTake(s) ==
    /\ funnel[s] # Nothing /\ relay[s] = Nothing
    /\ relay'  = [relay EXCEPT ![s] = funnel[s]]
    /\ funnel' = [funnel EXCEPT ![s] = Nothing]
    /\ UNCHANGED <<setting, callVars, wire, log, linkVars, channel, got>>

\* Mutant: a goroutine of its own sends each message to room.inbound.
InboundAny(s) ==
    \E i \in {relay[s], funnel[s]} \ {Nothing} :
        /\ got'    = [got EXCEPT ![s] = @ \cup {i}]
        /\ relay'  = [relay EXCEPT ![s] = IF @ = i THEN Nothing ELSE @]
        /\ funnel' = [funnel EXCEPT ![s] = IF @ = i THEN Nothing ELSE @]
        /\ UNCHANGED <<setting, callVars, wire, log, linkVars, channel>>

\* room.inbound <- message: Room.Start receives it.
Inbound(s) ==
    /\ relay[s] # Nothing
    /\ got'   = [got EXCEPT ![s] = @ \cup {relay[s]}]
    /\ relay' = [relay EXCEPT ![s] = Nothing]
    /\ UNCHANGED <<setting, callVars, wire, log, linkVars, channel, funnel>>

-----------------------------------------------------------------------------
ClientStep(p) == Return(p) \/ GiveUp(p) \/ PublishFails(p)
Meet(p)       == \E s \in Subs : HandOver(p, s)
ReaderStep(s) == Resubscribe(s) \/ Fill(s) \/ Drop(s)

Next ==
    \/ \E p \in Senders : Publish(p) \/ ClientStep(p) \/ Meet(p)
    \/ \E a \in wire : Execute(a)
    \/ \E s \in Subs :
         \/ Subscribe(s) \/ Break(s) \/ ReaderStep(s)
         \/ FunnelTake(s) \/ RelayTake(s) \/ Inbound(s)

Spec == Init /\ [][Next]_vars

\* Clients time out, goroutines that can proceed do, Redis can be reached
\* again after a break, and Room.Start comes back to its channel.  Senders
\* that wait at a Go channel are served first come, first served, hence the
\* strong fairness.  Redis need not execute anything.
Fairness ==
    /\ \A p \in Senders : WF_vars(ClientStep(p)) /\ SF_vars(Meet(p))
    /\ \A s \in Subs :
         /\ WF_vars(Subscribe(s)) /\ WF_vars(ReaderStep(s))
         /\ WF_vars(FunnelTake(s)) /\ WF_vars(RelayTake(s)) /\ WF_vars(Inbound(s))

FairSpec == Spec /\ Fairness

-----------------------------------------------------------------------------
(* Properties                                                              *)

Held(i) == IF i = Nothing THEN <<>> ELSE <<i>>

\* What is between Redis and room.inbound, the oldest first.
Pipe(s) == Held(relay[s]) \o Held(funnel[s]) \o channel[s] \o socket[s]
InPipe(s) == Range(Pipe(s))

\* Types of the variables.
TypeOK ==
    /\ setting \in Settings
    /\ call \in [Senders -> {"idle", "waiting"}]
    /\ sent \in [Senders -> 0 .. MaxSent] /\ \A p \in Senders : sent[p] <= setting.budget[p]
    /\ try \in [Senders -> 0 .. MaxRetries]
    /\ answer \in [Senders -> BOOLEAN]
    /\ wire \subseteq Attempt /\ log \in Seq(Message)
    /\ link \in [Subs -> {"none", "up", "down"}]
    /\ socket \in [Subs -> Seq(DOMAIN log)]
    /\ channel \in [Subs -> Seq(DOMAIN log)] /\ \A s \in Subs : Len(channel[s]) <= ChanSize
    /\ funnel \in [Subs -> {Nothing} \cup DOMAIN log]
    /\ relay \in [Subs -> {Nothing} \cup DOMAIN log]
    /\ got \in [Subs -> SUBSET DOMAIN log]
    /\ missed \in [Subs -> SUBSET DOMAIN log]
    /\ gaveUp \subseteq Message
    /\ breaks \in [Subs -> Nat] /\ \A s \in Subs : breaks[s] <= setting.breaks[s]

\* A subscription hands the log to its room in order and each place once,
\* across reconnects and full channels: everything on the way is in order
\* and comes after everything the room has.
InOrder ==
    \A s \in Subs :
        /\ \A j, k \in DOMAIN Pipe(s) : j < k => Pipe(s)[j] < Pipe(s)[k]
        /\ \A i \in got[s], j \in InPipe(s) : i < j

\* Nothing vanishes on the way, and nothing strays.  Redis: what was published
\* to a room, and that only, is with the room, on its way, or was lost for want
\* of a connection or to a full channel (README.md:93: "a stream of messages
\* coming from a Room").  Memory: every message that was accepted is with
\* exactly one subscription, which need not be one of its room.
Conserved ==
    /\ backend = "redis" =>
         \A s \in Subs : \A i \in DOMAIN log :
           room[log[i].from] = room[s] <=> i \in got[s] \cup InPipe(s) \cup missed[s]
    /\ backend = "memory" =>
         \A i \in DOMAIN log :
           Cardinality({s \in Subs : i \in got[s] \cup InPipe(s)}) = 1

\* A message stands in the log behind a later one of its sender, or a second
\* time, only if the client gave up an attempt to publish it, which Redis
\* executed after all.
LateOnlyAfterGivingUp ==
    \A i, j \in DOMAIN log :
        i < j /\ log[i].from = log[j].from /\ log[i].n >= log[j].n => log[j] \in gaveUp

\* The queue implements what ChatRoom assumes of it.
Topic == INSTANCE TopicQueue WITH
    Messages <- Message, sub <- [s \in Subs |-> InPipe(s)]
QueueIsTopic == Topic!Spec

\* What Redis has sent to a subscription reaches the room, or is lost to a
\* broken connection or a full channel: no goroutine waits for ever.
Delivered ==
    \A s \in Subs : \A i \in 1 .. MaxLog :
        i \in InPipe(s) ~> i \in got[s] \cup missed[s]

\* Publish returns, whatever Redis does, and in memory although only a
\* funnel that is free takes a message.
PublishReturns == \A p \in Senders : call[p] = "waiting" ~> call[p] = "idle"
=============================================================================
