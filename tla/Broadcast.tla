------------------------------- MODULE Broadcast -------------------------------
(* streaming/telemetry-broadcaster.ts: subscribers, the channels they are in,  *)
(* messages numbered by one counter, and the heartbeat that removes the dead.  *)
(* Payloads, byte counts and callbacks are left out.                           *)
EXTENDS Integers, FiniteSets

CONSTANTS Subscribers, Channels,
          MaxMessages  \* bound: messages numbered

ASSUME HubAssumption == IsFiniteSet(Subscribers)

VARIABLE hub

NoChannels == [ch \in {} |-> {}]

BroadcastInit ==
    hub = [running |-> FALSE, seq |-> 0, channels |-> NoChannels,
           state |-> [s \in Subscribers |-> "unknown"],
           last |-> [s \in Subscribers |-> 0]]

KnownSubscriber == {s \in Subscribers : hub.state[s] # "unknown"}

Members(channels, ch) == IF ch \in DOMAIN channels THEN channels[ch] ELSE {}

\* subscribe / unsubscribe: a channel is a key of the map while it has members.
WithMember(channels, s, ch) ==
    [x \in DOMAIN channels \cup {ch} |-> Members(channels, x) \cup (IF x = ch THEN {s} ELSE {})]

\* A variant: a channel that nobody is in any more is kept.
LeftEverywhereKeptEmpty(channels, gone) == [ch \in DOMAIN channels |-> channels[ch] \ gone]

\* unsubscribeAll, for each of those that go.
LeftEverywhere(channels, gone) ==
    [ch \in {x \in DOMAIN channels : ~(channels[x] \subseteq gone)} |-> channels[ch] \ gone]

Left(channels, s, ch) ==
    [x \in DOMAIN channels \ (IF channels[ch] \subseteq {s} THEN {ch} ELSE {}) |->
        IF x = ch THEN channels[x] \ {s} ELSE channels[x]]
-----------------------------------------------------------------------------
\* registerSubscriber: an id that is known is replaced and keeps its channels.
Register(s, ch) ==
    hub' = [hub EXCEPT !.state[s] = "alive", !.channels = WithMember(@, s, ch)]

RemoveSubscriber(s) ==
    /\ s \in KnownSubscriber
    /\ hub' = [hub EXCEPT !.state[s] = "unknown", !.channels = LeftEverywhere(@, {s})]

\* Also for ids nobody registered.
Subscribe(s, ch) == hub' = [hub EXCEPT !.channels = WithMember(@, s, ch)]

Unsubscribe(s, ch) ==
    /\ ch \in DOMAIN hub.channels
    /\ hub' = [hub EXCEPT !.channels = Left(@, s, ch)]

\* The connection dies or falls silent beyond the client timeout.
Dies(s) == hub.state[s] = "alive" /\ hub' = [hub EXCEPT !.state[s] = "dead"]

FallsSilent(s) == hub.state[s] = "alive" /\ hub' = [hub EXCEPT !.state[s] = "silent"]

Answers(s) == hub.state[s] = "silent" /\ hub' = [hub EXCEPT !.state[s] = "alive"]

\* One number, sent to those who are alive; send() may throw for some.
Delivered(to, broken) ==
    [s \in Subscribers |->
        IF s \in to \ broken /\ hub.state[s] \in {"alive", "silent"} THEN hub.seq + 1
        ELSE hub.last[s]]

\* broadcastFrame, broadcastChunk, broadcastMetrics.
Broadcast(ch, broken) ==
    /\ hub.seq < MaxMessages
    /\ hub' = [hub EXCEPT !.seq = @ + 1,
                          !.last = Delivered(Members(hub.channels, ch) \cap KnownSubscriber, broken)]

StartHub == ~hub.running /\ hub' = [hub EXCEPT !.running = TRUE]

\* performHeartbeatSweep: the dead, the silent and those a ping cannot be sent
\* to are closed and removed; the others get pings with numbers of their own.
Heartbeat(broken) ==
    LET lost   == {s \in KnownSubscriber : hub.state[s] # "alive" \/ s \in broken}
        pinged == {s \in KnownSubscriber : hub.state[s] = "alive"}
    IN /\ hub.running
       /\ hub.seq + Cardinality(pinged) <= MaxMessages
       /\ \E number \in [pinged -> (hub.seq + 1)..(hub.seq + Cardinality(pinged))] :
             /\ \A s, t \in pinged : s # t => number[s] # number[t]
             /\ hub' = [hub EXCEPT
                   !.seq = @ + Cardinality(pinged),
                   !.last = [s \in Subscribers |->
                                IF s \in pinged \ broken THEN number[s] ELSE @[s]],
                   !.state = [s \in Subscribers |-> IF s \in lost THEN "unknown" ELSE @[s]],
                   !.channels = LeftEverywhere(@, lost)]

\* stop(): closes everybody, with or without start().
StopHub ==
    hub' = [hub EXCEPT !.running = FALSE, !.channels = NoChannels,
                       !.state = [s \in Subscribers |-> "unknown"]]

BroadcastNext ==
    \/ StartHub \/ StopHub
    \/ \E s \in Subscribers :
           \/ RemoveSubscriber(s) \/ Dies(s) \/ FallsSilent(s) \/ Answers(s)
           \/ \E ch \in Channels : Register(s, ch) \/ Subscribe(s, ch) \/ Unsubscribe(s, ch)
    \/ \E broken \in SUBSET Subscribers :
           Heartbeat(broken) \/ \E ch \in Channels : Broadcast(ch, broken)
-----------------------------------------------------------------------------
(* Properties *)

\* No channel outlives its members (unsubscribe, unsubscribeAll, stop).
NoEmptyChannel == \A ch \in DOMAIN hub.channels : hub.channels[ch] # {}

\* Each subscriber's messages are numbered upwards; and who is removed, by
\* whatever way, is in no channel (removeSubscriber, performHeartbeatSweep).
HubKeepsOrder ==
    /\ \A s \in Subscribers : hub'.last[s] >= hub.last[s]
    /\ \A s \in KnownSubscriber :
           hub'.state[s] = "unknown" => \A ch \in DOMAIN hub'.channels : s \notin hub'.channels[ch]
=============================================================================
