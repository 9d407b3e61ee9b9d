---------------------------- MODULE ObserveProofs ----------------------------
(* The live views of a run follow it and keep order, for any number of         *)
(* viewers, channels and subscribers and any size of a canvas; the stream of a *)
(* provider is told whole, however it was cut; a replay shows evidence,        *)
(* whatever was found and whoever touched its files; and what is measured and  *)
(* diagnosed of a run is what was sampled and recorded.                        *)
EXTENDS Observe, FoldTheorems

-----------------------------------------------------------------------------
(* The canvas *)

Picture(dims) == [Grid(dims) -> Inks \cup {Blank}]

Pictures == UNION {Picture(dims) : dims \in Dimensions}

\* The receiver shows the grid that the next frame is compared with.
CanvasInv ==
  /\ canvas \in [dims : Dimensions, raw : BOOLEAN,
                 current : Pictures, previous : Pictures, screen : Pictures,
                 frames : Nat, streaming : BOOLEAN]
  /\ canvas.current \in Picture(canvas.dims)
  /\ canvas.previous \in Picture(canvas.dims)
  /\ ScreenFollows

\* A new canvas is blank on both sides (CanvasStreamer).
LEMMA CanvasStarts == CanvasInit => CanvasInv
  <1> SUFFICES ASSUME NEW dims \in Dimensions, NEW raw \in BOOLEAN,
                      canvas = [dims |-> dims, raw |-> raw, current |-> Empty(dims),
                                previous |-> Empty(dims), screen |-> Empty(dims),
                                frames |-> 0, streaming |-> FALSE]
               PROVE  CanvasInv
    BY DEF CanvasInit
  <1>1. Empty(dims) \in Picture(dims)
    BY DEF Empty, Picture
  <1> QED
    BY <1>1 DEF CanvasInv, ScreenFollows, Pictures

\* What a frame leaves on the screen is the grid: the cells that did not change
\* were right before (snapshot, computeDelta).
LEMMA FrameIsGrid ==
    ASSUME CanvasInv, NEW keyframe \in BOOLEAN, Snapshot(keyframe)
    PROVE  canvas' = [canvas EXCEPT !.frames = @ + 1, !.previous = canvas.current,
                                    !.screen = canvas.current]
  <1>1. Patched(canvas.screen) = canvas.current
    BY DEF Patched, Changed, CanvasInv, ScreenFollows, Picture
  <1> QED
    BY <1>1 DEF Snapshot, CanvasInv

\* Drawing changes the grid only, and a frame shows it.
LEMMA CanvasKeeps == CanvasInv /\ CanvasNext => CanvasInv' /\ FrameShowsGrid
  <1> SUFFICES ASSUME CanvasInv, CanvasNext PROVE CanvasInv' /\ FrameShowsGrid
    OBVIOUS
  <1>1. ASSUME NEW cells, NEW ink \in Inks \cup {Blank}, SetCells(cells, ink)
        PROVE  CanvasInv' /\ FrameShowsGrid
    <2> DEFINE g == [cell \in DOMAIN canvas.current |->
                       IF cell \in cells THEN ink ELSE canvas.current[cell]]
    <2>1. g \in Picture(canvas.dims) /\ g \in Pictures
      BY DEF CanvasInv, Picture, Pictures
    <2>2. canvas' = [canvas EXCEPT !.current = g]
      BY <1>1 DEF SetCells
    <2> HIDE DEF g
    <2> QED
      BY <2>1, <2>2 DEF CanvasInv, FrameShowsGrid, ScreenFollows
  <1>2. CASE Draw
    BY <1>1, <1>2 DEF Draw
  <1>3. ASSUME NEW dims \in Dimensions
        PROVE  Empty(dims) \in Picture(dims) /\ Empty(dims) \in Pictures
    BY DEF Empty, Picture, Pictures
  <1>4. CASE Clear
    BY <1>3, <1>4 DEF Clear, CanvasInv, FrameShowsGrid, ScreenFollows
  <1>5. CASE Resize
    <2>1. PICK dims \in Dimensions :
             /\ dims # canvas.dims
             /\ canvas' = [canvas EXCEPT !.dims = dims, !.current = Empty(dims),
                                         !.previous = Empty(dims), !.screen = Empty(dims)]
      BY <1>5 DEF Resize
    <2> QED
      BY <2>1, <1>3 DEF CanvasInv, FrameShowsGrid, ScreenFollows
  <1>6. ASSUME NEW keyframe \in BOOLEAN, Snapshot(keyframe)
        PROVE  CanvasInv' /\ FrameShowsGrid
    <2>1. canvas' = [canvas EXCEPT !.frames = canvas.frames + 1,
                                   !.previous = canvas.current, !.screen = canvas.current]
      BY <1>6, FrameIsGrid
    <2>2. canvas' = [dims |-> canvas.dims, raw |-> canvas.raw, current |-> canvas.current,
                     previous |-> canvas.current, screen |-> canvas.current,
                     frames |-> canvas.frames + 1, streaming |-> canvas.streaming]
      BY <2>1 DEF CanvasInv
    <2>3. canvas.frames + 1 \in Nat /\ canvas.current \in Picture(canvas.dims)
      BY DEF CanvasInv
    <2> QED
      BY <2>2, <2>3 DEF CanvasInv, FrameShowsGrid, ScreenFollows
  <1>7. CASE ComputeDelta
    BY <1>7 DEF ComputeDelta, CanvasInv, FrameShowsGrid, ScreenFollows
  <1>8. CASE StartStreaming \/ StopStreaming
    BY <1>8 DEF StartStreaming, StopStreaming, CanvasInv, FrameShowsGrid, ScreenFollows
  <1>9. CASE FrameTimer
    BY <1>6, <1>9 DEF FrameTimer
  <1> QED
    BY <1>2, <1>4, <1>5, <1>6, <1>7, <1>8, <1>9 DEF CanvasNext
-----------------------------------------------------------------------------
(* The hub *)

HubState == {"unknown", "alive", "dead", "silent"}

\* A channel is a key while it has members, and these are subscribers.
Membership == (SUBSET Subscribers) \ {{}}

Channelling == UNION {[c -> Membership] : c \in SUBSET Channels}

\* No subscriber has a number that was not given out.
HubInv ==
  /\ hub \in [running : BOOLEAN, seq : Nat, channels : Channelling,
              state : [Subscribers -> HubState], last : [Subscribers -> Nat]]
  /\ \A s \in Subscribers : hub.last[s] <= hub.seq

\* The hub starts with nobody (TelemetryBroadcaster).
LEMMA HubStarts == BroadcastInit => HubInv
  <1> SUFFICES ASSUME BroadcastInit PROVE HubInv
    OBVIOUS
  <1>1. NoChannels \in Channelling
    BY DEF NoChannels, Channelling
  <1> QED
    BY <1>1 DEF HubInv, BroadcastInit, HubState

\* Joining and leaving one channel keeps the map (subscribe, unsubscribe).
LEMMA MapsStay ==
    ASSUME NEW channels \in Channelling, NEW s \in Subscribers, NEW ch \in Channels
    PROVE  /\ WithMember(channels, s, ch) \in Channelling
           /\ ch \in DOMAIN channels => Left(channels, s, ch) \in Channelling
  <1>1. PICK c \in SUBSET Channels : channels \in [c -> Membership]
    BY DEF Channelling
  <1>2. WithMember(channels, s, ch) \in [c \cup {ch} -> Membership]
    <2>1. \A x \in c : channels[x] \in Membership
      BY <1>1
    <2>2. ASSUME NEW x \in c \cup {ch}
          PROVE  Members(channels, x) \cup (IF x = ch THEN {s} ELSE {}) \in Membership
      BY <1>1, <2>1 DEF Members, Membership
    <2> QED
      BY <1>1, <2>2 DEF WithMember
  <1>3. ASSUME ch \in c PROVE Left(channels, s, ch) \in Channelling
    <2> DEFINE d == c \ (IF channels[ch] \subseteq {s} THEN {ch} ELSE {})
    <2>1. ASSUME NEW x \in d
          PROVE  (IF x = ch THEN channels[x] \ {s} ELSE channels[x]) \in Membership
      <3>1. channels[x] \in Membership /\ (x = ch => ~(channels[ch] \subseteq {s}))
        BY <1>1
      <3> QED
        BY <3>1 DEF Membership
    <2>2. d \in SUBSET Channels
      OBVIOUS
    <2>3. Left(channels, s, ch) = [x \in d |-> IF x = ch THEN channels[x] \ {s} ELSE channels[x]]
      BY <1>1 DEF Left
    <2> HIDE DEF d
    <2>4. Left(channels, s, ch) \in [d -> Membership]
      BY <2>1, <2>3
    <2> QED
      BY <2>2, <2>4 DEF Channelling
  <1>4. c \cup {ch} \in SUBSET Channels
    OBVIOUS
  <1> QED
    BY <1>1, <1>2, <1>3, <1>4 DEF Channelling

\* Those who go leave every channel (unsubscribeAll).
LEMMA MapsLose ==
    ASSUME NEW channels \in Channelling, NEW gone \in SUBSET Subscribers
    PROVE  /\ LeftEverywhere(channels, gone) \in Channelling
           /\ \A ch \in DOMAIN LeftEverywhere(channels, gone) :
                 LeftEverywhere(channels, gone)[ch] \cap gone = {}
  <1>1. PICK c \in SUBSET Channels : channels \in [c -> Membership]
    BY DEF Channelling
  <1> DEFINE d == {x \in DOMAIN channels : ~(channels[x] \subseteq gone)}
  <1>2. d \in SUBSET c /\ c \in SUBSET Channels /\ \A x \in d : ~(channels[x] \subseteq gone)
    BY <1>1
  <1>3. LeftEverywhere(channels, gone) = [x \in d |-> channels[x] \ gone]
    BY DEF LeftEverywhere
  <1> HIDE DEF d
  <1>4. \A x \in d : channels[x] \ gone \in Membership
    <2>1. \A x \in d : channels[x] \in Membership
      BY <1>1, <1>2
    <2> QED
      BY <1>2, <2>1 DEF Membership
  <1>5. LeftEverywhere(channels, gone) \in [d -> Membership]
    BY <1>3, <1>4
  <1>6. d \in SUBSET Channels
    BY <1>2
  <1> QED
    BY <1>3, <1>5, <1>6 DEF Channelling

\* So no channel of the hub is empty.
LEMMA HubHolds == HubInv => NoEmptyChannel
  <1> SUFFICES ASSUME HubInv PROVE NoEmptyChannel
    OBVIOUS
  <1>1. PICK c \in SUBSET Channels : hub.channels \in [c -> Membership]
    BY DEF HubInv, Channelling
  <1> QED
    BY <1>1 DEF NoEmptyChannel, Membership

\* What a step of the hub has to do: give out numbers that are new, and take whom
\* it forgets out of every channel.
LEMMA HubStep ==
    ASSUME HubInv, NEW running \in BOOLEAN, NEW seq \in Nat, NEW channels \in Channelling,
           NEW state \in [Subscribers -> HubState], NEW last \in [Subscribers -> Nat],
           hub' = [running |-> running, seq |-> seq, channels |-> channels, state |-> state,
                   last |-> last],
           \A s \in Subscribers : hub.last[s] <= last[s] /\ last[s] <= seq,
           \A s \in Subscribers : hub.state[s] # "unknown" /\ state[s] = "unknown" =>
               \A ch \in DOMAIN channels : s \notin channels[ch]
    PROVE  HubInv' /\ HubKeepsOrder
  BY DEF HubInv, HubKeepsOrder, KnownSubscriber

\* Numbers only rise, and who is removed leaves every channel
\* (broadcast, performHeartbeatSweep, removeSubscriber, stop).
LEMMA HubKeeps ==
    ASSUME HubInv, BroadcastNext
    PROVE  HubInv' /\ HubKeepsOrder
  <1> DEFINE Kept == HubInv' /\ HubKeepsOrder
  <1>t. /\ hub = [running |-> hub.running, seq |-> hub.seq, channels |-> hub.channels,
                  state |-> hub.state, last |-> hub.last]
        /\ hub.running \in BOOLEAN /\ hub.seq \in Nat /\ hub.channels \in Channelling
        /\ hub.state \in [Subscribers -> HubState] /\ hub.last \in [Subscribers -> Nat]
        /\ \A s \in Subscribers : hub.last[s] <= hub.last[s] /\ hub.last[s] <= hub.seq
    BY DEF HubInv
  <1>1. ASSUME NEW channels \in Channelling, hub' = [hub EXCEPT !.channels = channels] PROVE Kept
    <2>1. hub' = [running |-> hub.running, seq |-> hub.seq, channels |-> channels,
                  state |-> hub.state, last |-> hub.last]
      BY <1>1, <1>t
    <2> QED
      BY <2>1, <1>t, HubStep
  <1>2. ASSUME NEW s \in Subscribers, NEW now \in HubState \ {"unknown"},
               NEW channels \in Channelling,
               hub' = [running |-> hub.running, seq |-> hub.seq, channels |-> channels,
                       state |-> [hub.state EXCEPT ![s] = now], last |-> hub.last]
        PROVE  Kept
    <2>2. [hub.state EXCEPT ![s] = now] \in [Subscribers -> HubState]
      BY <1>t
    <2>3. \A t \in Subscribers : hub.state[t] # "unknown" => [hub.state EXCEPT ![s] = now][t] # "unknown"
      BY <1>t
    <2> QED
      BY <1>2, <2>2, <2>3, <1>t, HubStep
  <1>3. CASE StartHub
    <2>1. PICK running \in BOOLEAN :
             hub' = [running |-> running, seq |-> hub.seq, channels |-> hub.channels,
                     state |-> hub.state, last |-> hub.last]
      BY <1>3, <1>t DEF StartHub
    <2> QED
      BY <2>1, <1>t, HubStep
  <1>4. CASE StopHub
    <2>1. hub' = [running |-> FALSE, seq |-> hub.seq, channels |-> NoChannels,
                  state |-> [s \in Subscribers |-> "unknown"], last |-> hub.last]
      BY <1>4, <1>t DEF StopHub
    <2>2. NoChannels \in Channelling /\ DOMAIN NoChannels = {}
      BY DEF NoChannels, Channelling
    <2>3. [s \in Subscribers |-> "unknown"] \in [Subscribers -> HubState]
      BY DEF HubState
    <2> QED
      BY <2>1, <2>2, <2>3, <1>t, HubStep
  <1>5. ASSUME NEW s \in Subscribers, RemoveSubscriber(s) PROVE Kept
    <2> DEFINE c == LeftEverywhere(hub.channels, {s})
               state == [hub.state EXCEPT ![s] = "unknown"]
    <2>1. hub' = [running |-> hub.running, seq |-> hub.seq, channels |-> c,
                  state |-> state, last |-> hub.last]
      BY <1>5, <1>t DEF RemoveSubscriber
    <2>2. c \in Channelling /\ \A ch \in DOMAIN c : c[ch] \cap {s} = {}
      <3>1. {s} \in SUBSET Subscribers
        OBVIOUS
      <3> QED
        BY <3>1, <1>t, MapsLose
    <2>3. state \in [Subscribers -> HubState]
      BY <1>t DEF HubState
    <2>4. \A t \in Subscribers : hub.state[t] # "unknown" /\ state[t] = "unknown" => t = s
      BY <1>t
    <2> HIDE DEF c, state
    <2> QED
      BY <2>1, <2>2, <2>3, <2>4, <1>t, HubStep
  <1>6. ASSUME NEW s \in Subscribers, Dies(s) \/ FallsSilent(s) \/ Answers(s) PROVE Kept
    <2>1. PICK now \in HubState \ {"unknown"} :
             hub' = [running |-> hub.running, seq |-> hub.seq, channels |-> hub.channels,
                     state |-> [hub.state EXCEPT ![s] = now], last |-> hub.last]
      BY <1>6, <1>t DEF Dies, FallsSilent, Answers, HubState
    <2> QED
      BY <2>1, <1>2, <1>t
  <1>7. ASSUME NEW s \in Subscribers, NEW ch \in Channels,
               Register(s, ch) \/ Subscribe(s, ch) \/ Unsubscribe(s, ch)
        PROVE  Kept
    <2>1. /\ WithMember(hub.channels, s, ch) \in Channelling
          /\ ch \in DOMAIN hub.channels => Left(hub.channels, s, ch) \in Channelling
      BY <1>t, MapsStay
    <2>2. CASE Register(s, ch)
      <3>1. hub' = [running |-> hub.running, seq |-> hub.seq,
                    channels |-> WithMember(hub.channels, s, ch),
                    state |-> [hub.state EXCEPT ![s] = "alive"], last |-> hub.last]
        BY <2>2, <1>t DEF Register
      <3> QED
        BY <3>1, <2>1, <1>2 DEF HubState
    <2>3. CASE Subscribe(s, ch)
      <3>1. hub' = [hub EXCEPT !.channels = WithMember(hub.channels, s, ch)]
        BY <2>3 DEF Subscribe
      <3> QED
        BY <3>1, <2>1, <1>1
    <2>4. CASE Unsubscribe(s, ch)
      <3>1. hub' = [hub EXCEPT !.channels = Left(hub.channels, s, ch)] /\ ch \in DOMAIN hub.channels
        BY <2>4 DEF Unsubscribe
      <3> QED
        BY <3>1, <2>1, <1>1
    <2> QED
      BY <1>7, <2>2, <2>3, <2>4
  <1>8. ASSUME NEW broken \in SUBSET Subscribers, NEW ch \in Channels, Broadcast(ch, broken)
        PROVE  Kept
    <2> DEFINE last == Delivered(Members(hub.channels, ch) \cap KnownSubscriber, broken)
    <2>1. hub' = [running |-> hub.running, seq |-> hub.seq + 1, channels |-> hub.channels,
                  state |-> hub.state, last |-> last]
      BY <1>8, <1>t DEF Broadcast
    <2>2. last \in [Subscribers -> Nat]
      BY <1>t DEF Delivered
    <2>3. \A s \in Subscribers : last[s] \in {hub.last[s], hub.seq + 1}
      BY DEF Delivered
    <2>4. \A s \in Subscribers : hub.last[s] <= last[s] /\ last[s] <= hub.seq + 1
      BY <2>3, <1>t, SMTT(30)
    <2> HIDE DEF last
    <2> QED
      BY <2>1, <2>2, <2>4, <1>t, HubStep
  <1>9. ASSUME NEW broken \in SUBSET Subscribers, Heartbeat(broken) PROVE Kept
    <2> DEFINE lost   == {s \in KnownSubscriber : hub.state[s] # "alive" \/ s \in broken}
               pinged == {s \in KnownSubscriber : hub.state[s] = "alive"}
               n == Cardinality(pinged)
               c == LeftEverywhere(hub.channels, lost)
               state == [s \in Subscribers |-> IF s \in lost THEN "unknown" ELSE hub.state[s]]
    <2>1. PICK number \in [pinged -> (hub.seq + 1)..(hub.seq + n)] :
             hub' = [hub EXCEPT !.seq = hub.seq + n,
                      !.last = [s \in Subscribers |->
                                  IF s \in pinged \ broken THEN number[s] ELSE hub.last[s]],
                      !.state = state, !.channels = c]
      BY <1>9 DEF Heartbeat
    <2> DEFINE last == [s \in Subscribers |->
                          IF s \in pinged \ broken THEN number[s] ELSE hub.last[s]]
    <2>2. hub' = [running |-> hub.running, seq |-> hub.seq + n, channels |-> c,
                  state |-> state, last |-> last]
      BY <2>1, <1>t
    <2>3. lost \subseteq Subscribers /\ pinged \subseteq Subscribers
      BY DEF KnownSubscriber
    <2>4. n \in Nat
      BY <2>3, HubAssumption, FS_Subset, FS_CardinalityType
    <2>5. c \in Channelling /\ \A ch \in DOMAIN c : c[ch] \cap lost = {}
      BY <2>3, <1>t, MapsLose
    <2>6. state \in [Subscribers -> HubState]
      BY <1>t DEF HubState
    <2>7. \A s \in Subscribers : hub.state[s] # "unknown" /\ state[s] = "unknown" => s \in lost
      OBVIOUS
    <2> HIDE DEF n, lost, c, state
    <2>8. \A s \in Subscribers :
             last[s] = hub.last[s] \/ (last[s] \in (hub.seq + 1)..(hub.seq + n))
      OBVIOUS
    <2>9. DOMAIN last = Subscribers /\ last = [s \in Subscribers |-> last[s]]
      OBVIOUS
    <2> HIDE DEF last
    <2>10. \A s \in Subscribers : last[s] \in Nat /\ hub.last[s] <= last[s] /\ last[s] <= hub.seq + n
      BY <2>8, <2>4, <1>t
    <2>11. last \in [Subscribers -> Nat]
      BY <2>9, <2>10
    <2>12. hub.seq + n \in Nat
      BY <2>4, <1>t
    <2> QED
      BY <2>2, <2>5, <2>6, <2>7, <2>10, <2>11, <2>12, <1>t, HubStep
  <1> QED
    BY <1>3, <1>4, <1>5, <1>6, <1>7, <1>8, <1>9 DEF BroadcastNext
-----------------------------------------------------------------------------
(* The tunnel *)

Chunk == [seq : Int, size : Sizes]

StreamedFields == {"status", "seq", "ring", "dropped", "listeners"}

\* A session and what its buffer holds.
SoundStream(s) ==
  /\ DOMAIN s = StreamedFields /\ s = [x \in StreamedFields |-> s[x]]
  /\ s.status \in {"ATTACHED", "STREAMING", "PAUSED", "TERMINATED", "ERROR"}
  /\ s.seq \in Nat /\ s.dropped \in Nat /\ s.ring \in Seq(Chunk)
  /\ s.listeners \subseteq Viewers
  /\ RingIsTail(s)

\* A size is a number.
LEMMA SizesAreNumbers ==
  /\ \A size \in Sizes : size \in Int
  /\ \A chunk \in Chunk : chunk.size \in Int
  <1>1. \A chunk \in Chunk : chunk.size \in Sizes
    BY DEF Chunk
  <1>2. \A size \in Sizes : size \in Int
    BY TunnelAssumption
  <1> QED
    BY <1>1, <1>2

\* The sizes of a buffer's chunks, whose sum is its bytes.
LEMMA BytesAre ==
    ASSUME NEW ring \in Seq(Chunk)
    PROVE  /\ [i \in DOMAIN ring |-> ring[i].size] \in Seq(Int)
           /\ Len([i \in DOMAIN ring |-> ring[i].size]) = Len(ring)
           /\ Bytes(ring) = SumOf([i \in DOMAIN ring |-> ring[i].size])
           /\ Bytes(ring) \in Int
  <1> DEFINE sizes == [i \in DOMAIN ring |-> ring[i].size]
             n == Len(ring)
  <1>1. n \in Nat /\ DOMAIN ring = 1..n /\ \A i \in 1..n : ring[i] \in Chunk
    BY LenProperties, ElementOfSeq
  <1>2. \A i \in 1..n : ring[i].size \in Int
    BY <1>1, SizesAreNumbers
  <1>3. sizes \in Seq(Int) /\ Len(sizes) = n /\ DOMAIN sizes = 1..n
    BY <1>1, <1>2
  <1> HIDE DEF sizes, n
  <1>4. Bytes(ring) = SumFunction(sizes)
    BY DEF Bytes, sizes
  <1>5. SumFunction(sizes) = SumOf(sizes)
    BY <1>3 DEF SumFunction, SumFunctionOnSet, FoldFunctionOnSet, SumOf, Total, MapThenSumSet
  <1>6. SumOf(sizes) \in Int
    <2>1. Len(sizes) \in 0..Len(sizes)
      BY <1>3, LenProperties
    <2> QED
      BY <1>3, <2>1, PrefixSum DEF SumOf
  <1> QED
    BY <1>3, <1>4, <1>5, <1>6 DEF sizes, n

\* A chunk that is stored adds its size.
LEMMA BytesOfAppend ==
    ASSUME NEW ring \in Seq(Chunk), NEW chunk \in Chunk
    PROVE  Bytes(Append(ring, chunk)) = Bytes(ring) + chunk.size
  <1> DEFINE more == Append(ring, chunk)
             a == [i \in DOMAIN ring |-> ring[i].size]
             b == [i \in DOMAIN more |-> more[i].size]
             n == Len(ring)
  <1>1. /\ more \in Seq(Chunk) /\ Len(more) = n + 1 /\ n \in Nat /\ DOMAIN ring = 1..n
        /\ DOMAIN more = 1..(n + 1) /\ more[n + 1] = chunk
        /\ \A i \in 1..n : more[i] = ring[i]
    BY AppendProperties, LenProperties
  <1>2. /\ a \in Seq(Int) /\ Len(a) = n /\ Bytes(ring) = SumOf(a)
        /\ b \in Seq(Int) /\ Len(b) = n + 1 /\ Bytes(more) = SumOf(b)
    BY <1>1, BytesAre
  <1>3. chunk.size \in Int
    BY SizesAreNumbers
  <1>4. /\ \A i \in 1..n : b[i] = a[i]
        /\ b[n + 1] = chunk.size
    BY <1>1
  <1> HIDE DEF a, b, more, n
  <1>5. b = Append(a, chunk.size)
    <2>1. /\ Append(a, chunk.size) \in Seq(Int) /\ Len(Append(a, chunk.size)) = n + 1
          /\ \A i \in 1..n : Append(a, chunk.size)[i] = a[i]
          /\ Append(a, chunk.size)[n + 1] = chunk.size
      BY <1>2, <1>3, AppendProperties
    <2>2. \A i \in 1..(n + 1) : i \in 1..n \/ i = n + 1
      BY <1>1
    <2>3. \A i \in 1..(n + 1) : Append(a, chunk.size)[i] = b[i]
      BY <1>4, <2>1, <2>2
    <2> QED
      BY <1>2, <2>1, <2>3, SeqEqual
  <1>6. SumOf(b) = SumOf(a) + chunk.size
    BY <1>2, <1>3, <1>5, SumOfAppend
  <1> QED
    BY <1>2, <1>6 DEF more

\* What is left when the oldest are dropped.
LEMMA DropIs ==
    ASSUME NEW ring \in Seq(Chunk), NEW n \in 0..Len(ring)
    PROVE  /\ Drop(ring, n) \in Seq(Chunk) /\ Len(Drop(ring, n)) = Len(ring) - n
           /\ \A i \in 1..(Len(ring) - n) : Drop(ring, n)[i] = ring[n + i]
           /\ n = Len(ring) => Drop(ring, n) = <<>>
  <1>1. Len(ring) \in Nat /\ n \in Int /\ Len(ring) \in Int /\ n + 1 \in Int
    BY LenProperties
  <1>2. \A i \in (n + 1)..Len(ring) : ring[i] \in Chunk
    BY <1>1, ElementOfSeq
  <1>3. /\ SubSeq(ring, n + 1, Len(ring)) \in Seq(Chunk)
        /\ Len(SubSeq(ring, n + 1, Len(ring)))
             = IF n + 1 <= Len(ring) THEN Len(ring) - (n + 1) + 1 ELSE 0
        /\ \A i \in 1..(Len(ring) - (n + 1) + 1) :
             SubSeq(ring, n + 1, Len(ring))[i] = ring[(n + 1) + i - 1]
    BY <1>1, <1>2, SubSeqProperties
  <1>4. /\ Len(ring) - (n + 1) + 1 = Len(ring) - n
        /\ \A i \in Int : (n + 1) + i - 1 = n + i
        /\ (IF n + 1 <= Len(ring) THEN Len(ring) - (n + 1) + 1 ELSE 0) = Len(ring) - n
    BY <1>1
  <1>5. n = Len(ring) => SubSeq(ring, n + 1, Len(ring)) = <<>>
    BY <1>1, SubSeqEmpty
  <1> DEFINE rest == SubSeq(ring, n + 1, Len(ring))
  <1>6. rest = Drop(ring, n)
    BY DEF Drop
  <1> HIDE DEF rest
  <1>7. rest \in Seq(Chunk) /\ Len(rest) = Len(ring) - n
    BY <1>3, <1>4 DEF rest
  <1>8. ASSUME NEW i \in 1..(Len(ring) - n) PROVE rest[i] = ring[n + i]
    <2>1. i \in 1..(Len(ring) - (n + 1) + 1) /\ (n + 1) + i - 1 = n + i
      <3>1. i \in Int
        BY <1>1
      <3> QED
        BY <1>4, <3>1
    <2>2. rest[i] = ring[(n + 1) + i - 1]
      BY <1>3, <2>1 DEF rest
    <2> QED
      BY <2>1, <2>2
  <1>9. n = Len(ring) => rest = <<>>
    BY <1>5 DEF rest
  <1> QED
    BY <1>6, <1>7, <1>8, <1>9

\* The oldest chunks that have to go are found, and leave room (push).
LEMMA EvictedIs ==
    ASSUME NEW ring \in Seq(Chunk), NEW size \in Sizes
    PROVE  Evicted(ring, size) \in 0..Len(ring) /\ HasRoom(Drop(ring, Evicted(ring, size)), size)
  <1> DEFINE fits == {n \in 0..Len(ring) : HasRoom(Drop(ring, n), size)}
  <1>1. Len(ring) \in Nat /\ Len(ring) \in 0..Len(ring)
    BY LenProperties
  <1>2. Len(ring) \in fits
    BY <1>1, DropIs DEF HasRoom
  <1>3. PICK n \in fits : \A m \in fits : n <= m
    <2>1. fits \subseteq Nat /\ fits # {}
      BY <1>2
    <2> HIDE DEF fits
    <2> QED
      BY <2>1, LeastOf
  <1>4. \A m \in 0..(n - 1) : ~HasRoom(Drop(ring, m), size)
    BY <1>1, <1>3
  <1>5. n \in 0..Len(ring) /\ HasRoom(Drop(ring, n), size)
    BY <1>3
  <1> QED
    BY <1>4, <1>5 DEF Evicted

\* A push keeps the buffer the tail of the output, within its limits
\* (RingBuffer.push).
LEMMA PushIsSound ==
    ASSUME NEW s, SoundStream(s), NEW size \in Sizes
    PROVE  /\ SoundStream(Pushed(s, size)) /\ Pushed(s, size).seq = s.seq + 1
           /\ Pushed(s, size).status = s.status /\ Pushed(s, size).listeners = s.listeners
  <1> DEFINE n == Evicted(s.ring, size)
             chunk == [seq |-> s.seq + 1, size |-> size]
             kept == Drop(s.ring, n)
             ring == Append(kept, chunk)
             k == Len(s.ring)
  <1>1. /\ s.ring \in Seq(Chunk) /\ k \in Nat /\ s.seq \in Nat /\ s.dropped \in Nat
        /\ s.dropped + k = s.seq /\ chunk \in Chunk
        /\ \A i \in 1..k : s.ring[i].seq = s.dropped + i
    <2>1. /\ s.ring \in Seq(Chunk) /\ s.seq \in Nat /\ s.dropped \in Nat
          /\ s.dropped + k = s.seq
          /\ \A i \in DOMAIN s.ring : s.ring[i].seq = s.dropped + i
      BY DEF SoundStream, RingIsTail
    <2>2. k \in Nat /\ DOMAIN s.ring = 1..k
      BY <2>1, LenProperties
    <2>3. chunk \in Chunk
      BY <2>1 DEF Chunk
    <2> QED
      BY <2>1, <2>2, <2>3
  <1>2. n \in 0..k /\ HasRoom(kept, size)
    BY <1>1, EvictedIs
  <1>3. size \in Int /\ chunk.size = size /\ chunk.seq = s.seq + 1 /\ n \in Int
    BY <1>1, <1>2, SizesAreNumbers
  <1> HIDE DEF n, chunk
  <1>4. kept \in Seq(Chunk) /\ Len(kept) = k - n /\ \A i \in 1..(k - n) : kept[i] = s.ring[n + i]
    BY <1>1, <1>2, DropIs
  <1> HIDE DEF kept
  <1>5. /\ ring \in Seq(Chunk) /\ Len(ring) = k - n + 1 /\ ring[k - n + 1] = chunk
        /\ \A i \in 1..(k - n) : ring[i] = kept[i]
    BY <1>1, <1>4, AppendProperties
  <1>6. Bytes(ring) = Bytes(kept) + size
    BY <1>1, <1>3, <1>4, BytesOfAppend
  <1> HIDE DEF ring
  <1>7. Len(ring) <= MaxLines /\ (Bytes(ring) <= MaxBytes \/ Len(ring) = 1)
    <2>1. CASE kept = <<>>
      BY <2>1, <1>1, <1>2, <1>4, <1>5, TunnelAssumption
    <2>2. CASE Len(kept) < MaxLines /\ Bytes(kept) + size <= MaxBytes
      BY <2>2, <1>1, <1>2, <1>4, <1>5, <1>6, TunnelAssumption
    <2> QED
      BY <1>2, <2>1, <2>2 DEF HasRoom
  <1>8. \A i \in 1..(k - n + 1) : ring[i].seq = s.dropped + n + i
    <2>1. ASSUME NEW i \in 1..(k - n) PROVE ring[i].seq = s.dropped + n + i
      <3>1. n + i \in 1..k
        BY <1>1, <1>2, <1>3
      <3>2. ring[i] = s.ring[n + i]
        BY <1>4, <1>5
      <3>3. s.ring[n + i].seq = s.dropped + (n + i)
        BY <1>1, <3>1
      <3> QED
        BY <1>1, <1>3, <3>2, <3>3
    <2>2. ring[k - n + 1].seq = s.dropped + n + (k - n + 1)
      <3>1. ring[k - n + 1].seq = s.seq + 1
        BY <1>3, <1>5
      <3> QED
        BY <1>1, <1>3, <3>1
    <2>3. \A i \in 1..(k - n + 1) : i \in 1..(k - n) \/ i = k - n + 1
      BY <1>1, <1>3
    <2> HIDE DEF k
    <2> QED
      BY <2>1, <2>2, <2>3
  <1>9. Pushed(s, size) = [s EXCEPT !.seq = s.seq + 1, !.ring = ring, !.dropped = s.dropped + n]
    BY DEF Pushed, ring, kept, chunk, n
  <1> DEFINE t == Pushed(s, size)
  <1>10. DOMAIN s = StreamedFields /\ s = [x \in StreamedFields |-> s[x]]
    BY DEF SoundStream
  <1>11. /\ DOMAIN t = StreamedFields /\ t = [x \in StreamedFields |-> t[x]]
         /\ t.seq = s.seq + 1 /\ t.ring = ring /\ t.dropped = s.dropped + n
         /\ t.status = s.status /\ t.listeners = s.listeners
    BY <1>9, <1>10 DEF StreamedFields
  <1> HIDE DEF t
  <1>12. DOMAIN t.ring = 1..(k - n + 1)
    BY <1>5, <1>11, LenProperties
  <1>13. t.dropped + Len(t.ring) = t.seq /\ t.dropped \in Nat /\ t.seq \in Nat
    <2>1. Len(t.ring) = k - n + 1 /\ t.dropped = s.dropped + n /\ t.seq = s.seq + 1
      BY <1>5, <1>11
    <2>2. n \in Nat
      BY <1>1, <1>2
    <2> HIDE DEF k
    <2> QED
      BY <1>1, <2>1, <2>2
  <1>14. RingIsTail(t)
    <2>1. \A i \in DOMAIN t.ring : t.ring[i].seq = t.dropped + i
      BY <1>8, <1>11, <1>12
    <2> QED
      BY <1>7, <1>11, <1>13, <2>1 DEF RingIsTail
  <1>15. SoundStream(t)
    BY <1>5, <1>11, <1>13, <1>14 DEF SoundStream
  <1> QED
    BY <1>11, <1>15 DEF t

\* The scrollback is the end of the buffer (getScrollback).
LEMMA ScrollbackIs ==
    ASSUME NEW ring \in Seq(Chunk)
    PROVE  \E k \in 0..Len(ring) : Scrollback(ring, MaxLines, MaxBytes) = Drop(ring, Len(ring) - k)
  <1> DEFINE Fits(n) == n <= MaxLines
                          /\ (n <= 1 \/ Bytes(Drop(ring, Len(ring) - n)) <= MaxBytes)
             Ends(n) == Fits(n) /\ (n = Len(ring) \/ ~Fits(n + 1))
             fits == {n \in 0..Len(ring) : \A m \in 0..n : Fits(m)}
  <1>1. Len(ring) \in Nat
    BY LenProperties
  <1>2. 0 \in fits
    <2>1. Fits(0)
      BY TunnelAssumption
    <2> HIDE DEF Fits
    <2> QED
      BY <1>1, <2>1
  <1> HIDE DEF Fits
  <1>3. PICK k \in fits : \A n \in fits : n <= k
    <2>1. fits \subseteq 0..Len(ring) /\ fits # {}
      BY <1>2
    <2> HIDE DEF fits
    <2> QED
      BY <1>1, <2>1, GreatestOf
  <1>4. k \in 0..Len(ring) /\ k \in Int /\ Fits(k)
    BY <1>1, <1>3
  <1>5. ASSUME k # Len(ring), Fits(k + 1) PROVE FALSE
    <2>1. k + 1 \in 0..Len(ring)
      BY <1>1, <1>4, <1>5
    <2>2. \A m \in 0..(k + 1) : m \in 0..k \/ m = k + 1
      BY <1>4
    <2>3. k + 1 \in fits
      BY <1>3, <1>5, <2>1, <2>2
    <2> QED
      BY <1>3, <1>4, <2>3
  <1>6. \E n \in 0..Len(ring) : Ends(n)
    BY <1>4, <1>5
  <1> DEFINE j == CHOOSE n \in 0..Len(ring) : Ends(n)
  <1>7. j \in 0..Len(ring)
    <2> HIDE DEF Ends
    <2> QED
      BY <1>6
  <1>8. Scrollback(ring, MaxLines, MaxBytes) = Drop(ring, Len(ring) - j)
    BY DEF Scrollback, Fits
  <1> HIDE DEF j
  <1> QED
    BY <1>7, <1>8

\* What a viewer has got is the end of the output.
IsTail(s, got) == \A i \in DOMAIN got : got[i] = s.seq - Len(got) + i

\* The shape of the tunnel's record, a sound session, and what each viewer has
\* got: those who are new nothing, those who watch the end of the output.
TunnelInv ==
  /\ tunnel = [running |-> tunnel.running, session |-> tunnel.session,
               link |-> tunnel.link, got |-> tunnel.got]
  /\ tunnel.link \in [Viewers -> {"new", "open", "closed"}]
  /\ tunnel.got \in [Viewers -> Seq(Int)]
  /\ \A v \in Viewers : tunnel.link[v] = "new" => tunnel.got[v] = <<>>
  /\ HasSession =>
       /\ SoundStream(tunnel.session)
       /\ \A v \in tunnel.session.listeners :
            tunnel.link[v] = "open" => IsTail(tunnel.session, tunnel.got[v])

\* What the invariant says of what the viewers see.
LEMMA TunnelHolds == TunnelInv => TunnelKeepsOutput
  <1> SUFFICES ASSUME TunnelInv, HasSession
               PROVE  /\ RingIsTail(tunnel.session)
                      /\ \A v \in tunnel.session.listeners :
                           tunnel.link[v] = "open" => SeesTail(tunnel.session, v)
    BY DEF TunnelKeepsOutput
  <1>1. RingIsTail(tunnel.session)
    BY DEF TunnelInv, SoundStream
  <1>2. \A v \in tunnel.session.listeners :
          tunnel.link[v] = "open" => IsTail(tunnel.session, tunnel.got[v])
    BY DEF TunnelInv
  <1> QED
    BY <1>1, <1>2 DEF IsTail, SeesTail

\* Nobody is connected, no session is open (StreamTunnelServer).
LEMMA TunnelStarts == TunnelInit => TunnelInv
  <1> SUFFICES ASSUME TunnelInit PROVE TunnelInv
    OBVIOUS
  <1>1. [v \in Viewers |-> <<>>] \in [Viewers -> Seq(Int)]
    <2>1. <<>> \in Seq(Int)
      BY EmptySeq
    <2> QED
      BY <2>1
  <1> QED
    BY <1>1 DEF TunnelInit, TunnelInv, HasSession

\* A session that begins is sound (PtySession).
LEMMA NewIsSound == SoundStream(NewSession) /\ NewSession.listeners = {} /\ NewSession.seq = 0
  <1> DEFINE s == NewSession
  <1>1. /\ DOMAIN s = StreamedFields /\ s = [x \in StreamedFields |-> s[x]]
        /\ s.status = "ATTACHED" /\ s.seq = 0 /\ s.ring = <<>> /\ s.dropped = 0
        /\ s.listeners = {}
    BY DEF NewSession, StreamedFields
  <1> HIDE DEF s
  <1>2. s.ring \in Seq(Chunk) /\ Len(s.ring) = 0 /\ DOMAIN s.ring = {}
    <2>1. <<>> \in Seq(Chunk) /\ Len(<<>>) = 0
      BY EmptySeq
    <2>2. DOMAIN <<>> = {}
      OBVIOUS
    <2>3. s.ring = <<>>
      BY <1>1
    <2> QED
      BY <2>1, <2>2, <2>3
  <1>3. Bytes(s.ring) = 0
    <2> DEFINE sizes == [i \in DOMAIN s.ring |-> s.ring[i].size]
    <2>1. sizes \in Seq(Int) /\ Len(sizes) = 0 /\ Bytes(s.ring) = SumOf(sizes)
      BY <1>2, BytesAre
    <2> HIDE DEF sizes
    <2>2. SumOf(sizes) = 0
      BY <2>1, PrefixSum DEF SumOf
    <2> QED
      BY <2>1, <2>2
  <1>4. RingIsTail(s)
    BY <1>1, <1>2, <1>3, TunnelAssumption DEF RingIsTail
  <1>5. SoundStream(s)
    BY <1>1, <1>2, <1>4 DEF SoundStream
  <1> QED
    BY <1>1, <1>5 DEF s

\* What a step of the tunnel has to do.
LEMMA TunnelStep ==
    ASSUME TunnelInv, NEW running, NEW s,
           NEW link \in [Viewers -> {"new", "open", "closed"}],
           NEW got \in [Viewers -> Seq(Int)],
           tunnel' = [running |-> running, session |-> s, link |-> link, got |-> got],
           \A v \in Viewers : link[v] = "new" => got[v] = <<>>,
           s # None => /\ SoundStream(s)
                       /\ \A v \in s.listeners : link[v] = "open" => IsTail(s, got[v]),
           HasSession /\ Ended(tunnel.session) =>
              /\ \A v \in Viewers : tunnel.link[v] # "new" => got[v] = tunnel.got[v]
              /\ s = None \/ Ended(s)
    PROVE  TunnelInv' /\ EndedIsSilent
  <1>1. /\ tunnel'.running = running /\ tunnel'.session = s
        /\ tunnel'.link = link /\ tunnel'.got = got
    OBVIOUS
  <1>2. EndedIsSilent
    BY <1>1 DEF EndedIsSilent
  <1>3. HasSession' => s # None
    BY <1>1 DEF HasSession
  <1>4. tunnel' = [running |-> tunnel'.running, session |-> tunnel'.session,
                   link |-> tunnel'.link, got |-> tunnel'.got]
    BY <1>1
  <1>5. TunnelInv'
    BY <1>1, <1>3, <1>4 DEF TunnelInv
  <1> QED
    BY <1>2, <1>5

\* The scrollback a viewer is sent is the end of the output (handleWsOpen).
LEMMA ScrollbackIsTail ==
    ASSUME NEW s, SoundStream(s)
    PROVE  /\ Sequences(Scrollback(s.ring, MaxLines, MaxBytes)) \in Seq(Int)
           /\ IsTail(s, Sequences(Scrollback(s.ring, MaxLines, MaxBytes)))
  <1> DEFINE n == Len(s.ring)
             back == Scrollback(s.ring, MaxLines, MaxBytes)
             got == Sequences(back)
  <1>1. /\ s.ring \in Seq(Chunk) /\ s.seq \in Nat /\ s.dropped \in Nat /\ s.dropped + n = s.seq
        /\ \A i \in DOMAIN s.ring : s.ring[i].seq = s.dropped + i
    BY DEF SoundStream, RingIsTail
  <1>2. n \in Nat /\ DOMAIN s.ring = 1..n
    BY <1>1, LenProperties
  <1>3. PICK k \in 0..n : back = Drop(s.ring, n - k)
    BY <1>1, ScrollbackIs
  <1>4. k \in Int /\ n - k \in 0..n /\ n - (n - k) = k
    BY <1>2
  <1>5. /\ back \in Seq(Chunk) /\ Len(back) = k
        /\ \A i \in 1..k : back[i] = s.ring[(n - k) + i]
    <2> DEFINE m == n - k
    <2>1. m \in 0..Len(s.ring) /\ Len(s.ring) - m = k
      BY <1>4
    <2>2. back = Drop(s.ring, m)
      BY <1>3
    <2> HIDE DEF m, back
    <2>3. /\ Drop(s.ring, m) \in Seq(Chunk) /\ Len(Drop(s.ring, m)) = Len(s.ring) - m
          /\ \A i \in 1..(Len(s.ring) - m) : Drop(s.ring, m)[i] = s.ring[m + i]
      BY <1>1, <2>1, DropIs
    <2>4. \A i \in 1..k : back[i] = s.ring[m + i]
      BY <2>1, <2>2, <2>3
    <2> QED
      BY <2>1, <2>2, <2>3, <2>4 DEF m
  <1>6. ASSUME NEW i \in 1..k PROVE back[i].seq = s.seq - k + i /\ back[i].seq \in Int
    <2>1. (n - k) + i \in 1..n /\ i \in Int
      BY <1>2, <1>4
    <2>2. s.ring[(n - k) + i].seq = s.dropped + ((n - k) + i)
      BY <1>1, <1>2, <2>1
    <2>3. back[i] = s.ring[(n - k) + i]
      BY <1>5
    <2>4. s.dropped + ((n - k) + i) = s.seq - k + i /\ s.seq - k + i \in Int
      <3>1. \A a, b, c, d, e \in Int : a + b = c => a + ((b - d) + e) = c - d + e /\ c - d + e \in Int
        OBVIOUS
      <3>2. s.dropped \in Int /\ n \in Int /\ s.seq \in Int /\ s.dropped + n = s.seq
        BY <1>1, <1>2
      <3> HIDE DEF n
      <3> QED
        BY <1>4, <2>1, <3>1, <3>2
    <2> QED
      BY <2>2, <2>3, <2>4
  <1>7. DOMAIN back = 1..k /\ k \in Nat
    BY <1>2, <1>5, LenProperties
  <1>8. got = [i \in 1..k |-> back[i].seq]
    BY <1>7 DEF Sequences
  <1>9. got \in Seq(Int) /\ Len(got) = k /\ DOMAIN got = 1..k
    BY <1>6, <1>7, <1>8
  <1>10. \A i \in 1..k : got[i] = s.seq - Len(got) + i
    BY <1>6, <1>8, <1>9
  <1> QED
    BY <1>9, <1>10 DEF IsTail

\* A chunk that is pushed goes to all who watch, so that they still have the end
\* of the output (pushOutput).
LEMMA SentIsTail ==
    ASSUME NEW s, s.seq \in Nat, NEW got \in Seq(Int), IsTail(s, got),
           NEW t, t.seq = s.seq + 1
    PROVE  Append(got, s.seq + 1) \in Seq(Int) /\ IsTail(t, Append(got, s.seq + 1))
  <1> DEFINE more == Append(got, s.seq + 1)
             n == Len(got)
  <1>1. /\ more \in Seq(Int) /\ Len(more) = n + 1 /\ more[n + 1] = s.seq + 1
        /\ \A i \in 1..n : more[i] = got[i]
    BY AppendProperties
  <1>2. n \in Nat /\ DOMAIN got = 1..n
    BY LenProperties
  <1> HIDE DEF more, n
  <1>3. DOMAIN more = 1..(n + 1)
    BY <1>1, <1>2, LenProperties
  <1>4. ASSUME NEW i \in 1..n PROVE more[i] = t.seq - Len(more) + i
    <2>1. got[i] = s.seq - n + i
      BY <1>2 DEF IsTail, n
    <2>2. s.seq - n + i = (s.seq + 1) - (n + 1) + i
      BY <1>2
    <2> QED
      BY <1>1, <2>1, <2>2
  <1>5. more[n + 1] = t.seq - Len(more) + (n + 1)
    BY <1>1, <1>2
  <1>6. \A i \in 1..(n + 1) : i \in 1..n \/ i = n + 1
    BY <1>2
  <1> QED
    BY <1>1, <1>3, <1>4, <1>5, <1>6 DEF IsTail, more

\* A change of its status leaves a session sound.
LEMMA BecomesIsSound ==
    ASSUME NEW s, SoundStream(s),
           NEW status \in {"ATTACHED", "STREAMING", "PAUSED", "TERMINATED", "ERROR"}
    PROVE  /\ SoundStream(Becomes(s, status)) /\ Becomes(s, status).status = status
           /\ Becomes(s, status).seq = s.seq /\ Becomes(s, status).listeners = s.listeners
  <1> DEFINE t == Becomes(s, status)
  <1>1. DOMAIN s = StreamedFields /\ s = [x \in StreamedFields |-> s[x]]
    BY DEF SoundStream
  <1>2. t = [s EXCEPT !.status = status]
    BY DEF Becomes
  <1> HIDE DEF t
  <1>3. /\ DOMAIN t = StreamedFields /\ t = [x \in StreamedFields |-> t[x]]
        /\ t.status = status /\ t.seq = s.seq /\ t.ring = s.ring /\ t.dropped = s.dropped
        /\ t.listeners = s.listeners
    BY <1>1, <1>2 DEF StreamedFields
  <1>4. RingIsTail(t)
    BY <1>3 DEF SoundStream, RingIsTail
  <1>5. SoundStream(t)
    BY <1>3, <1>4 DEF SoundStream
  <1> QED
    BY <1>3, <1>5 DEF t

\* Who joins finds a sound session, whose other viewers are those it had
\* (handleWsOpen, handleSseStream).
LEMMA JoinedIsSound ==
    ASSUME TunnelInv, NEW v \in Viewers
    PROVE  /\ SoundStream(Joined(v))
           /\ HasSession => /\ Joined(v).seq = tunnel.session.seq
                            /\ Joined(v).status = tunnel.session.status
           /\ \A w \in Joined(v).listeners :
                w = v \/ (HasSession /\ w \in tunnel.session.listeners)
  <1> DEFINE s == IF HasSession THEN tunnel.session ELSE NewSession
             t == Joined(v)
  <1>1. SoundStream(s) /\ (~HasSession => s.listeners = {})
    BY NewIsSound DEF TunnelInv
  <1>2. t = [s EXCEPT !.listeners = s.listeners \cup {v}]
    BY DEF Joined
  <1>3. HasSession => s = tunnel.session
    OBVIOUS
  <1> HIDE DEF s, t
  <1>4. DOMAIN s = StreamedFields /\ s = [x \in StreamedFields |-> s[x]]
    BY <1>1 DEF SoundStream
  <1>5. /\ DOMAIN t = StreamedFields /\ t = [x \in StreamedFields |-> t[x]]
        /\ t.status = s.status /\ t.seq = s.seq /\ t.ring = s.ring /\ t.dropped = s.dropped
        /\ t.listeners = s.listeners \cup {v}
    BY <1>2, <1>4 DEF StreamedFields
  <1>6. RingIsTail(t)
    BY <1>1, <1>5 DEF SoundStream, RingIsTail
  <1>7. SoundStream(t)
    BY <1>1, <1>5, <1>6 DEF SoundStream
  <1> QED
    BY <1>1, <1>3, <1>5, <1>7 DEF t

\* Every step keeps what the viewers see the end of the output; the only one that
\* sends is the push of a session that has not ended, and those who join later
\* are new (pushOutput, handleWsOpen, emitError).
LEMMA TunnelKeeps == TunnelInv /\ TunnelNext => TunnelInv' /\ EndedIsSilent
  <1> SUFFICES ASSUME TunnelInv, TunnelNext PROVE TunnelInv' /\ EndedIsSilent
    OBVIOUS
  <1> DEFINE Kept == TunnelInv' /\ EndedIsSilent
             Links == [Viewers -> {"new", "open", "closed"}]
  <1>t. /\ tunnel = [running |-> tunnel.running, session |-> tunnel.session,
                     link |-> tunnel.link, got |-> tunnel.got]
        /\ tunnel.link \in Links /\ tunnel.got \in [Viewers -> Seq(Int)]
        /\ \A v \in Viewers : tunnel.link[v] = "new" => tunnel.got[v] = <<>>
        /\ tunnel.session # None =>
             /\ SoundStream(tunnel.session)
             /\ \A v \in tunnel.session.listeners :
                  tunnel.link[v] = "open" => IsTail(tunnel.session, tunnel.got[v])
    BY DEF TunnelInv, HasSession
  <1>l. tunnel.session # None => tunnel.session.listeners \subseteq Viewers
    BY <1>t DEF SoundStream
  <1> USE DEF HasSession
  <1>1. ASSUME NEW running, NEW link \in Links,
               tunnel' = [running |-> running, session |-> tunnel.session,
                          link |-> link, got |-> tunnel.got],
               \A v \in Viewers : link[v] \in {"new", "open"} => link[v] = tunnel.link[v]
        PROVE  Kept
    <2>1. \A v \in Viewers : link[v] = "new" => tunnel.got[v] = <<>>
      BY <1>1, <1>t
    <2>2. tunnel.session # None => \A v \in tunnel.session.listeners :
             link[v] = "open" => IsTail(tunnel.session, tunnel.got[v])
      BY <1>1, <1>t, <1>l
    <2> QED
      BY <1>1, <1>t, <2>1, <2>2, TunnelStep
  <1>2. CASE Start
    <2>1. tunnel' = [running |-> TRUE, session |-> tunnel.session,
                     link |-> tunnel.link, got |-> tunnel.got]
      BY <1>2, <1>t DEF Start
    <2> QED
      BY <2>1, <1>1, <1>t
  <1>3. CASE Stop
    <2> DEFINE link == [v \in Viewers |-> IF tunnel.link[v] = "open" THEN "closed"
                                          ELSE tunnel.link[v]]
    <2>1. tunnel' = [running |-> FALSE, session |-> tunnel.session,
                     link |-> link, got |-> tunnel.got]
      BY <1>3, <1>t DEF Stop
    <2>2. link \in Links
      BY <1>t
    <2>3. \A v \in Viewers : link[v] \in {"new", "open"} => link[v] = tunnel.link[v]
      OBVIOUS
    <2> HIDE DEF link
    <2> QED
      BY <2>1, <2>2, <2>3, <1>1
  <1>4. ASSUME NEW v \in Viewers, Close(v) PROVE Kept
    <2> DEFINE link == [tunnel.link EXCEPT ![v] = "closed"]
    <2>1. tunnel' = [running |-> tunnel.running, session |-> tunnel.session,
                     link |-> link, got |-> tunnel.got]
      BY <1>4, <1>t DEF Close
    <2>2. link \in Links
      BY <1>t
    <2>3. \A w \in Viewers : link[w] \in {"new", "open"} => link[w] = tunnel.link[w]
      BY <1>t
    <2> HIDE DEF link
    <2> QED
      BY <2>1, <2>2, <2>3, <1>1
  <1>5. CASE CreateSession
    <2>1. tunnel' = [running |-> tunnel.running, session |-> NewSession,
                     link |-> tunnel.link, got |-> tunnel.got]
      BY <1>5, <1>t DEF CreateSession
    <2>2. tunnel.session = None
      BY <1>5 DEF CreateSession
    <2> QED
      BY <2>1, <2>2, <1>t, NewIsSound, TunnelStep
  <1>6. CASE RemoveSession
    <2>1. tunnel' = [running |-> tunnel.running, session |-> None,
                     link |-> tunnel.link, got |-> tunnel.got]
      BY <1>6, <1>t DEF RemoveSession
    <2> QED
      BY <2>1, <1>t, TunnelStep
  <1>7. ASSUME NEW status \in {"ATTACHED", "STREAMING", "PAUSED", "TERMINATED", "ERROR"},
               tunnel.session # None,
               tunnel' = [tunnel EXCEPT !.session = Becomes(@, status)],
               Ended(tunnel.session) => status \in {"TERMINATED", "ERROR"}
        PROVE  Kept
    <2> DEFINE s == Becomes(tunnel.session, status)
    <2>1. tunnel' = [running |-> tunnel.running, session |-> s,
                     link |-> tunnel.link, got |-> tunnel.got]
      BY <1>7, <1>t
    <2>2. /\ SoundStream(s) /\ s.status = status /\ s.seq = tunnel.session.seq
          /\ s.listeners = tunnel.session.listeners
      BY <1>7, <1>t, BecomesIsSound
    <2> HIDE DEF s
    <2>3. \A v \in s.listeners : tunnel.link[v] = "open" => IsTail(s, tunnel.got[v])
      BY <1>7, <1>t, <2>2 DEF IsTail
    <2>4. Ended(tunnel.session) => Ended(s)
      BY <1>7, <2>2 DEF Ended
    <2> QED
      BY <2>1, <2>2, <2>3, <2>4, <1>t, TunnelStep
  <1>8. CASE Pause \/ Resume \/ ResizeFails \/ \E broken \in BOOLEAN : Terminate(broken)
    <2>1. CASE Pause
      BY <2>1, <1>7 DEF Pause, Ended
    <2>2. CASE Resume
      BY <2>2, <1>7 DEF Resume, Ended
    <2>3. CASE ResizeFails
      BY <2>3, <1>7 DEF ResizeFails
    <2>4. ASSUME NEW broken \in BOOLEAN, Terminate(broken) PROVE Kept
      BY <2>4, <1>7 DEF Terminate
    <2> QED
      BY <1>8, <2>1, <2>2, <2>3, <2>4
  <1>9. ASSUME NEW size \in Sizes, NEW broken \in BOOLEAN, PushOutput(size, broken) PROVE Kept
    <2> DEFINE s == tunnel.session
               status == IF broken THEN "ERROR" ELSE "STREAMING"
               t == Becomes(Pushed(s, size), status)
               got == [v \in Viewers |-> IF v \in s.listeners /\ tunnel.link[v] = "open"
                                         THEN Append(tunnel.got[v], s.seq + 1)
                                         ELSE tunnel.got[v]]
    <2>1. s # None /\ ~Ended(s)
      BY <1>9 DEF PushOutput, TakesOutput
    <2>2. tunnel' = [running |-> tunnel.running, session |-> t,
                     link |-> tunnel.link, got |-> got]
      BY <1>9, <1>t DEF PushOutput
    <2>3. SoundStream(s) /\ s.seq \in Nat /\ s.listeners \subseteq Viewers
      BY <2>1, <1>t DEF SoundStream
    <2>4. SoundStream(t) /\ t.seq = s.seq + 1 /\ t.listeners = s.listeners
      BY <2>3, PushIsSound, BecomesIsSound
    <2> HIDE DEF t
    <2>5. ASSUME NEW v \in Viewers
          PROVE  /\ got[v] \in Seq(Int)
                 /\ tunnel.link[v] = "new" => got[v] = <<>>
                 /\ v \in s.listeners /\ tunnel.link[v] = "open" => IsTail(t, got[v])
      <3>1. CASE v \in s.listeners /\ tunnel.link[v] = "open"
        <4>1. IsTail(s, tunnel.got[v]) /\ tunnel.got[v] \in Seq(Int)
          BY <3>1, <2>1, <1>t
        <4>2. got[v] = Append(tunnel.got[v], s.seq + 1)
          BY <3>1
        <4> HIDE DEF s, got
        <4>3. got[v] \in Seq(Int) /\ IsTail(t, got[v])
          BY <4>1, <4>2, <2>3, <2>4, SentIsTail
        <4> QED
          BY <3>1, <4>3
      <3>2. CASE ~(v \in s.listeners /\ tunnel.link[v] = "open")
        BY <3>2, <1>t
      <3> QED
        BY <3>1, <3>2
    <2>6. got \in [Viewers -> Seq(Int)]
      BY <2>5
    <2>7. \A v \in t.listeners : tunnel.link[v] = "open" => IsTail(t, got[v])
      BY <2>3, <2>4, <2>5
    <2>8. \A v \in Viewers : tunnel.link[v] = "new" => got[v] = <<>>
      BY <2>5
    <2> HIDE DEF got
    <2> QED
      BY <2>1, <2>2, <2>4, <2>6, <2>7, <2>8, <1>t, TunnelStep
  <1>10. ASSUME NEW v \in Viewers, tunnel.link[v] = "new", NEW sent \in Seq(Int),
                IsTail(Joined(v), sent),
                tunnel' = [running |-> tunnel.running, session |-> Joined(v),
                           link |-> [tunnel.link EXCEPT ![v] = "open"],
                           got |-> [tunnel.got EXCEPT ![v] = sent]]
         PROVE  Kept
    <2> DEFINE s == Joined(v)
               link == [tunnel.link EXCEPT ![v] = "open"]
               got == [tunnel.got EXCEPT ![v] = sent]
    <2>1. link \in Links /\ got \in [Viewers -> Seq(Int)]
      BY <1>t
    <2>2. \A w \in Viewers : w # v => link[w] = tunnel.link[w] /\ got[w] = tunnel.got[w]
      BY <1>t
    <2>3. link[v] = "open" /\ got[v] = sent
      BY <1>t
    <2>4. /\ SoundStream(s)
          /\ tunnel.session # None => /\ s.seq = tunnel.session.seq
                                      /\ s.status = tunnel.session.status
          /\ \A w \in s.listeners :
               w = v \/ (tunnel.session # None /\ w \in tunnel.session.listeners)
      BY JoinedIsSound
    <2>5. IsTail(s, sent)
      BY <1>10
    <2>6. tunnel' = [running |-> tunnel.running, session |-> s, link |-> link, got |-> got]
      BY <1>10
    <2> HIDE DEF s, link, got
    <2>7. ASSUME NEW w \in s.listeners, link[w] = "open" PROVE IsTail(s, got[w])
      <3>1. CASE w = v
        BY <3>1, <2>3, <2>5
      <3>2. CASE w # v
        <4>1. /\ tunnel.session # None /\ w \in tunnel.session.listeners /\ w \in Viewers
              /\ s.seq = tunnel.session.seq
          BY <3>2, <2>4, <1>l
        <4>2. IsTail(tunnel.session, tunnel.got[w])
          BY <4>1, <3>2, <2>2, <2>7, <1>t
        <4> QED
          BY <4>1, <4>2, <3>2, <2>2 DEF IsTail
      <3> QED
        BY <3>1, <3>2
    <2>8. \A w \in Viewers : link[w] = "new" => got[w] = <<>>
      BY <2>2, <2>3, <1>t
    <2>9. \A w \in Viewers : tunnel.link[w] # "new" => got[w] = tunnel.got[w]
      BY <1>10, <2>2
    <2>10. tunnel.session # None /\ Ended(tunnel.session) => Ended(s)
      BY <2>4 DEF Ended
    <2> QED
      BY <2>1, <2>4, <2>6, <2>7, <2>8, <2>9, <2>10, TunnelStep
  <1>11. ASSUME NEW v \in WebSockets, OpenWebSocket(v) PROVE Kept
    <2> DEFINE sent == Sequences(Scrollback(Joined(v).ring, MaxLines, MaxBytes))
    <2>1. v \in Viewers /\ tunnel.link[v] = "new"
      BY <1>11 DEF OpenWebSocket, Viewers
    <2>2. tunnel' = [running |-> tunnel.running, session |-> Joined(v),
                     link |-> [tunnel.link EXCEPT ![v] = "open"],
                     got |-> [tunnel.got EXCEPT ![v] = sent]]
      BY <1>11, <1>t DEF OpenWebSocket
    <2>3. SoundStream(Joined(v))
      BY <2>1, JoinedIsSound
    <2>4. sent \in Seq(Int) /\ IsTail(Joined(v), sent)
      BY <2>3, ScrollbackIsTail
    <2> HIDE DEF sent
    <2> QED
      BY <2>1, <2>2, <2>4, <1>10
  <1>12. ASSUME NEW v \in EventStreams, OpenEventStream(v) PROVE Kept
    <2>1. v \in Viewers /\ tunnel.link[v] = "new" /\ tunnel.got[v] = <<>>
      BY <1>12, <1>t DEF OpenEventStream, Viewers
    <2>2. [tunnel.got EXCEPT ![v] = <<>>] = tunnel.got
      BY <2>1, <1>t
    <2>3. tunnel' = [running |-> tunnel.running, session |-> Joined(v),
                     link |-> [tunnel.link EXCEPT ![v] = "open"],
                     got |-> [tunnel.got EXCEPT ![v] = <<>>]]
      BY <1>12, <1>t, <2>2 DEF OpenEventStream
    <2>4. <<>> \in Seq(Int) /\ IsTail(Joined(v), <<>>)
      BY EmptySeq DEF IsTail
    <2> QED
      BY <2>1, <2>3, <2>4, <1>10
  <1> QED
    BY <1>2, <1>3, <1>4, <1>5, <1>6, <1>8, <1>9, <1>11, <1>12 DEF TunnelNext
-----------------------------------------------------------------------------
(* The stream of a provider *)

\* The part of a sequence that comes after its first a members and ends with b.
Part(s, a, b) == SubSeq(s, a + 1, b)

\* The members of a part.
LEMMA PartIs ==
    ASSUME NEW S, NEW s \in Seq(S), NEW a \in 0..Len(s), NEW b \in a..Len(s)
    PROVE  /\ Part(s, a, b) \in Seq(S) /\ Len(Part(s, a, b)) = b - a
           /\ DOMAIN Part(s, a, b) = 1..(b - a)
           /\ \A i \in 1..(b - a) : Part(s, a, b)[i] = s[a + i]
  <1>1. Len(s) \in Nat /\ a \in Int /\ b \in Int /\ a + 1 \in Int /\ 0 <= a /\ a <= b /\ b <= Len(s)
    BY LenProperties
  <1>2. \A i \in (a + 1)..b : s[i] \in S
    <2>1. \A i \in (a + 1)..b : i \in 1..Len(s)
      BY <1>1
    <2> QED
      BY <2>1, ElementOfSeq
  <1> DEFINE p == Part(s, a, b)
  <1>3. /\ p \in Seq(S) /\ Len(p) = IF a + 1 <= b THEN b - (a + 1) + 1 ELSE 0
        /\ \A i \in 1..(b - (a + 1) + 1) : p[i] = s[(a + 1) + i - 1]
    BY <1>1, <1>2, SubSeqProperties DEF Part
  <1> HIDE DEF p
  <1>4. Len(p) = b - a
    BY <1>1, <1>3
  <1>5. ASSUME NEW i \in 1..(b - a) PROVE p[i] = s[a + i]
    <2>1. i \in Int
      BY <1>1
    <2>2. i \in 1..(b - (a + 1) + 1) /\ (a + 1) + i - 1 = a + i
      BY <1>1, <2>1
    <2>3. p[i] = s[(a + 1) + i - 1]
      BY <1>3, <2>2
    <2> QED
      BY <2>2, <2>3
  <1>6. DOMAIN p = 1..(b - a)
    BY <1>3, <1>4, LenProperties
  <1> QED
    BY <1>3, <1>4, <1>5, <1>6 DEF p

\* A part of a part.
LEMMA PartOfPart ==
    ASSUME NEW S, NEW s \in Seq(S), NEW a \in 0..Len(s), NEW b \in a..Len(s),
           NEW c \in 0..(b - a), NEW d \in c..(b - a)
    PROVE  Part(Part(s, a, b), c, d) = Part(s, a + c, a + d)
  <1> DEFINE p == Part(s, a, b)
             q == Part(p, c, d)
             r == Part(s, a + c, a + d)
  <1>1. /\ Len(s) \in Nat /\ a \in Int /\ b \in Int /\ c \in Int /\ d \in Int
        /\ 0 <= a /\ a <= b /\ b <= Len(s) /\ 0 <= c /\ c <= d /\ d <= b - a
    BY LenProperties
  <1>2. p \in Seq(S) /\ Len(p) = b - a /\ \A i \in 1..(b - a) : p[i] = s[a + i]
    BY PartIs
  <1> HIDE DEF p
  <1>3. c \in 0..Len(p) /\ d \in c..Len(p) /\ a + c \in 0..Len(s) /\ a + d \in (a + c)..Len(s)
    BY <1>1, <1>2
  <1>4. q \in Seq(S) /\ Len(q) = d - c /\ \A i \in 1..(d - c) : q[i] = p[c + i]
    <2>1. p \in Seq(S) /\ c \in 0..Len(p) /\ d \in c..Len(p)
      BY <1>2, <1>3
    <2> QED
      BY ONLY <2>1, PartIs
  <1>5. /\ r \in Seq(S) /\ Len(r) = (a + d) - (a + c)
        /\ \A i \in 1..((a + d) - (a + c)) : r[i] = s[(a + c) + i]
    BY <1>3, PartIs
  <1> HIDE DEF q, r
  <1>6. (a + d) - (a + c) = d - c
    BY <1>1
  <1>7. ASSUME NEW i \in 1..Len(q) PROVE q[i] = r[i]
    <2>1. i \in Int /\ 1 <= i /\ i <= d - c
      BY <1>1, <1>4
    <2>2. c + i \in 1..(b - a) /\ a + (c + i) = (a + c) + i
      BY <1>1, <2>1
    <2>3. q[i] = p[c + i] /\ p[c + i] = s[a + (c + i)]
      BY <1>2, <1>4, <2>2
    <2>4. r[i] = s[(a + c) + i]
      BY <1>4, <1>5, <1>6
    <2> QED
      BY <2>2, <2>3, <2>4
  <1>8. q = r
    BY <1>4, <1>5, <1>6, <1>7, SeqEqual
  <1> QED
    BY <1>8 DEF p, q, r

\* Adjacent parts make one.
LEMMA PartsJoin ==
    ASSUME NEW S, NEW s \in Seq(S), NEW a \in 0..Len(s), NEW b \in a..Len(s), NEW c \in b..Len(s)
    PROVE  Part(s, a, b) \o Part(s, b, c) = Part(s, a, c)
  <1>1. Len(s) \in Nat /\ a \in Int /\ b \in Int /\ c \in Int
    BY LenProperties
  <1>2. a + 1 \in 1..(Len(s) + 1) /\ b \in ((a + 1) - 1)..Len(s)
    BY <1>1
  <1>3. SubSeq(s, a + 1, b) \o SubSeq(s, b + 1, c) = SubSeq(s, a + 1, c)
    BY <1>2, ConcatAdjacentSubSeq
  <1> QED
    BY <1>3 DEF Part

-----------------------------------------------------------------------------
\* The pieces that come: two for each line but an unfinished last one.
Sent(lines, unfinished) == IF unfinished THEN Front(Pieces(lines)) ELSE Pieces(lines)

Whole(lines, unfinished) == Len(lines) - (IF unfinished THEN 1 ELSE 0)

Piece == Int \X {"head", "tail"}

\* Heads and tails alternate.
LEMMA SentIs ==
    ASSUME NEW lines \in Seq(SentLines), NEW unfinished \in BOOLEAN, unfinished => lines # <<>>
    PROVE  /\ Sent(lines, unfinished) \in Seq(Piece) /\ Whole(lines, unfinished) \in 0..Len(lines)
           /\ Len(Sent(lines, unfinished)) \in {2 * Whole(lines, unfinished), 2 * Whole(lines, unfinished) + 1}
           /\ \A k \in 1..Len(Sent(lines, unfinished)) :
                Sent(lines, unfinished)[k][2] = "tail" <=> k % 2 # 1
           /\ \A i \in 0..(Whole(lines, unfinished) - 1) :
                /\ 2 * i + 1 \in 1..Len(Sent(lines, unfinished))
                /\ Sent(lines, unfinished)[2 * i + 1] = <<i + 1, "head">>
  <1> DEFINE n == Len(lines)
             p == Pieces(lines)
             w == Whole(lines, unfinished)
             sent == Sent(lines, unfinished)
  <1>1. n \in Nat /\ (unfinished => n >= 1)
    BY LenProperties, EmptySeq
  <1>2. /\ p \in Seq(Piece) /\ Len(p) = 2 * n
        /\ \A k \in 1..(2 * n) : p[k] = <<(k + 1) \div 2, IF k % 2 = 1 THEN "head" ELSE "tail">>
    <2>1. \A k \in 1..(2 * n) :
            <<(k + 1) \div 2, IF k % 2 = 1 THEN "head" ELSE "tail">> \in Piece
      BY <1>1 DEF Piece
    <2>2. p = [k \in 1..(2 * n) |-> <<(k + 1) \div 2, IF k % 2 = 1 THEN "head" ELSE "tail">>]
      BY DEF Pieces
    <2>3. 2 * n \in Nat
      BY <1>1
    <2> HIDE DEF p
    <2> QED
      BY <2>1, <2>2, <2>3
  <1>3. w \in 0..n /\ w = n - (IF unfinished THEN 1 ELSE 0)
    BY <1>1 DEF Whole
  <1> HIDE DEF p
  <1>4. /\ sent \in Seq(Piece) /\ Len(sent) = 2 * n - (IF unfinished THEN 1 ELSE 0)
        /\ \A k \in 1..Len(sent) : k \in 1..(2 * n) /\ sent[k] = p[k]
    <2>1. CASE ~unfinished
      <3>1. sent = p
        BY <2>1 DEF Sent, p
      <3> QED
        BY <1>1, <1>2, <2>1, <3>1
    <2>2. CASE unfinished
      <3>1. sent = Part(p, 0, 2 * n - 1)
        BY <1>2, <2>2 DEF Sent, p, Part, Front
      <3>2. 0 \in 0..Len(p) /\ 2 * n - 1 \in 0..Len(p)
        BY <1>1, <1>2, <2>2
      <3> DEFINE m == 2 * n - 1
      <3>3. m \in Int /\ m <= 2 * n
        BY <1>1
      <3> HIDE DEF m, sent
      <3>4. /\ Part(p, 0, m) \in Seq(Piece) /\ Len(Part(p, 0, m)) = m - 0
            /\ \A i \in 1..(m - 0) : Part(p, 0, m)[i] = p[0 + i]
        BY <1>2, <3>2, PartIs DEF m
      <3>5. \A i \in 1..m : 0 + i = i /\ i \in 1..(2 * n)
        BY <1>1, <3>3
      <3>6. m - 0 = m
        BY <3>3
      <3>7. sent = Part(p, 0, m)
        BY <3>1 DEF m
      <3> QED
        BY <2>2, <3>4, <3>5, <3>6, <3>7 DEF m
    <2> QED
      BY <2>1, <2>2
  <1> HIDE DEF sent, w
  <1>5. Len(sent) \in {2 * w, 2 * w + 1}
    BY <1>1, <1>3, <1>4
  <1>6. ASSUME NEW k \in 1..Len(sent) PROVE sent[k][2] = "tail" <=> k % 2 # 1
    <2>1. sent[k] = <<(k + 1) \div 2, IF k % 2 = 1 THEN "head" ELSE "tail">>
      BY <1>2, <1>4
    <2>2. sent[k][2] = IF k % 2 = 1 THEN "head" ELSE "tail"
      BY <2>1
    <2>3. CASE k % 2 = 1
      BY <2>2, <2>3
    <2>4. CASE k % 2 # 1
      BY <2>2, <2>4
    <2> QED
      BY <2>3, <2>4
  <1>7. ASSUME NEW i \in 0..(w - 1)
        PROVE  2 * i + 1 \in 1..Len(sent) /\ sent[2 * i + 1] = <<i + 1, "head">>
    <2>1. i \in Int /\ 2 * i + 1 \in 1..Len(sent)
      BY <1>1, <1>3, <1>5
    <2>2. ((2 * i + 1) + 1) \div 2 = i + 1 /\ (2 * i + 1) % 2 = 1
      BY <2>1
    <2> QED
      BY <1>2, <1>4, <2>1, <2>2
  <1> QED
    BY <1>3, <1>4, <1>5, <1>6, <1>7 DEF sent, w

\* Pieces whose tails are the even ones.
Alternates(s) == \A k \in 1..Len(s) : s[k][2] = "tail" <=> k % 2 # 1

\* The newlines after a whole number of lines.
LEMMA NewlinesAre ==
    ASSUME NEW s \in Seq(Piece), Alternates(s), NEW k \in Nat, NEW r \in (2 * k)..Len(s)
    PROVE  Newlines(Part(s, 2 * k, r)) = {i \in 1..(r - 2 * k) : i % 2 # 1}
  <1> DEFINE a == 2 * k
             p == Part(s, a, r)
  <1>1. Len(s) \in Nat /\ a \in 0..Len(s) /\ r \in Int /\ a <= r /\ r <= Len(s)
    BY LenProperties
  <1>2. DOMAIN p = 1..(r - a) /\ \A i \in 1..(r - a) : p[i] = s[a + i]
    <2> HIDE DEF a
    <2>1. a \in 0..Len(s) /\ r \in a..Len(s)
      BY <1>1
    <2>2. /\ DOMAIN Part(s, a, r) = 1..(r - a)
          /\ \A i \in 1..(r - a) : Part(s, a, r)[i] = s[a + i]
      BY ONLY s \in Seq(Piece), <2>1, PartIs
    <2> QED
      BY <2>2
  <1> HIDE DEF p
  <1>3. ASSUME NEW i \in 1..(r - a) PROVE p[i][2] = "tail" <=> i % 2 # 1
    <2>1. i \in Int /\ a + i \in 1..Len(s)
      BY <1>1
    <2>2. (a + i) % 2 = i % 2
      BY <2>1
    <2> QED
      BY <1>2, <2>1, <2>2 DEF Alternates
  <1>4. Newlines(p) = {i \in 1..(r - a) : i % 2 # 1}
    BY <1>2, <1>3 DEF Newlines
  <1> QED
    BY <1>4 DEF p

\* What a chunk completes are lines, what is left at most a head (split).
LEMMA SplitIs ==
    ASSUME NEW s \in Seq(Piece), Alternates(s), NEW k \in Nat, NEW q \in 0..Len(s),
           q \in {2 * k, 2 * k + 1}, NEW r \in q..Len(s)
    PROVE  \E j \in Nat :
             /\ k <= j /\ r \in {2 * j, 2 * j + 1}
             /\ Split(Part(s, 2 * k, q), Part(s, q, r)) = <<Part(s, 2 * k, 2 * j), Part(s, 2 * j, r)>>
  <1> DEFINE a == 2 * k
             j == r \div 2
             b == 2 * j
             pieces == Part(s, a, r)
  <1>1. /\ Len(s) \in Nat /\ q \in Int /\ r \in Int /\ 0 <= q /\ q <= r /\ r <= Len(s)
        /\ a \in 0..Len(s) /\ a <= q
    BY LenProperties
  <1>2. j \in Nat /\ k <= j /\ r \in {b, b + 1} /\ a <= b /\ b <= r
    BY <1>1
  <1>3. pieces = Part(s, a, q) \o Part(s, q, r)
    <2> HIDE DEF a
    <2> QED
      BY <1>1, PartsJoin
  <1>4. Newlines(pieces) = {i \in 1..(r - a) : i % 2 # 1}
    BY <1>1, NewlinesAre
  <1>5. Len(pieces) = r - a
    <2> HIDE DEF a
    <2> QED
      BY <1>1, PartIs
  <1>6. LastNewline(pieces) = b - a
    <2> DEFINE T == {0} \cup Newlines(pieces)
    <2>1. b - a \in T
      <3>1. CASE b = a
        BY <3>1, <1>1
      <3>2. CASE b # a
        <4>1. b - a \in 1..(r - a) /\ (b - a) % 2 # 1
          BY <3>2, <1>1, <1>2
        <4> QED
          BY <4>1, <1>4
      <3> QED
        BY <3>1, <3>2
    <2>2. ASSUME NEW i \in T PROVE i \in Int /\ i <= b - a
      <3>1. CASE i = 0
        BY <3>1, <1>1, <1>2
      <3>2. CASE i \in 1..(r - a) /\ i % 2 # 1
        BY <3>2, <1>1, <1>2
      <3> QED
        BY <3>1, <3>2, <1>4
    <2> HIDE DEF T
    <2>3. \A x \in T : (\A y \in T : x >= y) => x = b - a
      <3>1. ASSUME NEW x \in T, \A y \in T : x >= y PROVE x = b - a
        <4>1. x >= b - a /\ x <= b - a /\ x \in Int
          BY <2>1, <2>2, <3>1
        <4>2. b - a \in Int
          BY <2>1, <2>2
        <4> QED
          BY <4>1, <4>2
      <3> QED
        BY <3>1
    <2>4. \A y \in T : b - a >= y
      BY <2>1, <2>2
    <2>5. Max(T) = b - a
      BY <2>1, <2>3, <2>4 DEF Max
    <2> QED
      BY <2>5 DEF T, LastNewline
  <1> HIDE DEF pieces
  <1>7. Split(Part(s, a, q), Part(s, q, r)) = <<Part(pieces, 0, b - a), Part(pieces, b - a, r - a)>>
    <2>1. Split(Part(s, a, q), Part(s, q, r))
            = <<SubSeq(pieces, 1, b - a), SubSeq(pieces, (b - a) + 1, r - a)>>
      <3> HIDE DEF a, b, j
      <3> QED
        BY <1>3, <1>5, <1>6 DEF Split
    <2>2. 0 + 1 = 1
      OBVIOUS
    <2> QED
      BY <2>1, <2>2 DEF Part
  <1> HIDE DEF a, b, j
  <1>8. Part(pieces, 0, b - a) = Part(s, a, b) /\ Part(pieces, b - a, r - a) = Part(s, b, r)
    <2>0. b \in Int /\ a \in Int
      BY <1>2, <1>1 DEF a, b
    <2>1. /\ r \in a..Len(s) /\ 0 \in 0..(r - a) /\ b - a \in 0..(r - a)
          /\ r - a \in (b - a)..(r - a) /\ a + 0 = a /\ a + (b - a) = b /\ a + (r - a) = r
      BY <1>1, <1>2, <2>0
    <2>2. Part(Part(s, a, r), 0, b - a) = Part(s, a + 0, a + (b - a))
      BY <1>1, <2>1, PartOfPart
    <2>3. Part(Part(s, a, r), b - a, r - a) = Part(s, a + (b - a), a + (r - a))
      BY <1>1, <2>1, PartOfPart
    <2> QED
      BY <2>1, <2>2, <2>3 DEF pieces
  <1>9. Split(Part(s, a, q), Part(s, q, r)) = <<Part(s, a, b), Part(s, b, r)>>
    BY <1>7, <1>8
  <1> QED
    BY <1>2, <1>9 DEF a, b

\* The first of some lines ends with their second piece.
LEMMA FirstLineIs ==
    ASSUME NEW s \in Seq(Piece), Alternates(s), NEW h \in Nat, NEW k \in Nat, h < k,
           2 * k <= Len(s)
    PROVE  /\ FirstNewline(Part(s, 2 * h, 2 * k)) = 2
           /\ Part(s, 2 * h, 2 * k)[1] = s[2 * h + 1]
           /\ Part(Part(s, 2 * h, 2 * k), 2, Len(Part(s, 2 * h, 2 * k))) = Part(s, 2 * (h + 1), 2 * k)
           /\ Part(s, 2 * h, 2 * k) # <<>>
  <1> DEFINE a == 2 * h
             b == 2 * k
             p == Part(s, a, b)
  <1>1. /\ Len(s) \in Nat /\ a \in 0..Len(s) /\ b \in a..Len(s) /\ b - a \in Int /\ 2 <= b - a
        /\ a \in Int /\ b \in Int
    BY LenProperties
  <1>2. Newlines(p) = {i \in 1..(b - a) : i % 2 # 1}
    BY <1>1, NewlinesAre
  <1> HIDE DEF a, b
  <1>3. Len(p) = b - a /\ p \in Seq(Piece) /\ \A i \in 1..(b - a) : p[i] = s[a + i]
    BY <1>1, PartIs
  <1>4. FirstNewline(p) = 2
    <2>1. 2 \in Newlines(p)
      BY <1>1, <1>2
    <2>2. ASSUME NEW i \in Newlines(p) PROVE i \in Int /\ 2 <= i
      <3>1. i \in 1..(b - a) /\ i % 2 # 1 /\ 1 % 2 = 1
        BY <1>2
      <3>2. i \in Int /\ 1 <= i
        BY <1>1, <3>1
      <3> QED
        BY <3>1, <3>2
    <2> DEFINE T == Newlines(p)
    <2> HIDE DEF T, p
    <2>3. \A x \in T : (\A y \in T : x <= y) => x = 2
      <3>1. ASSUME NEW x \in T, \A y \in T : x <= y PROVE x = 2
        <4>1. x <= 2 /\ 2 <= x /\ x \in Int
          BY <2>1, <2>2, <3>1 DEF T
        <4> QED
          BY <4>1
      <3> QED
        BY <3>1
    <2>4. 2 \in T /\ \A y \in T : 2 <= y
      BY <2>1, <2>2 DEF T
    <2>5. Min(T) = 2
      BY <2>3, <2>4 DEF Min
    <2> QED
      BY <2>5 DEF T, FirstNewline
  <1>5. p[1] = s[a + 1]
    BY <1>1, <1>3
  <1>6. Part(p, 2, Len(p)) = Part(s, a + 2, b)
    <2>1. 2 \in 0..(b - a) /\ b - a \in 2..(b - a) /\ a + (b - a) = b
      BY <1>1
    <2>2. Part(Part(s, a, b), 2, b - a) = Part(s, a + 2, a + (b - a))
      <3>1. PICK c \in 0..(b - a) : c = 2
        BY <2>1
      <3>0. PICK d \in c..(b - a) : d = b - a
        BY <2>1, <3>1
      <3>2. Part(Part(s, a, b), c, d) = Part(s, a + c, a + d)
        BY <1>1, PartOfPart
      <3> QED
        BY <3>0, <3>1, <3>2
    <2> QED
      BY <1>3, <2>1, <2>2
  <1>7. a + 2 = 2 * (h + 1)
    BY DEF a
  <1>8. p # <<>>
    BY <1>1, <1>3
  <1> QED
    BY <1>4, <1>5, <1>6, <1>7, <1>8 DEF a, b

-----------------------------------------------------------------------------
\* What the first lines of a stream amount to.
PassedBy(adapter, line) ==
  line \in {"text", "finish", "usage in", "usage out"} \cup (IF adapter = "openai" THEN {"call"} ELSE {})

PassedIn(adapter, lines, h) == {i \in 1..h : PassedBy(adapter, lines[i])}

HasLine(lines, h, what) == {i \in 1..h : lines[i] = what}

Usage == [in : Int, out : Int]

Morsel == [said : SentLines] \cup [usage : Usage]

Fits(chunk, line) ==
  IF IsUsage(line) THEN "usage" \in DOMAIN chunk ELSE chunk = [said |-> line]

\* The consumer was told of the first h lines, once and in order, and the tokens
\* counted are those it was told last.
Tells(adapter, lines, told, usage, actual, h) ==
  /\ told \in Seq(Morsel) /\ usage \in Usage
  /\ Len(told) = Cardinality(PassedIn(adapter, lines, h))
  /\ \A i \in PassedIn(adapter, lines, h) :
       Fits(told[Cardinality(PassedIn(adapter, lines, i))], lines[i])
  /\ Said(told, "text") = Cardinality(HasLine(lines, h, "text"))
  /\ Said(told, "call") = IF adapter = "openai" THEN Cardinality(HasLine(lines, h, "call")) ELSE 0
  /\ actual \in Int \cup {None}
  /\ actual = None <=> Usages(told) = {}
  /\ \A m \in Usages(told) :
       (\A j \in Usages(told) : j <= m) => actual = TotalTokens(told[m].usage)

\* A set of indexes and the next one.
LEMMA NextIndex ==
    ASSUME NEW h \in Nat, NEW T, T \subseteq 1..h
    PROVE  /\ IsFiniteSet(T) /\ Cardinality(T) \in Nat
           /\ IsFiniteSet(T \cup {h + 1}) /\ Cardinality(T \cup {h + 1}) = Cardinality(T) + 1
  <1>1. IsFiniteSet(1..h)
    BY FS_Interval
  <1>2. IsFiniteSet(T)
    BY <1>1, FS_Subset
  <1>3. h + 1 \notin T
    OBVIOUS
  <1> QED
    BY <1>2, <1>3, FS_CardinalityType, FS_AddElement

\* The lines that are passed on, among the first h and among one more.
LEMMA PassedGrows ==
    ASSUME NEW adapter, NEW lines, NEW h \in Nat
    PROVE  /\ PassedIn(adapter, lines, h + 1)
                = IF PassedBy(adapter, lines[h + 1]) THEN PassedIn(adapter, lines, h) \cup {h + 1}
                  ELSE PassedIn(adapter, lines, h)
           /\ Cardinality(PassedIn(adapter, lines, h)) \in Nat
           /\ Cardinality(PassedIn(adapter, lines, h + 1))
                = Cardinality(PassedIn(adapter, lines, h))
                  + (IF PassedBy(adapter, lines[h + 1]) THEN 1 ELSE 0)
  <1> DEFINE p == PassedIn(adapter, lines, h)
             q == PassedIn(adapter, lines, h + 1)
  <1>1. 1..(h + 1) = (1..h) \cup {h + 1}
    OBVIOUS
  <1>2. q = IF PassedBy(adapter, lines[h + 1]) THEN p \cup {h + 1} ELSE p
    BY <1>1 DEF PassedIn
  <1>3. p \subseteq 1..h
    BY DEF PassedIn
  <1> HIDE DEF p, q
  <1>4. Cardinality(p) \in Nat /\ Cardinality(p \cup {h + 1}) = Cardinality(p) + 1
    BY <1>3, NextIndex
  <1>5. Cardinality(q) = Cardinality(p) + (IF PassedBy(adapter, lines[h + 1]) THEN 1 ELSE 0)
    BY <1>2, <1>4
  <1> QED
    BY <1>2, <1>4, <1>5 DEF p, q

\* The lines that say something, likewise.
LEMMA HasGrows ==
    ASSUME NEW lines, NEW h \in Nat, NEW what
    PROVE  /\ Cardinality(HasLine(lines, h, what)) \in Nat
           /\ Cardinality(HasLine(lines, h + 1, what))
                = Cardinality(HasLine(lines, h, what)) + (IF lines[h + 1] = what THEN 1 ELSE 0)
  <1> DEFINE p == HasLine(lines, h, what)
             q == HasLine(lines, h + 1, what)
  <1>1. 1..(h + 1) = (1..h) \cup {h + 1}
    OBVIOUS
  <1>2. q = IF lines[h + 1] = what THEN p \cup {h + 1} ELSE p
    BY <1>1 DEF HasLine
  <1>3. p \subseteq 1..h
    BY DEF HasLine
  <1> HIDE DEF p, q
  <1>4. Cardinality(p) \in Nat /\ Cardinality(p \cup {h + 1}) = Cardinality(p) + 1
    BY <1>3, NextIndex
  <1>5. Cardinality(q) = Cardinality(p) + (IF lines[h + 1] = what THEN 1 ELSE 0)
    BY <1>2, <1>4
  <1> QED
    BY <1>4, <1>5 DEF p, q

\* What one more chunk adds to what was said.
LEMMA SaidGrows ==
    ASSUME NEW told \in Seq(Morsel), NEW chunk \in Morsel, NEW what
    PROVE  /\ Said(told, what) \in Nat
           /\ Said(Append(told, chunk), what)
                = Said(told, what) + (IF chunk = [said |-> what] THEN 1 ELSE 0)
           /\ Usages(Append(told, chunk))
                = IF "usage" \in DOMAIN chunk THEN Usages(told) \cup {Len(told) + 1} ELSE Usages(told)
           /\ Usages(told) \subseteq 1..Len(told)
  <1> DEFINE n == Len(told)
             t == Append(told, chunk)
             p == {i \in DOMAIN told : told[i] = [said |-> what]}
             q == {i \in DOMAIN t : t[i] = [said |-> what]}
  <1>1. /\ n \in Nat /\ DOMAIN told = 1..n /\ DOMAIN t = 1..(n + 1)
        /\ t[n + 1] = chunk /\ \A i \in 1..n : t[i] = told[i]
    <2>1. /\ Len(t) = n + 1 /\ t \in Seq(Morsel) /\ t[n + 1] = chunk
          /\ \A i \in 1..n : t[i] = told[i]
      BY AppendProperties, LenProperties
    <2> QED
      BY <2>1, LenProperties
  <1> HIDE DEF t, n
  <1>2. 1..(n + 1) = (1..n) \cup {n + 1}
    BY <1>1
  <1>3. q = IF chunk = [said |-> what] THEN p \cup {n + 1} ELSE p
    BY <1>1, <1>2
  <1>4. p \subseteq 1..n
    BY <1>1
  <1>5. /\ Usages(t) = IF "usage" \in DOMAIN chunk THEN Usages(told) \cup {n + 1} ELSE Usages(told)
        /\ Usages(told) \subseteq 1..n
    BY <1>1, <1>2 DEF Usages
  <1>6. Said(told, what) = Cardinality(p) /\ Said(t, what) = Cardinality(q)
    BY DEF Said
  <1> HIDE DEF p, q
  <1>7. Cardinality(p) \in Nat /\ Cardinality(p \cup {n + 1}) = Cardinality(p) + 1
    BY <1>1, <1>4, NextIndex
  <1>8. Cardinality(q) = Cardinality(p) + (IF chunk = [said |-> what] THEN 1 ELSE 0)
    BY <1>3, <1>7
  <1> QED
    BY <1>5, <1>6, <1>7, <1>8 DEF t, n

\* Chunks of text and of usage are told apart by their fields.
LEMMA ChunksDiffer ==
    ASSUME NEW u, NEW line, NEW what
    PROVE  /\ [usage |-> u] # [said |-> what] /\ "usage" \in DOMAIN [usage |-> u]
           /\ "usage" \notin DOMAIN [said |-> line]
           /\ [said |-> line] = [said |-> what] <=> line = what
  <1>1. DOMAIN [usage |-> u] = {"usage"} /\ DOMAIN [said |-> what] = {"said"} /\ DOMAIN [said |-> line] = {"said"}
    OBVIOUS
  <1>2. [said |-> line].said = line /\ [said |-> what].said = what
    OBVIOUS
  <1> QED
    BY <1>1, <1>2

\* What updates the usage gives one (mergeAnthropicTokenUsage).
LEMMA MergedIsUsage ==
    ASSUME NEW adapter, NEW usage \in Usage, NEW update
    PROVE  Merged(adapter, usage, update) \in Usage /\ TotalTokens(Merged(adapter, usage, update)) \in Int
  <1>1. Merged(adapter, usage, update) \in Usage
    <2>1. [in |-> 2, out |-> 0] \in Usage /\ [in |-> 2, out |-> 3] \in Usage
      BY DEF Usage
    <2>2. [usage EXCEPT !.in = 2] \in Usage
      BY DEF Usage
    <2>3. [usage EXCEPT !.out = 3] \in Usage
      BY DEF Usage
    <2> HIDE DEF Usage
    <2> QED
      BY <2>1, <2>2, <2>3, Zenon DEF Merged
  <1>2. \A u \in Usage : TotalTokens(u) \in Int
    BY DEF Usage, TotalTokens
  <1> QED
    BY <1>1, <1>2

\* One chunk more for a line that is passed on (the adapters' parsers).
LEMMA TellsOneMore ==
    ASSUME NEW adapter, NEW lines, NEW h \in Nat, NEW told, NEW usage, NEW actual,
           Tells(adapter, lines, told, usage, actual, h),
           NEW chunk \in Morsel, NEW usage2 \in Usage, NEW actual2 \in Int \cup {None},
           PassedBy(adapter, lines[h + 1]), Fits(chunk, lines[h + 1]),
           chunk = [said |-> "text"] <=> lines[h + 1] = "text",
           chunk = [said |-> "call"] <=> lines[h + 1] = "call",
           lines[h + 1] = "call" => adapter = "openai",
           IF "usage" \in DOMAIN chunk THEN actual2 = TotalTokens(chunk.usage) /\ actual2 # None
           ELSE actual2 = actual
    PROVE  Tells(adapter, lines, Append(told, chunk), usage2, actual2, h + 1)
  <1> DEFINE n == Len(told)
             t == Append(told, chunk)
             P(i) == PassedIn(adapter, lines, i)
             place(i) == Cardinality(P(i))
  <1>0. told \in Seq(Morsel) /\ usage \in Usage /\ actual \in Int \cup {None}
    BY DEF Tells
  <1>1. /\ t \in Seq(Morsel) /\ Len(t) = n + 1 /\ t[n + 1] = chunk /\ n \in Nat
        /\ \A i \in 1..n : t[i] = told[i]
    BY <1>0, AppendProperties, LenProperties
  <1>2. P(h + 1) = P(h) \cup {h + 1} /\ place(h + 1) = place(h) + 1 /\ place(h) \in Nat
    BY PassedGrows
  <1>3. n = place(h) /\ \A i \in P(h) : Fits(told[place(i)], lines[i])
    BY DEF Tells
  <1>4. ASSUME NEW i \in P(h) PROVE place(i) \in 1..n
    <2>1. i \in 1..h /\ i \in P(i) /\ P(i) \subseteq P(h)
      BY DEF PassedIn
    <2>2. IsFiniteSet(P(h)) /\ place(h) \in Nat
      <3>1. P(h) \subseteq 1..h
        BY DEF PassedIn
      <3> QED
        BY <3>1, NextIndex
    <2> HIDE DEF P
    <2>3. IsFiniteSet(P(i)) /\ Cardinality(P(i)) <= Cardinality(P(h)) /\ Cardinality(P(i)) \in Nat
      BY <2>1, <2>2, FS_Subset, FS_CardinalityType
    <2>4. Cardinality(P(i)) # 0
      BY <2>1, <2>3, FS_EmptySet
    <2> QED
      BY <1>3, <2>3, <2>4
  <1> HIDE DEF t, P, place
  <1>5. ASSUME NEW i \in P(h + 1) PROVE Fits(t[place(i)], lines[i])
    <2>1. CASE i = h + 1
      BY <2>1, <1>1, <1>2, <1>3
    <2>2. CASE i \in P(h)
      BY <2>2, <1>1, <1>3, <1>4
    <2> QED
      BY <2>1, <2>2, <1>2
  <1>6. \A what : /\ Said(t, what) = Said(told, what) + (IF chunk = [said |-> what] THEN 1 ELSE 0)
                  /\ Said(told, what) \in Nat
    BY <1>0, SaidGrows DEF t
  <1>7. \A what : /\ Cardinality(HasLine(lines, h + 1, what))
                       = Cardinality(HasLine(lines, h, what)) + (IF lines[h + 1] = what THEN 1 ELSE 0)
                  /\ Cardinality(HasLine(lines, h, what)) \in Nat
    BY HasGrows
  <1>8. Said(t, "text") = Cardinality(HasLine(lines, h + 1, "text"))
    <2>1. Said(told, "text") = Cardinality(HasLine(lines, h, "text"))
      BY DEF Tells
    <2> QED
      BY <1>6, <1>7, <2>1
  <1>9. Said(t, "call") = IF adapter = "openai" THEN Cardinality(HasLine(lines, h + 1, "call")) ELSE 0
    <2>1. Said(told, "call") = IF adapter = "openai" THEN Cardinality(HasLine(lines, h, "call")) ELSE 0
      BY DEF Tells
    <2>2. CASE adapter = "openai"
      BY <1>6, <1>7, <2>1, <2>2
    <2>3. CASE adapter # "openai"
      <3>1. chunk # [said |-> "call"]
        BY <2>3
      <3> QED
        BY <1>6, <2>1, <2>3, <3>1
    <2> QED
      BY <2>2, <2>3
  <1>10. /\ Usages(t) = IF "usage" \in DOMAIN chunk THEN Usages(told) \cup {n + 1} ELSE Usages(told)
         /\ Usages(told) \subseteq 1..n
    BY <1>0, SaidGrows DEF t
  <1>11. /\ actual = None <=> Usages(told) = {}
         /\ \A m \in Usages(told) :
              (\A j \in Usages(told) : j <= m) => actual = TotalTokens(told[m].usage)
    BY DEF Tells
  <1>12. /\ actual2 = None <=> Usages(t) = {}
         /\ \A m \in Usages(t) :
              (\A j \in Usages(t) : j <= m) => actual2 = TotalTokens(t[m].usage)
    <2>1. CASE "usage" \in DOMAIN chunk
      <3>1. Usages(t) = Usages(told) \cup {n + 1} /\ actual2 = TotalTokens(chunk.usage) /\ actual2 # None
        BY <1>10, <2>1
      <3>2. ASSUME NEW m \in Usages(t), \A j \in Usages(t) : j <= m PROVE m = n + 1
        <4>1. n + 1 <= m /\ m \in 1..(n + 1)
          BY <1>1, <1>10, <3>1, <3>2
        <4> QED
          BY <4>1, <1>1
      <3> QED
        BY <3>1, <3>2, <1>1
    <2>2. CASE "usage" \notin DOMAIN chunk
      <3>1. Usages(t) = Usages(told) /\ actual2 = actual
        BY <1>10, <2>2
      <3>2. \A m \in Usages(told) : t[m] = told[m]
        BY <1>1, <1>10
      <3> QED
        BY <1>11, <3>1, <3>2
    <2> QED
      BY <2>1, <2>2
  <1>13. Len(t) = place(h + 1)
    BY <1>1, <1>2, <1>3
  <1> QED
    BY <1>1, <1>5, <1>8, <1>9, <1>12, <1>13 DEF Tells, t, P, place

\* The consumer is told what the next line says.
LEMMA TellsMore ==
    ASSUME NEW adapter, NEW lines \in Seq(SentLines), NEW h \in 0..(Len(lines) - 1),
           NEW told, NEW usage, NEW actual, Tells(adapter, lines, told, usage, actual, h),
           NEW line, line = lines[h + 1], NEW usage2, NEW actual2,
           usage2 = IF IsUsage(line) THEN Merged(adapter, usage, line) ELSE usage,
           actual2 = IF IsUsage(line) THEN TotalTokens(usage2) ELSE actual
    PROVE  Tells(adapter, lines, told \o Chunks(adapter, usage, line), usage2, actual2, h + 1)
  <1>0. told \in Seq(Morsel) /\ usage \in Usage /\ actual \in Int \cup {None}
    BY DEF Tells
  <1>1. h \in Nat /\ line \in SentLines /\ h + 1 \in 1..Len(lines)
    <2>1. Len(lines) \in Nat /\ h \in Nat /\ h + 1 \in 1..Len(lines)
      BY LenProperties
    <2> QED
      BY <2>1, ElementOfSeq
  <1>2. \A c \in Morsel : told \o <<c>> = Append(told, c)
    BY <1>0, AppendIsConcat
  <1>3. /\ Merged(adapter, usage, line) \in Usage /\ TotalTokens(Merged(adapter, usage, line)) \in Int
    BY <1>0, MergedIsUsage
  <1>4. CASE IsUsage(line)
    <2> DEFINE u == Merged(adapter, usage, line)
               c == [usage |-> u]
    <2>1. Chunks(adapter, usage, line) = <<c>> /\ usage2 = u /\ actual2 = TotalTokens(u)
      BY <1>4 DEF Chunks
    <2>2. c \in Morsel /\ c.usage = u
      BY <1>3 DEF Morsel
    <2>3. line # "text" /\ line # "call" /\ PassedBy(adapter, line)
      BY <1>4 DEF IsUsage, PassedBy
    <2>4. /\ "usage" \in DOMAIN c /\ c # [said |-> "text"] /\ c # [said |-> "call"]
          /\ Fits(c, line)
      <3>1. "usage" \in DOMAIN c /\ c # [said |-> "text"] /\ c # [said |-> "call"]
        BY ChunksDiffer
      <3> QED
        BY <3>1, <1>4 DEF Fits
    <2>5. actual2 # None
      BY <1>3, <2>1, StreamAssumption
    <2> HIDE DEF c, u
    <2>6. usage2 \in Usage /\ actual2 \in Int \cup {None}
      BY <1>3, <2>1 DEF u
    <2>7. Tells(adapter, lines, Append(told, c), usage2, actual2, h + 1)
      BY <1>1, <2>1, <2>2, <2>3, <2>4, <2>5, <2>6, TellsOneMore
    <2> QED
      BY <1>2, <2>1, <2>2, <2>7
  <1>5. CASE ~IsUsage(line) /\ (line = "text" \/ line = "finish" \/ (line = "call" /\ adapter = "openai"))
    <2> DEFINE c == [said |-> line]
    <2>1. Chunks(adapter, usage, line) = <<c>> /\ usage2 = usage /\ actual2 = actual
      BY <1>5 DEF Chunks
    <2>2. c \in Morsel
      BY <1>1 DEF Morsel
    <2>3. PassedBy(adapter, line) /\ (line = "call" => adapter = "openai")
      BY <1>5 DEF PassedBy
    <2>4. /\ "usage" \notin DOMAIN c /\ Fits(c, line)
          /\ c = [said |-> "text"] <=> line = "text"
          /\ c = [said |-> "call"] <=> line = "call"
      <3>1. "usage" \notin DOMAIN c
        BY ChunksDiffer
      <3>2. \A what : c = [said |-> what] <=> line = what
        BY ChunksDiffer
      <3> QED
        BY <3>1, <3>2, <1>5 DEF Fits
    <2> HIDE DEF c
    <2>7. Tells(adapter, lines, Append(told, c), usage2, actual2, h + 1)
      BY <1>0, <1>1, <2>1, <2>2, <2>3, <2>4, TellsOneMore
    <2> QED
      BY <1>2, <2>1, <2>2, <2>7
  <1>6. CASE ~IsUsage(line) /\ ~(line = "text" \/ line = "finish" \/ (line = "call" /\ adapter = "openai"))
    <2>1. Chunks(adapter, usage, line) = <<>> /\ usage2 = usage /\ actual2 = actual
      BY <1>6 DEF Chunks
    <2>2. told \o <<>> = told
      BY <1>0, ConcatEmptySeq
    <2>3. ~PassedBy(adapter, line) /\ line # "text" /\ (adapter = "openai" => line # "call")
      BY <1>6 DEF PassedBy, IsUsage
    <2>4. PassedIn(adapter, lines, h + 1) = PassedIn(adapter, lines, h)
      BY <1>1, <2>3, PassedGrows
    <2>5. \A what : /\ Cardinality(HasLine(lines, h + 1, what))
                         = Cardinality(HasLine(lines, h, what)) + (IF line = what THEN 1 ELSE 0)
                    /\ Cardinality(HasLine(lines, h, what)) \in Nat
      BY <1>1, HasGrows
    <2>6. Cardinality(HasLine(lines, h + 1, "text")) = Cardinality(HasLine(lines, h, "text"))
      BY <2>3, <2>5
    <2>7. adapter = "openai" =>
            Cardinality(HasLine(lines, h + 1, "call")) = Cardinality(HasLine(lines, h, "call"))
      BY <2>3, <2>5
    <2>8. Tells(adapter, lines, told, usage, actual, h + 1)
      BY <2>4, <2>6, <2>7 DEF Tells
    <2> QED
      BY <2>1, <2>2, <2>8
  <1> QED
    BY <1>4, <1>5, <1>6

-----------------------------------------------------------------------------
\* How many lines are finished.
LEMMA WholeIs ==
    ASSUME NEW lines \in Seq(SentLines), NEW unfinished \in BOOLEAN, unfinished => lines # <<>>
    PROVE  Len(lines) \in Nat /\ Whole(lines, unfinished) \in 0..Len(lines)
  <1>1. Len(lines) \in Nat /\ (unfinished => Len(lines) # 0)
    BY LenProperties, EmptySeq
  <1> QED
    BY <1>1 DEF Whole

\* Finished lines end before the first [DONE].
LEMMA FinishedIs ==
    ASSUME wire.lines \in Seq(SentLines), wire.unfinished \in BOOLEAN,
           wire.unfinished => wire.lines # <<>>
    PROVE  \E e \in 0..Whole(wire.lines, wire.unfinished) :
             /\ Len(Finished) = e /\ DOMAIN Finished = 1..e
             /\ \A i \in 1..e : Finished[i] = wire.lines[i] /\ ~IsDone(wire.adapter, wire.lines[i])
             /\ e < Whole(wire.lines, wire.unfinished) => IsDone(wire.adapter, wire.lines[e + 1])
  <1> DEFINE lines == wire.lines
             w == Whole(lines, wire.unfinished)
             done == {i \in 1..w : IsDone(wire.adapter, lines[i])}
             e == IF done = {} THEN w ELSE Min(done) - 1
  <1>1. Len(lines) \in Nat /\ w \in 0..Len(lines)
    BY WholeIs
  <1>2. Finished = SubSeq(lines, 1, e)
    BY DEF Finished, Whole
  <1>3. /\ e \in 0..w /\ \A i \in 1..e : ~IsDone(wire.adapter, lines[i])
        /\ e < w => IsDone(wire.adapter, lines[e + 1])
    <2> HIDE DEF w
    <2>1. CASE done = {}
      <3>1. e = w
        BY <2>1
      <3> QED
        BY <1>1, <2>1, <3>1
    <2>2. CASE done # {}
      <3>1. done \subseteq Nat
        BY <1>1
      <3>2. PICK x \in done : \A y \in done : x <= y
        BY <2>2, <3>1, LeastOf
      <3>3. Min(done) \in done /\ \A y \in done : Min(done) <= y
        BY <3>2 DEF Min
      <3> DEFINE m == Min(done)
      <3>4. e = m - 1 /\ m \in 1..w /\ IsDone(wire.adapter, lines[m])
        BY <2>2, <3>3
      <3>5. \A y \in 1..w : IsDone(wire.adapter, lines[y]) => m <= y
        BY <3>3
      <3> HIDE DEF m, e
      <3>6. m \in Int /\ w \in Int /\ e \in 0..w /\ e + 1 = m
        BY <1>1, <3>4
      <3>7. ASSUME NEW i \in 1..e PROVE ~IsDone(wire.adapter, lines[i])
        <4>1. i \in 1..w /\ ~(m <= i)
          BY <3>6
        <4> QED
          BY <4>1, <3>5
      <3> QED
        BY <3>4, <3>6, <3>7
    <2> QED
      BY <2>1, <2>2
  <1> HIDE DEF e, lines, done, w
  <1>4. lines \in Seq(SentLines)
    BY DEF lines
  <1>5. 0 \in 0..Len(lines) /\ e \in 0..Len(lines) /\ e - 0 = e /\ 0 + 1 = 1
    BY <1>1, <1>3
  <1>6. Part(lines, 0, e) = Finished
    BY <1>2, <1>5 DEF Part
  <1>7. /\ Len(Part(lines, 0, e)) = e - 0 /\ DOMAIN Part(lines, 0, e) = 1..(e - 0)
        /\ \A i \in 1..(e - 0) : Part(lines, 0, e)[i] = lines[0 + i]
    BY <1>4, <1>5, PartIs
  <1>8. \A i \in 1..e : 0 + i = i
    BY <1>1, <1>3
  <1> QED
    BY <1>3, <1>5, <1>6, <1>7, <1>8 DEF lines, w

-----------------------------------------------------------------------------
StreamFields ==
  {"on", "adapter", "lines", "unfinished", "suspended", "coming", "at", "buffer", "todo",
   "usage", "actual", "completed", "failed", "told", "lease", "turn"}

\* What has not come yet, what waits in the buffer and the lines not yet handled
\* are adjacent parts of what was sent.
Waits(r, h) ==
  LET sent == Sent(r.lines, r.unfinished)
  IN \E k \in h..Whole(r.lines, r.unfinished), q \in 0..Len(sent) :
       /\ q \in {2 * k, 2 * k + 1}
       /\ r.coming = Part(sent, q, Len(sent))
       /\ r.buffer = Part(sent, 2 * k, q)
       /\ r.todo = Part(sent, 2 * h, 2 * k)
       /\ r.at = "read" => h = k

\* The first h lines are handled.
Stands(r, h) ==
  /\ \A i \in 1..h : ~IsDone(r.adapter, r.lines[i])
  /\ Tells(r.adapter, r.lines, r.told, r.usage, r.actual, h)
  /\ r.completed => \/ h = Whole(r.lines, r.unfinished)
                    \/ h < Whole(r.lines, r.unfinished) /\ IsDone(r.adapter, r.lines[h + 1])
  /\ r.at \in {"read", "lines"} => ~r.completed /\ Waits(r, h)

TurnFrom(told) ==
  [text |-> Said(told, "text"), calls |-> Said(told, "call"),
   tokens |-> IF Usages(told) = {} THEN 0 ELSE TotalTokens(told[Max(Usages(told))].usage)]

StreamOK(r) ==
  /\ DOMAIN r = StreamFields /\ r.on = "stream"
  /\ r.lines \in Seq(SentLines) /\ r.unfinished \in BOOLEAN
  /\ r.unfinished => r.lines # <<>>
  /\ r.completed \in BOOLEAN /\ r.failed \in BOOLEAN
  /\ \E h \in 0..Whole(r.lines, r.unfinished) : Stands(r, h)
  /\ r.lease # None =>
       /\ r.at = "closed"
       /\ \E fails \in BOOLEAN :
            (r.failed => fails) /\ r.lease = Outcome(fails, r.completed, r.actual)
  /\ r.turn # None => r.at = "closed" /\ r.completed /\ r.turn = TurnFrom(r.told)

TurnOK(r) ==
  /\ DOMAIN r = {"on", "adapter", "content", "readable", "lease", "turn"} /\ r.on = "turn"
  /\ r.content \in Seq({"text", "call"})
  /\ \/ r.lease = None /\ r.turn = None
     \/ r.lease = Outcome(FALSE, TRUE, 5) /\ r.turn = TurnOf(r.content, 5)
     \/ r.lease = Outcome(TRUE, FALSE, None) /\ r.turn = None

WireInv == StreamOK(wire) \/ TurnOK(wire)

\* The tokens of a turn are those counted, or 0.
LEMMA TurnTokens ==
    ASSUME NEW adapter, NEW lines, NEW told, NEW usage, NEW actual, NEW h,
           Tells(adapter, lines, told, usage, actual, h)
    PROVE  TurnFrom(told).tokens = IF actual = None THEN 0 ELSE actual
  <1>1. /\ told \in Seq(Morsel)
        /\ actual = None <=> Usages(told) = {}
        /\ \A m \in Usages(told) :
             (\A j \in Usages(told) : j <= m) => actual = TotalTokens(told[m].usage)
    BY DEF Tells
  <1>2. TurnFrom(told).tokens = IF Usages(told) = {} THEN 0
                                ELSE TotalTokens(told[Max(Usages(told))].usage)
    BY DEF TurnFrom
  <1>3. CASE Usages(told) # {}
    <2>1. Usages(told) \subseteq 0..Len(told) /\ Len(told) \in Nat
      BY <1>1, LenProperties DEF Usages
    <2>2. PICK x \in Usages(told) : \A y \in Usages(told) : y <= x
      BY <1>3, <2>1, GreatestOf
    <2>3. \A y \in Usages(told) : x >= y
      BY <2>1, <2>2
    <2>4. Max(Usages(told)) \in Usages(told) /\ \A y \in Usages(told) : Max(Usages(told)) >= y
      BY <2>3 DEF Max
    <2>5. \A y \in Usages(told) : y <= Max(Usages(told))
      BY <2>1, <2>4
    <2> QED
      BY <1>1, <1>2, <1>3, <2>4, <2>5
  <1> QED
    BY <1>1, <1>2, <1>3

\* What was told is what the finished lines say (generateStream).
LEMMA StreamOKShows ==
    ASSUME StreamOK(wire)
    PROVE  StreamIsWhole /\ LeaseTellsUsage
  <1> DEFINE lines == wire.lines
             w == Whole(lines, wire.unfinished)
             P(i) == PassedIn(wire.adapter, lines, i)
             place(i) == Cardinality(P(i))
  <1>1. PICK h \in 0..w : Stands(wire, h)
    BY DEF StreamOK
  <1>2. PICK e \in 0..w :
          /\ Len(Finished) = e /\ DOMAIN Finished = 1..e
          /\ \A i \in 1..e : Finished[i] = lines[i] /\ ~IsDone(wire.adapter, lines[i])
          /\ e < w => IsDone(wire.adapter, lines[e + 1])
    BY FinishedIs DEF StreamOK
  <1>3. w \in Nat
    <2>1. lines \in Seq(SentLines) /\ wire.unfinished \in BOOLEAN /\ (wire.unfinished => lines # <<>>)
      BY DEF StreamOK
    <2> HIDE DEF lines
    <2>2. Len(lines) \in Nat /\ w \in 0..Len(lines)
      BY <2>1, WholeIs
    <2> QED
      BY <2>2
  <1>4. Tells(wire.adapter, lines, wire.told, wire.usage, wire.actual, h)
    BY <1>1 DEF Stands
  <1> HIDE DEF w
  <1>5. h <= e
    <2> SUFFICES ASSUME e < h PROVE FALSE
      BY <1>2, <1>3
    <2>1. e + 1 \in 1..h /\ e < w
      BY <1>2, <1>3
    <2>2. ~IsDone(wire.adapter, lines[e + 1])
      BY <1>1, <2>1 DEF Stands
    <2> QED
      BY <1>2, <2>1, <2>2
  <1>6. ASSUME wire.completed PROVE h = e
    <2> SUFFICES ASSUME h < e PROVE FALSE
      BY <1>2, <1>3, <1>5
    <2>1. h + 1 \in 1..e /\ h # w
      BY <1>2, <1>3
    <2>2. IsDone(wire.adapter, lines[h + 1])
      BY <1>1, <1>6, <2>1 DEF Stands, w
    <2> QED
      BY <1>2, <2>1, <2>2
  <1> HIDE DEF lines
  <1>7. \A line : PassedOn(line) <=> PassedBy(wire.adapter, line)
    BY DEF PassedOn, PassedBy
  <1> DEFINE passed == {i \in DOMAIN Finished : PassedOn(Finished[i])}
             Place(i) == Cardinality({j \in passed : j <= i})
             n == Len(wire.told)
  <1>8. passed = P(e)
    BY <1>2, <1>7 DEF PassedIn
  <1>9. ASSUME NEW i \in 1..e PROVE {j \in passed : j <= i} = P(i)
    <2>1. P(i) = {j \in 1..i : PassedBy(wire.adapter, lines[j])}
      BY DEF PassedIn
    <2>2. P(e) = {j \in 1..e : PassedBy(wire.adapter, lines[j])}
      BY DEF PassedIn
    <2>3. \A j : j \in 1..i <=> j \in 1..e /\ j <= i
      BY <1>2, <1>3
    <2> HIDE DEF passed, P
    <2> QED
      BY <1>8, <2>1, <2>2, <2>3
  <1>10. ASSUME NEW a \in 0..e, NEW b \in 0..e, a <= b
         PROVE  /\ P(a) \subseteq P(b) /\ IsFiniteSet(P(b)) /\ place(a) \in Nat /\ place(b) \in Nat
                /\ place(a) <= place(b)
    <2>1. a \in Nat /\ b \in Nat
      BY <1>3
    <2>2. P(a) \subseteq P(b) /\ P(a) \subseteq 1..a /\ P(b) \subseteq 1..b
      BY <1>10, <2>1 DEF PassedIn
    <2> HIDE DEF P
    <2>3. IsFiniteSet(P(b)) /\ Cardinality(P(b)) \in Nat /\ Cardinality(P(a)) \in Nat
      BY <2>1, <2>2, NextIndex
    <2> QED
      BY <2>2, <2>3, FS_Subset
  <1>11. n = place(h) /\ \A i \in P(h) : Fits(wire.told[place(i)], lines[i])
    BY <1>4 DEF Tells
  <1>12. h \in 0..e /\ e \in 0..e
    BY <1>2, <1>3, <1>5
  <1>13. \A i \in 1..e : Place(i) = place(i)
    BY <1>9
  <1> HIDE DEF Place
  <1>14. n <= Cardinality(passed) /\ (wire.completed => n = Cardinality(passed))
    BY <1>5, <1>6, <1>8, <1>10, <1>11, <1>12
  <1>15. ASSUME NEW i \in passed, Place(i) <= n
         PROVE  Fits(wire.told[Place(i)], Finished[i])
    <2>1. i \in 1..e /\ i \in P(e) /\ Finished[i] = lines[i]
      BY <1>2, <1>8
    <2>2. Place(i) = place(i) /\ place(i) <= place(h)
      BY <1>11, <1>13, <1>15, <2>1
    <2>3. i <= h
      <3> SUFFICES ASSUME h < i PROVE FALSE
        BY <1>12, <2>1
      <3>0. i \in Nat /\ h \in Nat /\ i - 1 \in Nat /\ i = (i - 1) + 1 /\ i - 1 \in 0..e /\ h <= i - 1
        BY <1>2, <1>3, <1>12, <2>1
      <3>1. PassedBy(wire.adapter, lines[i])
        BY <2>1 DEF PassedIn
      <3>2. /\ Cardinality(PassedIn(wire.adapter, lines, i - 1)) \in Nat
            /\ Cardinality(PassedIn(wire.adapter, lines, i))
                 = Cardinality(PassedIn(wire.adapter, lines, i - 1)) + 1
        <4>1. \A j \in Nat : PassedBy(wire.adapter, lines[j + 1]) =>
                /\ Cardinality(PassedIn(wire.adapter, lines, j)) \in Nat
                /\ Cardinality(PassedIn(wire.adapter, lines, j + 1))
                    = Cardinality(PassedIn(wire.adapter, lines, j)) + 1
          BY PassedGrows
        <4> QED
          BY <4>1, <3>0, <3>1
      <3>3. place(h) <= place(i - 1) /\ place(h) \in Nat
        BY <1>10, <1>12, <3>0
      <3> HIDE DEF P
      <3>4. place(i) = place(i - 1) + 1 /\ place(i - 1) \in Nat
        BY <3>2 DEF P
      <3> HIDE DEF place
      <3> QED
        BY <2>2, <3>3, <3>4
    <2>4. i \in P(h)
      <3>1. i \in 1..h /\ PassedBy(wire.adapter, lines[i])
        BY <2>1, <2>3, <1>12 DEF PassedIn
      <3> QED
        BY <3>1 DEF PassedIn
    <2> QED
      BY <1>11, <2>1, <2>2, <2>4
  <1>16. ASSUME NEW what, h = e
         PROVE  Count(Finished, what) = Cardinality(HasLine(lines, h, what))
    <2>1. {i \in DOMAIN Finished : Finished[i] = what} = {i \in 1..h : lines[i] = what}
      BY <1>2, <1>16
    <2> QED
      BY <2>1 DEF Count, HasLine
  <1>17. ASSUME wire.turn # None
         PROVE  /\ wire.turn.text = Count(Finished, "text")
                /\ wire.turn.calls = IF PassedOn("call") THEN Count(Finished, "call") ELSE 0
    <2>1. wire.turn = TurnFrom(wire.told) /\ wire.completed
      BY <1>17 DEF StreamOK
    <2>2. wire.turn.text = Said(wire.told, "text") /\ wire.turn.calls = Said(wire.told, "call")
      BY <2>1 DEF TurnFrom
    <2>3. PassedOn("call") <=> wire.adapter = "openai"
      BY DEF PassedOn
    <2>4. /\ Said(wire.told, "text") = Cardinality(HasLine(lines, h, "text"))
          /\ Said(wire.told, "call") = IF wire.adapter = "openai"
                                         THEN Cardinality(HasLine(lines, h, "call")) ELSE 0
      BY <1>4 DEF Tells
    <2>5. /\ Count(Finished, "text") = Cardinality(HasLine(lines, h, "text"))
          /\ Count(Finished, "call") = Cardinality(HasLine(lines, h, "call"))
      BY <1>6, <1>16, <2>1
    <2> QED
      BY <2>2, <2>3, <2>4, <2>5
  <1>18. StreamIsWhole
    <2>1. \A i \in passed : Place(i) <= n =>
            IF IsUsage(Finished[i]) THEN "usage" \in DOMAIN wire.told[Place(i)]
            ELSE wire.told[Place(i)] = [said |-> Finished[i]]
      BY <1>15 DEF Fits
    <2> QED
      BY <1>14, <1>17, <2>1 DEF StreamIsWhole, Place
  <1>19. LeaseTellsUsage
    <2>0. wire.on = "stream" /\ wire.on # "turn"
      BY DEF StreamOK
    <2> SUFFICES ASSUME wire.lease # None
                 PROVE  /\ wire.lease.is = "completed" =>
                             /\ wire.completed /\ ~wire.failed
                             /\ wire.turn # None =>
                                  wire.turn.tokens = IF wire.lease.tokens = None THEN 0
                                                     ELSE wire.lease.tokens
                        /\ wire.lease.is # "completed" => wire.lease.tokens = None
      BY <2>0 DEF LeaseTellsUsage
    <2>1. PICK fails \in BOOLEAN :
            (wire.failed => fails) /\ wire.lease = Outcome(fails, wire.completed, wire.actual)
      BY DEF StreamOK
    <2>2. /\ wire.lease.is = "completed" =>
               wire.completed /\ ~wire.failed /\ wire.lease.tokens = wire.actual
          /\ wire.lease.is # "completed" => wire.lease.tokens = None
      BY <2>1 DEF Outcome
    <2>3. ASSUME wire.turn # None
          PROVE  wire.turn.tokens = IF wire.actual = None THEN 0 ELSE wire.actual
      <3>1. wire.turn = TurnFrom(wire.told)
        BY <2>3 DEF StreamOK
      <3>2. TurnFrom(wire.told).tokens = IF wire.actual = None THEN 0 ELSE wire.actual
        BY <1>4, TurnTokens
      <3> QED
        BY <3>1, <3>2
    <2> QED
      BY <2>2, <2>3
  <1> QED
    BY <1>18, <1>19

\* A buffered response ends its lease with the turn (consumeProviderTurnResponse).
LEMMA TurnOKShows ==
    ASSUME TurnOK(wire)
    PROVE  StreamIsWhole /\ LeaseTellsUsage
  <1>1. wire.on = "turn" /\ StreamIsWhole
    BY DEF TurnOK, StreamIsWhole
  <1>2. ASSUME NEW content \in Seq({"text", "call"}) PROVE TurnOf(content, 5) # None
    <2>1. \A what : Count(content, what) \in Nat
      <3>1. \A what : {i \in DOMAIN content : content[i] = what} \subseteq 1..Len(content)
        BY LenProperties
      <3>2. Len(content) \in Nat
        BY LenProperties
      <3> QED
        BY <3>1, <3>2, NextIndex DEF Count
    <2>2. TurnOf(content, 5) \in [text : Nat, calls : Nat, tokens : Int]
      BY <2>1 DEF TurnOf
    <2> QED
      BY <2>2, StreamAssumption
  <1>3. LeaseTellsUsage
    BY <1>1, <1>2 DEF TurnOK, LeaseTellsUsage, Outcome
  <1> QED
    BY <1>1, <1>3

\* What the invariant of a stream or a turn says of it.
LEMMA WireInvShows == ASSUME WireInv PROVE StreamIsWhole /\ LeaseTellsUsage
  BY StreamOKShows, TurnOKShows DEF WireInv

\* Nothing has been told of a stream that starts.
LEMMA NothingTold ==
    ASSUME NEW adapter, NEW lines
    PROVE  Tells(adapter, lines, <<>>, NoUsage, None, 0)
  <1>1. PassedIn(adapter, lines, 0) = {} /\ \A what : HasLine(lines, 0, what) = {}
    BY DEF PassedIn, HasLine
  <1>2. Cardinality({}) = 0
    BY FS_EmptySet
  <1>3. <<>> \in Seq(Morsel) /\ Len(<<>>) = 0 /\ DOMAIN <<>> = {}
    OBVIOUS
  <1>4. Usages(<<>>) = {} /\ \A what : Said(<<>>, what) = 0
    BY <1>2, <1>3 DEF Usages, Said
  <1>5. NoUsage \in Usage
    BY DEF NoUsage, Usage
  <1> QED
    BY <1>1, <1>2, <1>3, <1>4, <1>5 DEF Tells

\* Nothing of it was read either (generateStream, generateTurn).
LEMMA WireStarts == WireInit => WireInv
  <1>1. ASSUME StreamInit PROVE StreamOK(wire)
    <2>1. PICK adapter \in Adapters, lines \in SeqOf(SentLines, MaxSentLines), unfinished \in BOOLEAN :
             /\ unfinished => lines # <<>>
             /\ wire = [on |-> "stream", adapter |-> adapter, lines |-> lines,
                        unfinished |-> unfinished, suspended |-> FALSE,
                        coming |-> IF unfinished THEN Front(Pieces(lines)) ELSE Pieces(lines),
                        at |-> "read", buffer |-> <<>>, todo |-> <<>>, usage |-> NoUsage,
                        actual |-> None, completed |-> FALSE, failed |-> FALSE, told |-> <<>>,
                        lease |-> None, turn |-> None]
      BY <1>1 DEF StreamInit
    <2>2. lines \in Seq(SentLines)
      <3>1. PICK m \in 0..MaxSentLines : lines \in [1..m -> SentLines]
        BY DEF SeqOf
      <3>2. m \in Nat
        OBVIOUS
      <3> QED
        BY <3>1, <3>2
    <2> DEFINE sent == Sent(lines, unfinished)
               w == Whole(lines, unfinished)
    <2>3. sent \in Seq(Piece) /\ w \in 0..Len(lines) /\ Len(lines) \in Nat /\ Len(sent) \in Nat
      BY <2>1, <2>2, SentIs, LenProperties
    <2>4. /\ DOMAIN wire = StreamFields /\ wire.on = "stream" /\ wire.lines = lines
          /\ wire.adapter = adapter
          /\ wire.unfinished = unfinished /\ wire.coming = sent /\ wire.at = "read"
          /\ wire.buffer = <<>> /\ wire.todo = <<>> /\ wire.usage = NoUsage /\ wire.actual = None
          /\ wire.completed = FALSE /\ wire.failed = FALSE /\ wire.told = <<>>
          /\ wire.lease = None /\ wire.turn = None
      BY <2>1 DEF StreamFields, Sent
    <2>5. /\ Part(sent, 0, Len(sent)) = sent /\ Part(sent, 0, 0) = <<>>
      <3>1. SubSeq(sent, 1, Len(sent)) = sent /\ SubSeq(sent, 1, 0) = <<>> /\ 0 + 1 = 1
        BY <2>3, SubSeqFull, SubSeqEmpty
      <3> QED
        BY <3>1 DEF Part
    <2>6. Waits(wire, 0)
      <3>1. 0 \in 0..w /\ 0 \in 0..Len(sent) /\ 2 * 0 = 0
        BY <2>3
      <3> HIDE DEF sent, w
      <3>2. /\ 0 \in {2 * 0, 2 * 0 + 1} /\ wire.coming = Part(sent, 0, Len(sent))
            /\ wire.buffer = Part(sent, 2 * 0, 0) /\ wire.todo = Part(sent, 2 * 0, 2 * 0)
        BY <2>4, <2>5, <3>1
      <3> QED
        BY <2>4, <3>1, <3>2 DEF Waits, sent, w
    <2>7. Stands(wire, 0)
      BY <2>4, <2>6, NothingTold DEF Stands
    <2>8. 0 \in 0..Whole(wire.lines, wire.unfinished)
      BY <2>3, <2>4
    <2> QED
      BY <2>1, <2>2, <2>4, <2>7, <2>8 DEF StreamOK
  <1>2. ASSUME TurnInit PROVE TurnOK(wire)
    <2>1. PICK adapter \in Adapters, content \in SeqOf({"text", "call"}, MaxSentLines), readable \in BOOLEAN :
             wire = [on |-> "turn", adapter |-> adapter, content |-> content,
                     readable |-> readable, lease |-> None, turn |-> None]
      BY <1>2 DEF TurnInit
    <2>2. content \in Seq({"text", "call"})
      <3>1. PICK m \in 0..MaxSentLines : content \in [1..m -> {"text", "call"}]
        BY DEF SeqOf
      <3>2. m \in Nat
        OBVIOUS
      <3> QED
        BY <3>1, <3>2
    <2> QED
      BY <2>1, <2>2 DEF TurnOK
  <1> QED
    BY <1>1, <1>2 DEF WireInit, WireInv

-----------------------------------------------------------------------------
\* What a chunk completes becomes lines (readProviderStreamChunk).
LEMMA ChunkKeeps ==
    ASSUME StreamOK(wire), ReceiveChunk
    PROVE  StreamOK(wire)'
  <1> DEFINE lines == wire.lines
             sent == Sent(lines, wire.unfinished)
             w == Whole(lines, wire.unfinished)
  <1>1. PICK h \in 0..w : Stands(wire, h)
    BY DEF StreamOK
  <1>2. PICK n \in 1..Len(wire.coming) :
          LET split == Split(wire.buffer, SubSeq(wire.coming, 1, n))
          IN wire' = [wire EXCEPT !.at = "lines", !.todo = split[1], !.buffer = split[2],
                                  !.coming = SubSeq(@, n + 1, Len(@))]
    BY DEF ReceiveChunk
  <1>3. /\ wire.at = "read" /\ ~wire.completed /\ Waits(wire, h)
    BY <1>1 DEF ReceiveChunk, Stands
  <1>4. PICK k \in h..w, q \in 0..Len(sent) :
          /\ q \in {2 * k, 2 * k + 1}
          /\ wire.coming = Part(sent, q, Len(sent))
          /\ wire.buffer = Part(sent, 2 * k, q)
          /\ wire.todo = Part(sent, 2 * h, 2 * k)
          /\ h = k
    BY <1>3 DEF Waits
  <1>5. /\ sent \in Seq(Piece) /\ w \in Nat /\ Len(sent) \in {2 * w, 2 * w + 1} /\ Alternates(sent)
    <2>1. /\ lines \in Seq(SentLines) /\ wire.unfinished \in BOOLEAN
          /\ wire.unfinished => lines # <<>>
      BY DEF StreamOK
    <2> HIDE DEF lines
    <2> QED
      BY <2>1, SentIs, WholeIs DEF Alternates
  <1> DEFINE N == Len(sent)
             r == q + n
  <1>6. N \in Nat /\ q \in Nat /\ N \in q..N /\ h \in Nat
    BY <1>4, <1>5
  <1> HIDE DEF sent, w, lines
  <1>7. Len(wire.coming) = N - q
    <2>1. q \in 0..Len(sent) /\ N \in q..Len(sent)
      BY <1>6
    <2>2. Len(Part(sent, q, N)) = N - q
      BY <1>5, <2>1, PartIs
    <2> QED
      BY <1>4, <2>2
  <1>8. r \in q..N /\ n \in Int /\ r - q = n /\ q + (N - q) = N
    BY <1>6, <1>7
  <1> HIDE DEF N, r
  <1>9. /\ SubSeq(wire.coming, 1, n) = Part(sent, q, r)
        /\ SubSeq(wire.coming, n + 1, Len(wire.coming)) = Part(sent, r, N)
    <2>1. PICK d \in 0..(N - q) : d = n
      BY <1>6, <1>7
    <2>2. 0 \in 0..(N - q) /\ d \in 0..(N - q) /\ d \in d..(N - q) /\ N - q \in d..(N - q)
      BY <1>6, <1>7, <2>1
    <2>3. q \in 0..Len(sent) /\ N \in q..Len(sent)
      BY <1>6 DEF N
    <2>4. Part(Part(sent, q, N), 0, d) = Part(sent, q + 0, q + d)
      BY <1>5, <2>2, <2>3, PartOfPart
    <2>5. Part(Part(sent, q, N), d, N - q) = Part(sent, q + d, q + (N - q))
      BY <1>5, <2>2, <2>3, PartOfPart
    <2>6. q + 0 = q /\ 0 + 1 = 1 /\ q + d = r
      BY <1>6, <2>1 DEF r
    <2>7. wire.coming = Part(sent, q, N)
      BY <1>4 DEF N
    <2>8. Part(wire.coming, 0, d) = SubSeq(wire.coming, 1, n) /\ Part(wire.coming, d, N - q) = SubSeq(wire.coming, n + 1, N - q)
      BY <2>1, <2>6 DEF Part
    <2> QED
      BY <1>7, <1>8, <2>4, <2>5, <2>6, <2>7, <2>8
  <1>10. PICK j \in Nat :
             /\ k <= j /\ r \in {2 * j, 2 * j + 1}
             /\ Split(Part(sent, 2 * k, q), Part(sent, q, r))
                  = <<Part(sent, 2 * k, 2 * j), Part(sent, 2 * j, r)>>
    <2>1. r \in q..Len(sent) /\ k \in Nat
      BY <1>4, <1>5, <1>6, <1>8 DEF N
    <2> QED
      BY <1>4, <1>5, <2>1, SplitIs
  <1> DEFINE split == Split(wire.buffer, SubSeq(wire.coming, 1, n))
  <1>11. split[1] = Part(sent, 2 * h, 2 * j) /\ split[2] = Part(sent, 2 * j, r)
    <2>1. split = <<Part(sent, 2 * h, 2 * j), Part(sent, 2 * j, r)>>
      BY <1>4, <1>9, <1>10
    <2> QED
      BY <2>1
  <1>12. DOMAIN wire = StreamFields
    BY DEF StreamOK
  <1>13. /\ DOMAIN wire' = StreamFields /\ wire'.on = wire.on /\ wire'.adapter = wire.adapter
         /\ wire'.lines = wire.lines /\ wire'.unfinished = wire.unfinished
         /\ wire'.usage = wire.usage /\ wire'.actual = wire.actual
         /\ wire'.completed = wire.completed /\ wire'.failed = wire.failed
         /\ wire'.told = wire.told /\ wire'.lease = wire.lease /\ wire'.turn = wire.turn
         /\ wire'.at = "lines" /\ wire'.todo = Part(sent, 2 * h, 2 * j)
         /\ wire'.buffer = Part(sent, 2 * j, r) /\ wire'.coming = Part(sent, r, N)
    <2>1. wire' = [wire EXCEPT !.at = "lines", !.todo = split[1], !.buffer = split[2],
                               !.coming = SubSeq(@, n + 1, Len(@))]
      BY <1>2
    <2> HIDE DEF split
    <2>2. /\ DOMAIN wire' = StreamFields /\ wire'.on = wire.on /\ wire'.adapter = wire.adapter
          /\ wire'.lines = wire.lines /\ wire'.unfinished = wire.unfinished
          /\ wire'.usage = wire.usage /\ wire'.actual = wire.actual
          /\ wire'.completed = wire.completed /\ wire'.failed = wire.failed
          /\ wire'.told = wire.told /\ wire'.lease = wire.lease /\ wire'.turn = wire.turn
          /\ wire'.at = "lines" /\ wire'.todo = split[1] /\ wire'.buffer = split[2]
          /\ wire'.coming = SubSeq(wire.coming, n + 1, Len(wire.coming))
      BY <1>12, <2>1 DEF StreamFields
    <2> QED
      BY <1>9, <1>11, <2>2
  <1>14. j \in h..w /\ r \in 0..N
    <2>1. N \in {2 * w, 2 * w + 1}
      BY <1>5 DEF N
    <2>2. r \in Int /\ q <= r /\ r <= N
      BY <1>6, <1>8
    <2>3. 2 * j <= 2 * w + 1
      BY <1>5, <1>10, <2>1, <2>2
    <2>4. j <= w /\ h <= j /\ 0 <= r
      BY <1>4, <1>5, <1>6, <1>10, <2>2, <2>3
    <2> QED
      BY <1>5, <1>6, <2>2, <2>4
  <1>15. Waits(wire', h)
    BY <1>10, <1>13, <1>14 DEF Waits, sent, w, lines, N
  <1>16. Stands(wire', h)
    BY <1>1, <1>3, <1>13, <1>15 DEF Stands
  <1>17. h \in 0..Whole(wire'.lines, wire'.unfinished)
    BY <1>1, <1>13 DEF w, lines
  <1>18. wire.lease = None /\ wire.turn = None
    BY <1>3 DEF StreamOK
  <1> QED
    BY <1>13, <1>16, <1>17, <1>18 DEF StreamOK

\* A step that reads and tells nothing leaves what was told (StreamEnds, ReadFails,
\* ReadOn, ConsumerCloses, finalizeProviderStream).
LEMMA TellingRests ==
    ASSUME NEW r, NEW s, NEW h, Stands(r, h),
           s.adapter = r.adapter, s.lines = r.lines, s.unfinished = r.unfinished,
           s.told = r.told, s.usage = r.usage, s.actual = r.actual,
           s.completed = r.completed, s.at \notin {"read", "lines"}
    PROVE  Stands(s, h)
  BY DEF Stands

\* The steps that only end the reading.
LEMMA EndKeeps ==
    ASSUME StreamOK(wire), StreamEnds \/ ReadFails \/ ConsumerCloses
    PROVE  StreamOK(wire)'
  <1> DEFINE lines == wire.lines
             sent == Sent(lines, wire.unfinished)
             w == Whole(lines, wire.unfinished)
  <1>1. PICK h \in 0..w : Stands(wire, h)
    BY DEF StreamOK
  <1>2. wire.at \in {"read", "lines"} /\ DOMAIN wire = StreamFields /\ ~wire.completed
    BY <1>1 DEF StreamOK, StreamEnds, ReadFails, ConsumerCloses, Stands
  <1>3. wire.lease = None /\ wire.turn = None
    BY <1>2 DEF StreamOK
  <1>4. /\ DOMAIN wire' = StreamFields /\ wire'.on = wire.on /\ wire'.adapter = wire.adapter
        /\ wire'.lines = wire.lines /\ wire'.unfinished = wire.unfinished
        /\ wire'.usage = wire.usage /\ wire'.actual = wire.actual
        /\ wire'.told = wire.told /\ wire'.lease = wire.lease /\ wire'.turn = wire.turn
        /\ wire'.at = "close"
    BY <1>2 DEF StreamFields, StreamEnds, ReadFails, ConsumerCloses
  <1>5. CASE StreamEnds
    <2>1. wire'.completed = TRUE /\ wire'.failed = wire.failed /\ wire.at = "read" /\ wire.coming = <<>>
      BY <1>2, <1>5 DEF StreamFields, StreamEnds
    <2>2. Waits(wire, h)
      BY <1>1, <2>1 DEF Stands
    <2>3. PICK k \in h..w, q \in 0..Len(sent) :
            q \in {2 * k, 2 * k + 1} /\ wire.coming = Part(sent, q, Len(sent)) /\ h = k
      BY <2>1, <2>2 DEF Waits
    <2>4. /\ sent \in Seq(Piece) /\ w \in Nat /\ Len(sent) \in {2 * w, 2 * w + 1}
      <3>1. /\ lines \in Seq(SentLines) /\ wire.unfinished \in BOOLEAN
            /\ wire.unfinished => lines # <<>>
        BY DEF StreamOK
      <3> HIDE DEF lines
      <3> QED
        BY <3>1, SentIs, WholeIs
    <2> HIDE DEF sent, w
    <2>5. Len(wire.coming) = Len(sent) - q
      <3>1. q \in 0..Len(sent) /\ Len(sent) \in q..Len(sent)
        BY <2>4
      <3>2. Len(Part(sent, q, Len(sent))) = Len(sent) - q
        BY <2>4, <3>1, PartIs
      <3> QED
        BY <2>3, <3>2
    <2>6. q = Len(sent)
      BY <2>1, <2>4, <2>5
    <2>7. h = w
      BY <2>3, <2>4, <2>6
    <2>8. Stands(wire', h)
      BY <1>1, <1>4, <2>1, <2>7 DEF Stands, w, lines
    <2>9. h \in 0..Whole(wire'.lines, wire'.unfinished)
      BY <1>1, <1>4 DEF w, lines
    <2> QED
      BY <1>3, <1>4, <2>1, <2>8, <2>9 DEF StreamOK
  <1>6. CASE ReadFails \/ ConsumerCloses
    <2>1. wire'.completed = wire.completed /\ wire'.failed \in BOOLEAN
      BY <1>2, <1>6 DEF StreamFields, ReadFails, ConsumerCloses, StreamOK
    <2>2. Stands(wire', h)
      BY <1>1, <1>4, <2>1, TellingRests
    <2>3. h \in 0..Whole(wire'.lines, wire'.unfinished)
      BY <1>1, <1>4
    <2> QED
      BY <1>3, <1>4, <2>1, <2>2, <2>3 DEF StreamOK
  <1> QED
    BY <1>5, <1>6

\* All lines of a chunk are handled (generateStream's loop).
LEMMA ReadOnKeeps ==
    ASSUME StreamOK(wire), ReadOn
    PROVE  StreamOK(wire)'
  <1> DEFINE lines == wire.lines
             sent == Sent(lines, wire.unfinished)
             w == Whole(lines, wire.unfinished)
  <1>1. PICK h \in 0..w : Stands(wire, h)
    BY DEF StreamOK
  <1>2. wire.at = "lines" /\ wire.todo = <<>> /\ DOMAIN wire = StreamFields /\ ~wire.completed /\ Waits(wire, h)
    BY <1>1 DEF StreamOK, ReadOn, Stands
  <1>3. wire.lease = None /\ wire.turn = None
    BY <1>2 DEF StreamOK
  <1>4. /\ DOMAIN wire' = StreamFields /\ wire'.on = wire.on /\ wire'.adapter = wire.adapter
        /\ wire'.lines = wire.lines /\ wire'.unfinished = wire.unfinished
        /\ wire'.usage = wire.usage /\ wire'.actual = wire.actual
        /\ wire'.told = wire.told /\ wire'.lease = wire.lease /\ wire'.turn = wire.turn
        /\ wire'.at = "read" /\ wire'.todo = wire.todo /\ wire'.buffer = wire.buffer
        /\ wire'.coming = wire.coming /\ wire'.completed = wire.completed
        /\ wire'.failed = wire.failed
    BY <1>2 DEF StreamFields, ReadOn
  <1>5. PICK k \in h..w, q \in 0..Len(sent) :
          /\ q \in {2 * k, 2 * k + 1}
          /\ wire.coming = Part(sent, q, Len(sent))
          /\ wire.buffer = Part(sent, 2 * k, q)
          /\ wire.todo = Part(sent, 2 * h, 2 * k)
    BY <1>2 DEF Waits
  <1>6. /\ sent \in Seq(Piece) /\ w \in Nat /\ Alternates(sent) /\ Len(sent) \in {2 * w, 2 * w + 1}
    <2>1. /\ lines \in Seq(SentLines) /\ wire.unfinished \in BOOLEAN
          /\ wire.unfinished => lines # <<>>
      BY DEF StreamOK
    <2> HIDE DEF lines
    <2> QED
      BY <2>1, SentIs, WholeIs DEF Alternates
  <1> HIDE DEF sent, w
  <1>7. h = k
    <2> SUFFICES ASSUME h < k PROVE FALSE
      BY <1>5, <1>6
    <2>1. 2 * k <= Len(sent) /\ h \in Nat /\ k \in Nat
      BY <1>5, <1>6
    <2>2. Part(sent, 2 * h, 2 * k) # <<>>
      BY <1>6, <2>1, FirstLineIs
    <2> QED
      BY <1>2, <1>5, <2>2
  <1>8. Waits(wire', h)
    BY <1>4, <1>5, <1>7 DEF Waits, sent, w, lines
  <1>9. Stands(wire', h)
    BY <1>1, <1>2, <1>4, <1>8 DEF Stands
  <1>10. h \in 0..Whole(wire'.lines, wire'.unfinished)
    BY <1>1, <1>4 DEF w, lines
  <1> QED
    BY <1>3, <1>4, <1>9, <1>10 DEF StreamOK

\* The lease ends on what the stream came to (finalizeProviderStream).
LEMMA FinalizeKeeps ==
    ASSUME StreamOK(wire), FinalizeProviderStream
    PROVE  StreamOK(wire)'
  <1>1. PICK h \in 0..Whole(wire.lines, wire.unfinished) : Stands(wire, h)
    BY DEF StreamOK
  <1>2. wire.at = "close" /\ DOMAIN wire = StreamFields
    BY DEF StreamOK, FinalizeProviderStream
  <1>3. wire.turn = None
    BY <1>2 DEF StreamOK
  <1>4. PICK cleanupFails \in BOOLEAN :
          wire' = [wire EXCEPT !.at = "closed",
                     !.lease = Outcome(wire.failed \/ cleanupFails, wire.completed, wire.actual)]
    BY DEF FinalizeProviderStream
  <1>5. /\ DOMAIN wire' = StreamFields /\ wire'.on = wire.on /\ wire'.adapter = wire.adapter
        /\ wire'.lines = wire.lines /\ wire'.unfinished = wire.unfinished
        /\ wire'.usage = wire.usage /\ wire'.actual = wire.actual
        /\ wire'.told = wire.told /\ wire'.turn = wire.turn
        /\ wire'.at = "closed" /\ wire'.completed = wire.completed
        /\ wire'.failed = wire.failed
        /\ wire'.lease = Outcome(wire.failed \/ cleanupFails, wire.completed, wire.actual)
    <2> HIDE DEF Outcome
    <2> QED
      BY <1>2, <1>4 DEF StreamFields
  <1>6. Stands(wire', h)
    BY <1>1, <1>5, TellingRests
  <1>7. \E fails \in BOOLEAN :
          (wire'.failed => fails) /\ wire'.lease = Outcome(fails, wire'.completed, wire'.actual)
    <2>1. wire.failed \in BOOLEAN
      BY DEF StreamOK
    <2>2. (wire.failed \/ cleanupFails) \in BOOLEAN
      BY <2>1
    <2> QED
      BY <1>5, <2>2
  <1>8. h \in 0..Whole(wire'.lines, wire'.unfinished)
    BY <1>1, <1>5
  <1> QED
    BY <1>3, <1>5, <1>6, <1>7, <1>8 DEF StreamOK

\* The turn is made of what was told (consumeProviderStream).
LEMMA ConsumeKeeps ==
    ASSUME StreamOK(wire), ConsumeProviderStream
    PROVE  StreamOK(wire)'
  <1>1. PICK h \in 0..Whole(wire.lines, wire.unfinished) : Stands(wire, h)
    BY DEF StreamOK
  <1>2. wire.at = "closed" /\ DOMAIN wire = StreamFields /\ wire.completed
    BY DEF StreamOK, ConsumeProviderStream
  <1> DEFINE turn == TurnFrom(wire.told)
  <1>3. wire' = [wire EXCEPT !.turn = turn]
    BY DEF ConsumeProviderStream, TurnFrom
  <1> HIDE DEF turn
  <1>4. /\ DOMAIN wire' = StreamFields /\ wire'.on = wire.on /\ wire'.adapter = wire.adapter
        /\ wire'.lines = wire.lines /\ wire'.unfinished = wire.unfinished
        /\ wire'.usage = wire.usage /\ wire'.actual = wire.actual
        /\ wire'.told = wire.told /\ wire'.turn = turn
        /\ wire'.at = "closed" /\ wire'.completed = wire.completed
        /\ wire'.failed = wire.failed /\ wire'.lease = wire.lease
    BY <1>2, <1>3 DEF StreamFields
  <1>5. Stands(wire', h)
    BY <1>1, <1>4, TellingRests
  <1>6. h \in 0..Whole(wire'.lines, wire'.unfinished)
    BY <1>1, <1>4
  <1>7. wire'.turn = TurnFrom(wire'.told)
    BY <1>4 DEF turn
  <1>8. wire'.lease # None =>
          \E fails \in BOOLEAN :
            (wire'.failed => fails) /\ wire'.lease = Outcome(fails, wire'.completed, wire'.actual)
    BY <1>4 DEF StreamOK
  <1>9. /\ wire'.on = "stream" /\ wire'.lines \in Seq(SentLines) /\ wire'.unfinished \in BOOLEAN
        /\ wire'.unfinished => wire'.lines # <<>>
        /\ wire'.completed \in BOOLEAN /\ wire'.failed \in BOOLEAN /\ wire'.completed
    BY <1>2, <1>4 DEF StreamOK
  <1> QED
    BY <1>4, <1>5, <1>6, <1>7, <1>8, <1>9 DEF StreamOK

\* One line is handled and, unless it ends the stream, told (parseStreamEvent).
LEMMA LineKeeps ==
    ASSUME StreamOK(wire), HandleLine
    PROVE  StreamOK(wire)'
  <1> DEFINE lines == wire.lines
             sent == Sent(lines, wire.unfinished)
             w == Whole(lines, wire.unfinished)
  <1>1. PICK h \in 0..w : Stands(wire, h)
    BY DEF StreamOK
  <1>2. wire.at = "lines" /\ wire.todo # <<>> /\ DOMAIN wire = StreamFields /\ ~wire.completed /\ Waits(wire, h)
    BY <1>1 DEF StreamOK, HandleLine, Stands
  <1>3. wire.lease = None /\ wire.turn = None
    BY <1>2 DEF StreamOK
  <1>4. PICK k \in h..w, q \in 0..Len(sent) :
          /\ q \in {2 * k, 2 * k + 1}
          /\ wire.coming = Part(sent, q, Len(sent))
          /\ wire.buffer = Part(sent, 2 * k, q)
          /\ wire.todo = Part(sent, 2 * h, 2 * k)
    BY <1>2 DEF Waits
  <1>5. /\ sent \in Seq(Piece) /\ w \in 0..Len(lines) /\ Alternates(sent)
        /\ Len(lines) \in Nat /\ Len(sent) \in {2 * w, 2 * w + 1}
        /\ \A i \in 0..(w - 1) : sent[2 * i + 1] = <<i + 1, "head">>
    <2>1. /\ lines \in Seq(SentLines) /\ wire.unfinished \in BOOLEAN
          /\ wire.unfinished => lines # <<>>
      BY DEF StreamOK
    <2> HIDE DEF lines
    <2> QED
      BY <2>1, SentIs, WholeIs DEF Alternates
  <1> HIDE DEF sent, w
  <1>6. h < k
    <2> SUFFICES ASSUME h = k PROVE FALSE
      BY <1>4, <1>5
    <2>1. Part(sent, 2 * h, 2 * k) = <<>>
      <3>1. 2 * h \in 0..Len(sent) /\ 2 * k \in (2 * h)..Len(sent) /\ 2 * k - 2 * h = 0
        BY <1>4, <1>5
      <3> PICK a \in 0..Len(sent) : a = 2 * h
        BY <3>1
      <3> PICK b \in a..Len(sent) : b = 2 * k
        BY <3>1
      <3>2. Part(sent, a, b) \in Seq(Piece) /\ Len(Part(sent, a, b)) = b - a
        BY <1>5, PartIs
      <3>3. Len(Part(sent, a, b)) = 0
        BY <3>1, <3>2
      <3>4. Part(sent, a, b) = <<>>
        BY <3>2, <3>3, EmptySeq
      <3> QED
        BY <3>4
    <2> QED
      BY <1>2, <1>4, <2>1
  <1>7. /\ FirstNewline(wire.todo) = 2 /\ wire.todo[1] = sent[2 * h + 1]
        /\ Part(wire.todo, 2, Len(wire.todo)) = Part(sent, 2 * (h + 1), 2 * k)
    <2>1. 2 * k <= Len(sent) /\ h \in Nat /\ k \in Nat
      BY <1>4, <1>5
    <2> DEFINE p == Part(sent, 2 * h, 2 * k)
    <2>2. /\ FirstNewline(p) = 2 /\ p[1] = sent[2 * h + 1]
          /\ Part(p, 2, Len(p)) = Part(sent, 2 * (h + 1), 2 * k)
      BY <1>5, <1>6, <2>1, FirstLineIs
    <2>3. wire.todo = p
      BY <1>4
    <2> HIDE DEF p
    <2> QED
      BY <2>2, <2>3
  <1>8. EventOf(wire.todo) = lines[h + 1] /\ h + 1 \in 0..w /\ h \in 0..(Len(lines) - 1) /\ h < w
    <2>1. h \in 0..(w - 1) /\ h + 1 \in 0..w /\ h \in 0..(Len(lines) - 1) /\ h < w
      BY <1>4, <1>5, <1>6
    <2>2. wire.todo[1] = <<h + 1, "head">>
      BY <1>5, <1>7, <2>1
    <2> QED
      BY <2>1, <2>2 DEF EventOf, lines
  <1> DEFINE line == lines[h + 1]
             usage == IF IsUsage(line) THEN Merged(wire.adapter, wire.usage, line) ELSE wire.usage
             actual == IF IsUsage(line) THEN TotalTokens(usage) ELSE wire.actual
             told == wire.told \o Chunks(wire.adapter, wire.usage, line)
  <1>9. CASE IsDone(wire.adapter, line)
    <2>1. wire' = [wire EXCEPT !.at = "close", !.completed = TRUE, !.todo = <<>>]
      BY <1>8, <1>9 DEF HandleLine
    <2>2. /\ DOMAIN wire' = StreamFields /\ wire'.on = wire.on /\ wire'.adapter = wire.adapter
          /\ wire'.lines = wire.lines /\ wire'.unfinished = wire.unfinished
          /\ wire'.usage = wire.usage /\ wire'.actual = wire.actual
          /\ wire'.told = wire.told /\ wire'.lease = wire.lease /\ wire'.turn = wire.turn
          /\ wire'.at = "close" /\ wire'.completed = TRUE /\ wire'.failed = wire.failed
      BY <1>2, <2>1 DEF StreamFields
    <2>3. Stands(wire', h)
      BY <1>1, <1>8, <1>9, <2>2 DEF Stands, w, lines
    <2>4. h \in 0..Whole(wire'.lines, wire'.unfinished)
      BY <1>1, <2>2 DEF w, lines
    <2> QED
      BY <1>3, <2>2, <2>3, <2>4 DEF StreamOK
  <1>10. CASE ~IsDone(wire.adapter, line)
    <2>1. /\ DOMAIN wire' = StreamFields /\ wire'.on = wire.on /\ wire'.adapter = wire.adapter
          /\ wire'.lines = wire.lines /\ wire'.unfinished = wire.unfinished
          /\ wire'.usage = usage /\ wire'.actual = actual
          /\ wire'.told = told /\ wire'.lease = wire.lease /\ wire'.turn = wire.turn
          /\ wire'.at = wire.at /\ wire'.completed = wire.completed /\ wire'.failed = wire.failed
          /\ wire'.todo = SubSeq(wire.todo, 2 + 1, Len(wire.todo))
          /\ wire'.buffer = wire.buffer /\ wire'.coming = wire.coming
      <3>1. wire' = [wire EXCEPT !.todo = SubSeq(@, 2 + 1, Len(@)), !.usage = usage,
                          !.actual = IF IsUsage(line) THEN TotalTokens(usage) ELSE @,
                          !.told = @ \o Chunks(wire.adapter, wire.usage, line),
                          !.suspended = Chunks(wire.adapter, wire.usage, line) # <<>>]
        BY <1>7, <1>8, <1>10 DEF HandleLine
      <3> HIDE DEF usage, line
      <3>2. wire' = [wire EXCEPT !.todo = SubSeq(wire.todo, 2 + 1, Len(wire.todo)), !.usage = usage,
                          !.actual = actual, !.told = told,
                          !.suspended = Chunks(wire.adapter, wire.usage, line) # <<>>]
        BY <1>2, <3>1 DEF StreamFields
      <3> HIDE DEF actual, told
      <3> QED
        BY <1>2, <3>2 DEF StreamFields
    <2>2. Tells(wire.adapter, lines, told, usage, actual, h + 1)
      <3>1. Tells(wire.adapter, lines, wire.told, wire.usage, wire.actual, h) /\ lines \in Seq(SentLines)
        BY <1>1 DEF Stands, StreamOK
      <3> HIDE DEF lines
      <3> QED
        BY <1>8, <3>1, TellsMore
    <2> HIDE DEF line, usage, actual, told
    <2>3. wire'.todo = Part(sent, 2 * (h + 1), 2 * k)
      BY <1>7, <2>1 DEF Part
    <2>4. k \in (h + 1)..w /\ h + 1 \in 0..w
      BY <1>4, <1>5, <1>6
    <2>5. Waits(wire', h + 1)
      BY <1>2, <1>4, <2>1, <2>3, <2>4 DEF Waits, sent, w, lines
    <2>6. \A i \in 1..(h + 1) : ~IsDone(wire.adapter, lines[i])
      <3>1. \A i \in 1..(h + 1) : i \in 1..h \/ i = h + 1
        BY <1>5
      <3> QED
        BY <1>1, <1>10, <3>1 DEF Stands, line, lines
    <2>7. Stands(wire', h + 1)
      BY <1>2, <2>1, <2>2, <2>5, <2>6 DEF Stands, lines
    <2>8. h + 1 \in 0..Whole(wire'.lines, wire'.unfinished)
      BY <2>1, <2>4 DEF w, lines
    <2> QED
      BY <1>3, <2>1, <2>7, <2>8 DEF StreamOK
  <1> QED
    BY <1>9, <1>10

\* A buffered response ends its lease and makes its turn at once (generateTurn).
LEMMA TurnKeeps ==
    ASSUME TurnOK(wire), GenerateTurn
    PROVE  TurnOK(wire)'
  <1>1. DOMAIN wire = {"on", "adapter", "content", "readable", "lease", "turn"} /\ wire.lease = None
    BY DEF TurnOK, GenerateTurn
  <1>2. wire.turn = None
    <2>1. Outcome(FALSE, TRUE, 5) # None
      <3>1. Outcome(FALSE, TRUE, 5) \in [is : {"completed", "failed", "aborted"}, tokens : Int]
        BY DEF Outcome
      <3> QED
        BY <3>1, StreamAssumption
    <2> QED
      BY <1>1, <2>1 DEF TurnOK
  <1>3. CASE wire.readable
    <2> DEFINE outcome == Outcome(FALSE, TRUE, 5)
               turn == TurnOf(wire.content, 5)
    <2>1. wire' = [wire EXCEPT !.lease = outcome, !.turn = turn]
      BY <1>3 DEF GenerateTurn
    <2> HIDE DEF outcome, turn
    <2>2. /\ DOMAIN wire' = DOMAIN wire /\ wire'.on = wire.on /\ wire'.content = wire.content
          /\ wire'.lease = outcome /\ wire'.turn = turn
      BY <1>1, <2>1
    <2>3. wire'.on = "turn" /\ wire'.content \in Seq({"text", "call"})
      BY <2>2 DEF TurnOK
    <2> QED
      BY <1>1, <2>2, <2>3 DEF TurnOK, outcome, turn
  <1>4. CASE ~wire.readable
    <2> DEFINE outcome == Outcome(TRUE, FALSE, None)
    <2>1. wire' = [wire EXCEPT !.lease = outcome]
      BY <1>4 DEF GenerateTurn
    <2> HIDE DEF outcome
    <2>2. /\ DOMAIN wire' = DOMAIN wire /\ wire'.on = wire.on /\ wire'.content = wire.content
          /\ wire'.lease = outcome /\ wire'.turn = None
      BY <1>1, <1>2, <2>1
    <2>3. wire'.on = "turn" /\ wire'.content \in Seq({"text", "call"})
      BY <2>2 DEF TurnOK
    <2> QED
      BY <1>1, <2>2, <2>3 DEF TurnOK, outcome
  <1> QED
    BY <1>3, <1>4

\* Every step of a stream or a turn keeps what is told true.
LEMMA WireKeeps == WireInv /\ WireNext => WireInv'
  <1> SUFFICES ASSUME WireInv, WireNext PROVE WireInv'
    OBVIOUS
  <1>1. CASE StreamOK(wire)
    <2>1. wire.on = "stream"
      BY <1>1 DEF StreamOK
    <2>2. ~GenerateTurn
      BY <2>1 DEF GenerateTurn
    <2>3. StreamOK(wire)'
      BY <1>1, <2>2, ChunkKeeps, EndKeeps, LineKeeps, ReadOnKeeps, FinalizeKeeps, ConsumeKeeps
         DEF WireNext
    <2> QED
      BY <2>3 DEF WireInv
  <1>2. CASE TurnOK(wire)
    <2>1. wire.on # "stream"
      BY <1>2 DEF TurnOK
    <2>2. GenerateTurn
      BY <2>1 DEF WireNext, ReceiveChunk, StreamEnds, ReadFails, HandleLine, ReadOn,
                  ConsumerCloses, FinalizeProviderStream, ConsumeProviderStream
    <2> QED
      BY <1>2, <2>2, TurnKeeps DEF WireInv
  <1> QED
    BY <1>1, <1>2 DEF WireInv

-----------------------------------------------------------------------------
\* A step of another part leaves a view as it is.
LEMMA TunnelRests == TunnelInv /\ UNCHANGED tunnel => TunnelInv' /\ EndedIsSilent
  BY DEF TunnelInv, EndedIsSilent, HasSession

\* The same of a provider's stream.
LEMMA WireRests == WireInv /\ UNCHANGED wire => WireInv'
  BY DEF WireInv

\* The same of the canvas.
LEMMA CanvasRests == CanvasInv /\ UNCHANGED canvas => CanvasInv' /\ FrameShowsGrid
  BY DEF CanvasInv, FrameShowsGrid, ScreenFollows

\* The same of the hub.
LEMMA HubRests == HubInv /\ UNCHANGED hub => HubInv' /\ HubKeepsOrder
  BY DEF HubInv, HubKeepsOrder, KnownSubscriber

\* The invariant: each view that is at work has its own.
ViewsInv ==
  /\ tunnel # Off => TunnelInv
  /\ canvas # Off => CanvasInv
  /\ hub # Off => HubInv
  /\ wire # Off => WireInv

\* A step of a view keeps the invariant and the order, and leaves the others.
LEMMA ViewsKeep ==
    ASSUME ViewsInv, [Next]_vars
    PROVE  /\ ViewsInv'
           /\ tunnel # Off => EndedIsSilent
           /\ canvas # Off => FrameShowsGrid
           /\ hub # Off => HubKeepsOrder
  <1>1. CASE tunnel # Off /\ TunnelNext /\ UNCHANGED <<canvas, hub, wire>>
    BY <1>1, TunnelKeeps, HubRests, CanvasRests, WireRests DEF ViewsInv
  <1>2. CASE canvas # Off /\ CanvasNext /\ UNCHANGED <<tunnel, hub, wire>>
    BY <1>2, CanvasKeeps, HubRests, TunnelRests, WireRests DEF ViewsInv
  <1>3. CASE hub # Off /\ BroadcastNext /\ UNCHANGED <<tunnel, canvas, wire>>
    BY <1>3, HubKeeps, CanvasRests, TunnelRests, WireRests DEF ViewsInv
  <1>4. CASE wire # Off /\ WireNext /\ UNCHANGED <<tunnel, canvas, hub>>
    BY <1>4, WireKeeps, HubRests, CanvasRests, TunnelRests DEF ViewsInv
  <1>5. CASE UNCHANGED <<tunnel, canvas, hub, wire>>
    BY <1>5, HubRests, CanvasRests, TunnelRests, WireRests DEF ViewsInv
  <1> QED
    BY <1>1, <1>2, <1>3, <1>4, <1>5 DEF Next, vars

\* Each view starts with what its invariant says.
LEMMA ViewsStart == Init => ViewsInv
  BY TunnelStarts, CanvasStarts, HubStarts, WireStarts DEF Init, ViewsInv

\* Every viewer sees the tail of the session's output in order, the screen of a
\* canvas follows its grid, the hub keeps no channel without a member, and the
\* turn of a stream holds all its lines and tells its tokens (pushOutput,
\* CanvasStreamer.snapshot, TelemetryBroadcaster, generateStream).
THEOREM ViewersSeeAll == Spec => []ViewersFollow
  <1>1. ViewsInv /\ [Next]_vars => ViewsInv'
    BY ViewsKeep
  <1>2. ViewsInv => ViewersFollow
    BY TunnelHolds, HubHolds, WireInvShows DEF ViewsInv, ViewersFollow, CanvasInv
  <1> QED
    BY <1>1, <1>2, ViewsStart, PTL DEF Spec

\* A session that has ended says nothing more, a frame shows the grid of its
\* moment, and the hub's messages reach a subscriber in the order of their
\* numbers (terminate, computeDelta, broadcast).
THEOREM ViewsKeepOrder == Spec => StreamsKeepOrder
  <1> DEFINE Ordered == /\ tunnel # Off => EndedIsSilent
                        /\ canvas # Off => FrameShowsGrid
                        /\ hub # Off => HubKeepsOrder
  <1>1. ViewsInv /\ [Next]_vars => ViewsInv' /\ [Ordered]_vars
    BY ViewsKeep
  <1> QED
    BY <1>1, ViewsStart, PTL DEF Spec, StreamsKeepOrder
-----------------------------------------------------------------------------
(* The replay *)

\* A sequence of events with times.
LogShape(log) ==
  /\ Len(log) \in Nat /\ DOMAIN log = 1 .. Len(log)
  /\ \A i \in DOMAIN log : log[i].at \in Int

\* The frames are numbered, and later ones are later.
InOrder(s) ==
  \A i \in DOMAIN s.frames :
    /\ s.frames[i].index = i - 1
    /\ i > 1 => s.frames[i].elapsed > s.frames[i - 1].elapsed

\* What ReplayIsEvidence says of a session and the source it was loaded from.
Evidence(src, s) ==
  /\ InOrder(s)
  /\ \A stated \in {src.expected, s.claims} : Agree(stated, s.facts)
  /\ \A artifact \in {src.manifest, src.result} \ {None} :
       /\ Agree(artifact.says, s.facts) /\ Agree(artifact.says, s.claims)
  /\ src.extension = "jsonl" => src.log = s.events /\ Agree(src.expected, s.claims)
  /\ s.kind = "direct" => s.claims = <<>>

\* Such a session is also what its export gives back.
SoundSession(src, s) == Evidence(src, s) /\ ImportSession(s) = Loaded(s)

\* The session of a log (projectReplaySession).
Projection(log, kind, identity) ==
  [kind   |-> kind,
   claims |-> Restrict(identity, Claims \cap DOMAIN identity),
   facts  |-> Says(log),
   frames |-> [i \in DOMAIN log |->
                [index |-> i - 1, type |-> FrameOf(log[i].type),
                 elapsed |-> log[i].at - log[1].at]],
   tools  |-> Cardinality({i \in DOMAIN log : IsDispatch(log[i])}),
   events |-> log]

\* What is projected is in order and keeps what was claimed.
LEMMA ProjectionKeeps ==
    ASSUME NEW log, NEW kind, NEW identity, LogShape(log), ValidEvents(log),
           NEW s, s = Projection(log, kind, identity)
    PROVE  /\ InOrder(s)
           /\ s.kind = kind /\ s.facts = Says(log) /\ s.events = log
           /\ DOMAIN s.claims = Claims \cap DOMAIN identity
           /\ \A k \in DOMAIN s.claims : s.claims[k] = identity[k]
           /\ Agree(s.claims, s.facts)
  <1>1. /\ s.kind = kind /\ s.facts = Says(log) /\ s.events = log
        /\ s.claims = Restrict(identity, Claims \cap DOMAIN identity)
        /\ s.frames = [i \in DOMAIN log |->
                        [index |-> i - 1, type |-> FrameOf(log[i].type),
                         elapsed |-> log[i].at - log[1].at]]
    BY DEF Projection
  <1>2. DOMAIN s.claims = Claims \cap DOMAIN identity
    BY <1>1 DEF Restrict
  <1>3. \A k \in DOMAIN s.claims : s.claims[k] = identity[k]
    BY <1>1 DEF Restrict
  <1>4. DOMAIN s.facts = {"run", "scenario", "skill", "reason", "status"}
    BY <1>1 DEF Says
  <1>5. Agree(s.claims, s.facts)
    BY <1>2, <1>4 DEF Agree, Claims
  <1>6. ASSUME NEW i \in DOMAIN s.frames
        PROVE  /\ s.frames[i].index = i - 1
               /\ i > 1 => s.frames[i].elapsed > s.frames[i - 1].elapsed
    <2>1. i \in DOMAIN log /\ i \in Nat /\ 1 \in DOMAIN log /\ Len(log) \in Nat
      BY <1>1, <1>6 DEF LogShape
    <2>2. s.frames[i].index = i - 1 /\ s.frames[i].elapsed = log[i].at - log[1].at
      BY <1>1, <2>1
    <2>3. ASSUME i > 1 PROVE s.frames[i].elapsed > s.frames[i - 1].elapsed
      <3>1. i - 1 \in DOMAIN log
        BY <2>1, <2>3 DEF LogShape
      <3>2. s.frames[i - 1].elapsed = log[i - 1].at - log[1].at
        BY <1>1, <3>1
      <3>3. log[i].at > log[i - 1].at
        BY <2>1, <2>3 DEF ValidEvents
      <3>4. log[i].at \in Int /\ log[i - 1].at \in Int /\ log[1].at \in Int
        BY <2>1, <3>1 DEF LogShape
      <3> QED
        BY <2>2, <3>2, <3>3, <3>4
    <2> QED
      BY <2>2, <2>3
  <1> QED
    BY <1>1, <1>2, <1>3, <1>5, <1>6 DEF InOrder

\* A projected session is read back as it is (parseReplaySessionJson).
LEMMA ImportIsInverse ==
    ASSUME NEW log, NEW kind, NEW identity, LogShape(log), ValidEvents(log),
           kind = "direct" => Claims \cap DOMAIN identity = {},
           kind = "canonical-run" => {"provider", "tokens"} \subseteq DOMAIN identity,
           NEW s, s = Projection(log, kind, identity)
    PROVE  ImportSession(s) = Loaded(s)
  <1>1. /\ s.kind = kind /\ s.facts = Says(log) /\ s.events = log
        /\ DOMAIN s.claims = Claims \cap DOMAIN identity
        /\ Agree(s.claims, Says(log))
    BY ProjectionKeeps
  <1>2. s.claims = Restrict(identity, Claims \cap DOMAIN identity)
    BY DEF Projection
  <1>3. Restrict(s.claims, Claims \cap DOMAIN s.claims) = s.claims
    <2>1. Claims \cap DOMAIN s.claims = Claims \cap DOMAIN identity
      BY <1>1
    <2> QED
      BY <1>2, <2>1 DEF Restrict
  <1>4. Projection(log, kind, s.claims) = s
    <2>1. Projection(log, kind, s.claims) =
            [kind |-> kind, claims |-> Restrict(s.claims, Claims \cap DOMAIN s.claims),
             facts |-> Says(log),
             frames |-> [i \in DOMAIN log |->
                          [index |-> i - 1, type |-> FrameOf(log[i].type),
                           elapsed |-> log[i].at - log[1].at]],
             tools |-> Cardinality({i \in DOMAIN log : IsDispatch(log[i])}), events |-> log]
      BY DEF Projection
    <2> QED
      BY <2>1, <1>3, <1>2 DEF Projection
  <1>5. ProjectSession(s.events, s.kind, ExportedIdentity(s)) = Loaded(s)
    BY <1>1, <1>4 DEF ProjectSession, ExportedIdentity, Projection
  <1>6. (kind = "direct" => DOMAIN s.claims = {})
        /\ (kind = "canonical-run" => {"provider", "tokens"} \subseteq DOMAIN s.claims)
    BY <1>1 DEF Claims
  <1>7. Loaded(s).failed = "no" /\ Loaded(s).session = s
    BY DEF Loaded
  <1>8. ImportSession(s) = Loaded(s)
    BY <1>1, <1>5, <1>6, <1>7 DEF ImportSession
  <1> QED
    BY <1>8

-----------------------------------------------------------------------------
\* What the evidence a command finds has in common, sound or not.
SourceShape(src) ==
  /\ src.extension = "jsonl" => LogShape(src.log)
  /\ src.extension = "jsonl" /\ src.manifest # None /\ src.result # None =>
       LET stated == DOMAIN src.manifest.says \cup DOMAIN src.result.says
       IN {"provider", "tokens"} \subseteq stated /\ DOMAIN src.expected \subseteq stated
  /\ src.extension = "json" /\ src.manifest = None /\ src.result = None =>
       /\ LogShape(src.document.events)
       /\ DOMAIN src.expected = {"run"}

\* A log with other things in its events is still a log.
LEMMA ShapeStays ==
    ASSUME NEW log, LogShape(log), NEW i \in DOMAIN log, NEW event, event.at \in Int
    PROVE  LogShape([log EXCEPT ![i] = event])
  BY DEF LogShape

\* The logs of sound runs.
LEMMA SoundLogShape ==
    ASSUME NEW type, NEW reason
    PROVE  /\ LogShape(SoundLog(type, reason))
           /\ Len(SoundLog(type, reason)) = 3
  BY DEF LogShape, SoundLog

\* And what is made of them by one change.
LEMMA DamagedLogShape ==
    ASSUME NEW type, NEW reason, NEW l \in DamagedLogs(SoundLog(type, reason))
    PROVE  LogShape(l)
  <1> DEFINE log == SoundLog(type, reason)
  <1>1. log[1].at \in Int /\ log[2].at \in Int /\ log[3].at \in Int
    BY DEF SoundLog
  <1>2. LogShape(log) /\ DOMAIN log = 1 .. 3
    BY SoundLogShape DEF LogShape
  <1>3. ASSUME NEW i \in 1 .. 3
        PROVE  /\ LogShape([log EXCEPT ![i].valid = FALSE])
               /\ LogShape([log EXCEPT ![i].run = "b"])
               /\ LogShape([log EXCEPT ![i].seq = 1])
               /\ LogShape([log EXCEPT ![i].at = 1])
    <2>1. /\ [log[i] EXCEPT !.valid = FALSE].at \in Int
          /\ [log[i] EXCEPT !.run = "b"].at \in Int
          /\ [log[i] EXCEPT !.seq = 1].at \in Int
          /\ [log[i] EXCEPT !.at = 1].at \in Int
      BY DEF SoundLog
    <2>2. i \in DOMAIN log
      BY <1>2
    <2> HIDE DEF log
    <2>3. LogShape([log EXCEPT ![i] = [log[i] EXCEPT !.valid = FALSE]])
      BY <2>1, <2>2, <1>2, ShapeStays
    <2>4. LogShape([log EXCEPT ![i] = [log[i] EXCEPT !.run = "b"]])
      BY <2>1, <2>2, <1>2, ShapeStays
    <2>5. LogShape([log EXCEPT ![i] = [log[i] EXCEPT !.seq = 1]])
      BY <2>1, <2>2, <1>2, ShapeStays
    <2>6. LogShape([log EXCEPT ![i] = [log[i] EXCEPT !.at = 1]])
      BY <2>1, <2>2, <1>2, ShapeStays
    <2> QED
      BY <2>3, <2>4, <2>5, <2>6
  <1>8. 1 \in 1 .. 3 /\ 2 \in 1 .. 3 /\ 3 \in 1 .. 3 /\ 2 .. 3 \subseteq 1 .. 3
    OBVIOUS
  <1>4. ASSUME NEW t PROVE LogShape([log EXCEPT ![2].type = t])
    <2>1. [log[2] EXCEPT !.type = t].at \in Int
      BY DEF SoundLog
    <2> HIDE DEF log
    <2>2. LogShape([log EXCEPT ![2] = [log[2] EXCEPT !.type = t]])
      BY <2>1, <1>2, <1>8, ShapeStays
    <2> QED
      BY <2>2
  <1>5. ASSUME NEW i \in 1 .. 3, NEW j \in 1 .. 3 PROVE LogShape(<<log[i], log[j]>>)
    <2>1. log[i].at \in Int /\ log[j].at \in Int
      BY <1>1
    <2> HIDE DEF log
    <2> QED
      BY <2>1 DEF LogShape
  <1>6. LogShape(<<>>)
    BY DEF LogShape
  <1>7. /\ LogShape([log EXCEPT ![1].says.scenario = "b"])
        /\ LogShape([log EXCEPT ![3].says.reason = "error"])
    <2>1. /\ [log[1] EXCEPT !.says.scenario = "b"].at \in Int
          /\ [log[3] EXCEPT !.says.reason = "error"].at \in Int
      BY DEF SoundLog
    <2> HIDE DEF log
    <2>2. LogShape([log EXCEPT ![1] = [log[1] EXCEPT !.says.scenario = "b"]])
      BY <2>1, <1>2, <1>8, ShapeStays
    <2>3. LogShape([log EXCEPT ![3] = [log[3] EXCEPT !.says.reason = "error"]])
      BY <2>1, <1>2, <1>8, ShapeStays
    <2> QED
      BY <2>2, <2>3
  <1> HIDE DEF log
  <1>9. ASSUME l \in DamagedEvents(log) PROVE LogShape(l)
    <2>1. \E i \in 1 .. 3 : \/ l = [log EXCEPT ![i].valid = FALSE]
                            \/ l = [log EXCEPT ![i].run = "b"]
                            \/ l = [log EXCEPT ![i].seq = 1]
                            \/ l = [log EXCEPT ![i].at = 1]
      BY <1>9, <1>8 DEF DamagedEvents
    <2> QED
      BY <1>3, <2>1
  <1>10. CASE \E t : l = [log EXCEPT ![2].type = t]
    BY <1>4, <1>10
  <1>11. CASE l \in {<<log[2], log[3]>>, <<log[1], log[2]>>, <<log[1], log[3]>>, <<>>}
    BY <1>5, <1>6, <1>8, <1>11
  <1>12. CASE l \in {[log EXCEPT ![1].says.scenario = "b"], [log EXCEPT ![3].says.reason = "error"]}
    BY <1>7, <1>12
  <1> QED
    BY <1>9, <1>10, <1>11, <1>12 DEF DamagedLogs, log

\* The log of that run is accepted.
LEMMA SoundLogIsValid == ValidEvents(SoundRun.log)
  <1> DEFINE log == SoundLog("tool:dispatch", "success")
  <1>1. Len(log) = 3 /\ DOMAIN log = 1 .. 3
    BY DEF SoundLog
  <1>2. /\ log[1] = [type |-> "run:start", run |-> "a", seq |-> 1, at |-> 1, valid |-> TRUE,
                     says |-> [scenario |-> "a", skill |-> "a"]]
        /\ log[2] = [type |-> "tool:dispatch", run |-> "a", seq |-> 2, at |-> 2,
                     valid |-> TRUE, says |-> None]
        /\ log[3] = [type |-> "run:finish", run |-> "a", seq |-> 3, at |-> 4, valid |-> TRUE,
                     says |-> [reason |-> "success"]]
    BY DEF SoundLog
  <1> HIDE DEF log
  <1>3. /\ {i \in DOMAIN log : log[i].type = "run:start"} = {1}
        /\ {i \in DOMAIN log : log[i].type = "run:finish"} = {3}
    BY <1>1, <1>2
  <1>4. \A type \in {"run:start", "run:finish"} :
          Cardinality({i \in DOMAIN log : log[i].type = type}) = 1
    <2>1. Cardinality({1}) = 1 /\ Cardinality({3}) = 1
      BY FS_Singleton
    <2>2. /\ Cardinality({i \in DOMAIN log : log[i].type = "run:start"}) = 1
          /\ Cardinality({i \in DOMAIN log : log[i].type = "run:finish"}) = 1
      BY <1>3, <2>1
    <2> QED
      BY <2>2
  <1>5. \A i \in DOMAIN log :
          /\ log[i].run = log[1].run
          /\ log[i].seq = i
          /\ log[i].at > IF i = 1 THEN 0 ELSE log[i - 1].at
    BY <1>1, <1>2
  <1>6. ValidEvents(log)
    BY <1>1, <1>2, <1>4, <1>5 DEF ValidEvents
  <1> QED
    BY <1>6 DEF log, SoundRun, Canonical

\* What that run's artifacts state.
Stated == Both(SoundManifest.says, SoundResult("success").says)

\* Manifest, result and log of a sound run agree (assertExpectedIdentity).
LEMMA SoundArtifactsAgree ==
  /\ Agree(Stated, Says(SoundRun.log))
  /\ {"provider", "tokens"} \subseteq DOMAIN Stated
  /\ ArtifactsAgree(SoundManifest, SoundResult("success"), SoundResult("success").says)
  <1> DEFINE m == SoundManifest.says
             r == SoundResult("success").says
  <1>1. m = [run |-> "a", scenario |-> "a", skill |-> "a", sweep |-> "a", provider |-> "a"]
    BY DEF SoundManifest
  <1>2. /\ DOMAIN r = {"run", "scenario", "skill", "sweep", "provider", "reason", "status",
                       "cohort", "tokens"}
        /\ \A k \in DOMAIN m : r[k] = m[k]
        /\ r["reason"] = "success" /\ r["status"] = "completed"
    BY <1>1 DEF SoundResult, Both, StatusOf
  <1>3. /\ Says(SoundRun.log).run = "a" /\ Says(SoundRun.log).scenario = "a" /\ Says(SoundRun.log).skill = "a"
        /\ Says(SoundRun.log).reason = "success" /\ Says(SoundRun.log).status = "completed"
        /\ DOMAIN Says(SoundRun.log) = {"run", "scenario", "skill", "reason", "status"}
    BY DEF Says, SoundRun, Canonical, SoundLog, StatusOf
  <1>4. DOMAIN Stated = DOMAIN r /\ \A k \in DOMAIN r : Stated[k] = r[k]
    BY <1>1, <1>2 DEF Stated, Both
  <1>5. SoundManifest.valid /\ SoundResult("success").valid
    BY DEF SoundManifest, SoundResult
  <1> HIDE DEF m, r
  <1> QED
    BY <1>1, <1>2, <1>3, <1>4, <1>5 DEF Agree, ArtifactsAgree, StatusOf, m, r

\* The two documents that are changed are exports of sound runs.
LEMMA DocumentsAre ==
  /\ LoadReplaySession(SoundRun) = Loaded(Projection(SoundRun.log, "canonical-run", Stated))
  /\ LoadReplaySession(BareRun) = Loaded(Projection(SoundRun.log, "direct", [run |-> "a"]))
  <1>1. /\ SoundRun.log = SoundLog("tool:dispatch", "success")
        /\ SoundRun.extension = "jsonl" /\ SoundRun.owned = TRUE
        /\ SoundRun.manifest = SoundManifest /\ SoundRun.result = SoundResult("success")
        /\ SoundRun.expected = SoundResult("success").says
        /\ SoundRun = [extension |-> SoundRun.extension, owned |-> SoundRun.owned, log |-> SoundRun.log,
                  document |-> SoundRun.document, manifest |-> SoundRun.manifest,
                  result |-> SoundRun.result, expected |-> SoundRun.expected]
    BY DEF SoundRun, Canonical
  <1>2. /\ BareRun.log = SoundRun.log /\ BareRun.extension = "jsonl"
        /\ BareRun.manifest = None /\ BareRun.result = None
        /\ BareRun.expected = [run |-> "a"]
    BY <1>1 DEF BareRun
  <1>3. None \notin {SoundRun.manifest, SoundRun.result}
    BY <1>1, ReplayAssumption
  <1>4. ASSUME NEW kind, NEW identity, Agree(identity, Says(SoundRun.log))
        PROVE  ProjectSession(SoundRun.log, kind, identity) = Loaded(Projection(SoundRun.log, kind, identity))
    BY <1>4 DEF ProjectSession, Projection
  <1>5. LoadCanonical(SoundRun) = ProjectSession(SoundRun.log, "canonical-run", Stated)
    BY <1>1, <1>3, SoundArtifactsAgree, SoundLogIsValid DEF LoadCanonical, Stated
  <1>6. LoadDirect(BareRun) = ProjectSession(SoundRun.log, "direct", [run |-> "a"])
    BY <1>2, SoundLogIsValid DEF LoadDirect, Claims
  <1>7. Agree([run |-> "a"], Says(SoundRun.log))
    BY DEF Agree, Says, SoundRun, Canonical, SoundLog
  <1>8. LoadReplaySession(SoundRun) = LoadCanonical(SoundRun)
    BY <1>1, <1>3 DEF LoadReplaySession
  <1>9. LoadReplaySession(BareRun) = LoadDirect(BareRun)
    BY <1>2 DEF LoadReplaySession
  <1> QED
    BY <1>4, <1>5, <1>6, <1>7, <1>8, <1>9, SoundArtifactsAgree

\* What these two are, field by field.
LEMMA FieldsAre ==
  /\ SoundRun = [extension |-> "jsonl", owned |-> TRUE, log |-> SoundLog("tool:dispatch", "success"),
            document |-> None, manifest |-> SoundManifest, result |-> SoundResult("success"),
            expected |-> SoundResult("success").says]
  /\ BareRun.extension = "jsonl" /\ BareRun.manifest = None /\ BareRun.result = None
  /\ BareRun.expected = [run |-> "a"] /\ BareRun.log = SoundRun.log
  /\ {"extension", "document", "expected"} \subseteq DOMAIN BareRun
  /\ LogShape(SoundRun.log)
  <1>1. SoundRun = [extension |-> "jsonl", owned |-> TRUE, log |-> SoundLog("tool:dispatch", "success"),
               document |-> None, manifest |-> SoundManifest, result |-> SoundResult("success"),
               expected |-> SoundResult("success").says]
    BY DEF SoundRun, Canonical
  <1>2. /\ BareRun.extension = "jsonl" /\ BareRun.manifest = None /\ BareRun.result = None
        /\ BareRun.expected = [run |-> "a"]
        /\ {"extension", "document", "expected"} \subseteq DOMAIN BareRun
    BY <1>1 DEF BareRun
  <1>4. BareRun.log = SoundRun.log
    BY <1>1 DEF BareRun
  <1>3. LogShape(SoundRun.log)
    BY <1>1, SoundLogShape
  <1> QED
    BY <1>1, <1>2, <1>3, <1>4

\* What manifest and result state something about (parseReplayArtifactIdentity).
LEMMA DomainsAre ==
    ASSUME NEW reason
    PROVE  /\ DOMAIN SoundManifest.says = {"run", "scenario", "skill", "sweep", "provider"}
           /\ DOMAIN SoundResult(reason).says =
                {"run", "scenario", "skill", "sweep", "provider", "reason", "status",
                 "cohort", "tokens"}
  BY DEF SoundManifest, SoundResult, Both

\* An altered artifact states something about the same things.
LEMMA AlteredDomain ==
    ASSUME NEW valid, NEW says, NEW a \in Altered([valid |-> valid, says |-> says])
    PROVE  DOMAIN a.says = DOMAIN says
  BY DEF Altered

\* All of Sources has the shape.
LEMMA SourcesAreShaped == ASSUME NEW src \in Sources PROVE SourceShape(src)
  <1>1. ASSUME NEW t, NEW r PROVE SourceShape(Canonical(t, r))
    BY SoundLogShape, DomainsAre DEF SourceShape, Canonical
  <1>2. ASSUME NEW l, LogShape(l) PROVE SourceShape([SoundRun EXCEPT !.log = l])
    BY <1>2, FieldsAre, DomainsAre DEF SourceShape
  <1>3. ASSUME NEW m \in Altered(SoundRun.manifest) \cup {None}
        PROVE  SourceShape([SoundRun EXCEPT !.manifest = m])
    <2>1. m # None => DOMAIN m.says = DOMAIN SoundManifest.says
      BY FieldsAre, AlteredDomain DEF SoundManifest
    <2> QED
      BY <2>1, FieldsAre, DomainsAre DEF SourceShape
  <1>4. ASSUME NEW r \in Altered(SoundRun.result) \cup {None}
        PROVE  SourceShape([SoundRun EXCEPT !.result = r])
    <2>1. r # None => DOMAIN r.says = DOMAIN SoundResult("success").says
      BY FieldsAre, AlteredDomain DEF SoundResult
    <2> QED
      BY <2>1, FieldsAre, DomainsAre DEF SourceShape
  <1>5. ASSUME NEW k \in DOMAIN SoundRun.expected PROVE SourceShape([SoundRun EXCEPT !.expected[k] = "b"])
    <2>1. DOMAIN [SoundRun.expected EXCEPT ![k] = "b"] = DOMAIN SoundResult("success").says
      BY FieldsAre
    <2>2. SourceShape([SoundRun EXCEPT !.expected = [SoundRun.expected EXCEPT ![k] = "b"]])
      BY <2>1, FieldsAre, DomainsAre DEF SourceShape
    <2> QED
      BY <2>2
  <1>6. /\ SourceShape([SoundRun EXCEPT !.owned = FALSE])
        /\ SourceShape([SoundRun EXCEPT !.extension = "other"])
        /\ SourceShape([SoundRun EXCEPT !.extension = "json"])
    BY FieldsAre, DomainsAre, ReplayAssumption DEF SourceShape
  <1>7. SourceShape(BareRun) /\ \A e : SourceShape([BareRun EXCEPT !.expected = e])
    BY FieldsAre DEF SourceShape
  <1>8. ASSUME NEW d, LogShape(d.events), NEW r
        PROVE  SourceShape([BareRun EXCEPT !.extension = "json", !.document = d,
                                           !.expected = [run |-> r]])
    BY <1>8, FieldsAre DEF SourceShape
  <1>9. ASSUME NEW d \in Documents
        PROVE  LogShape(d.events)
    <2>0. PICK x \in {LoadReplaySession(SoundRun).session, LoadReplaySession(BareRun).session} :
             d \in AlteredSession(x)
      BY DEF Documents
    <2>1. PICK kind, identity : x = Projection(SoundRun.log, kind, identity)
      BY <2>0, DocumentsAre DEF Loaded
    <2>2. \/ d.events = SoundRun.log
          \/ d.events = [SoundRun.log EXCEPT ![2].seq = 1]
      <3>1. x.events = SoundRun.log /\ "events" \in DOMAIN x
        BY <2>1 DEF Projection
      <3>2. [x EXCEPT !.events[2].seq = 1].events = [SoundRun.log EXCEPT ![2].seq = 1]
        BY <3>1
      <3>3. /\ [x EXCEPT !.claims = [sweep |-> "a"]].events = SoundRun.log
            /\ [x EXCEPT !.tools = 7].events = SoundRun.log
            /\ [x EXCEPT !.frames[2].type = "generic"].events = SoundRun.log
            /\ [x EXCEPT !.facts.status = "failed"].events = SoundRun.log
        BY <3>1
      <3> QED
        BY <2>0, <3>1, <3>2, <3>3 DEF AlteredSession
    <2>3. SoundRun.log[2].at \in Int /\ SoundRun.log[1].run = "a" /\ 2 \in DOMAIN SoundRun.log /\ 1 \in DOMAIN SoundRun.log
      BY FieldsAre DEF SoundLog
    <2>4. LogShape([SoundRun.log EXCEPT ![2] = [SoundRun.log[2] EXCEPT !.seq = 1]])
      <3>1. [SoundRun.log[2] EXCEPT !.seq = 1].at \in Int
        BY FieldsAre DEF SoundLog
      <3> QED
        BY <3>1, <2>3, FieldsAre, ShapeStays
    <2> QED
      BY <2>2, <2>3, <2>4, FieldsAre
  <1>10. ASSUME NEW l \in DamagedLogs(SoundRun.log) PROVE LogShape(l)
    BY FieldsAre, DamagedLogShape
  <1> DEFINE A == {[SoundRun EXCEPT !.log = l] : l \in DamagedLogs(SoundRun.log)}
             B == {[SoundRun EXCEPT !.manifest = m] : m \in Altered(SoundRun.manifest) \cup {None}}
             C == {[SoundRun EXCEPT !.result = r] : r \in Altered(SoundRun.result) \cup {None}}
             D == {[SoundRun EXCEPT !.expected[k] = "b"] : k \in DOMAIN SoundRun.expected}
  <1>11. DamagedRuns = A \cup B \cup C \cup D
    BY DEF DamagedRuns
  <1>12. src \in A => SourceShape(src)
    BY <1>2, <1>10
  <1>13. src \in B => SourceShape(src)
    BY <1>3
  <1>14. src \in C => SourceShape(src)
    BY <1>4
  <1>15. src \in D => SourceShape(src)
    BY <1>5
  <1>16. src \in StrayRuns \cup BareRuns => SourceShape(src)
    BY <1>6, <1>7 DEF StrayRuns, BareRuns
  <1>17. src \in ExportedRuns => SourceShape(src)
    <2>1. ASSUME NEW r, src \in ExportsFor(r) PROVE SourceShape(src)
      <3>1. PICK d \in Documents :
               src = [BareRun EXCEPT !.extension = "json", !.document = d, !.expected = [run |-> r]]
        BY <2>1 DEF ExportsFor
      <3> QED
        BY <1>8, <1>9, <3>1
    <2> QED
      BY <2>1 DEF ExportedRuns
  <1>18. src \in SoundRuns => SourceShape(src)
    BY <1>1 DEF SoundRuns
  <1> HIDE DEF A, B, C, D
  <1> QED
    BY <1>11, <1>12, <1>13, <1>14, <1>15, <1>16, <1>17, <1>18 DEF Sources
-----------------------------------------------------------------------------
\* A log that claims nothing: it says the same as the row that asked for it.
LEMMA DirectIsSound ==
    ASSUME NEW src, SourceShape(src), src.extension = "jsonl",
           src.manifest = None, src.result = None, LoadDirect(src).failed = "no"
    PROVE  /\ SoundSession(src, LoadDirect(src).session)
           /\ LoadDirect(src) = Loaded(LoadDirect(src).session)
  <1> DEFINE s == Projection(src.log, "direct", src.expected)
  <1>1. ValidEvents(src.log) /\ Claims \cap DOMAIN src.expected = {}
        /\ LoadDirect(src) = ProjectSession(src.log, "direct", src.expected)
    BY DEF LoadDirect, Failure
  <1>2. Agree(src.expected, Says(src.log)) /\ LoadDirect(src) = Loaded(s)
    BY <1>1 DEF ProjectSession, Failure, Projection
  <1>3. LogShape(src.log)
    BY DEF SourceShape
  <1>4. ImportSession(s) = Loaded(s)
    BY <1>1, <1>3, ImportIsInverse
  <1>5. /\ InOrder(s) /\ s.kind = "direct" /\ s.facts = Says(src.log) /\ s.events = src.log
        /\ DOMAIN s.claims = {} /\ Agree(s.claims, s.facts)
    BY <1>1, <1>3, ProjectionKeeps
  <1>6. s.claims = <<>>
    <2>1. s.claims = Restrict(src.expected, {})
      BY <1>1 DEF Projection
    <2> QED
      BY <2>1 DEF Restrict
  <1> HIDE DEF s
  <1>7. Agree(src.expected, s.claims)
    BY <1>5 DEF Agree
  <1>8. Evidence(src, s)
    BY <1>2, <1>5, <1>6, <1>7 DEF Evidence
  <1>9. Loaded(s).session = s
    BY DEF Loaded
  <1> QED
    BY <1>2, <1>4, <1>8, <1>9 DEF SoundSession

\* With its artifacts: what manifest and result state is in the log or claimed,
\* and the reporting row expects nothing that neither states.
LEMMA CanonicalIsSound ==
    ASSUME NEW src, SourceShape(src), src.extension = "jsonl", LoadCanonical(src).failed = "no"
    PROVE  /\ SoundSession(src, LoadCanonical(src).session)
           /\ LoadCanonical(src) = Loaded(LoadCanonical(src).session)
  <1> DEFINE m == src.manifest.says
             r == src.result.says
             identity == Both(m, r)
             s == Projection(src.log, "canonical-run", identity)
  <1>1. /\ None \notin {src.manifest, src.result}
        /\ ArtifactsAgree(src.manifest, src.result, src.expected)
        /\ ValidEvents(src.log)
        /\ LoadCanonical(src) = ProjectSession(src.log, "canonical-run", identity)
    BY DEF LoadCanonical, Failure
  <1>2. Agree(identity, Says(src.log)) /\ LoadCanonical(src) = Loaded(s)
    BY <1>1 DEF ProjectSession, Failure, Projection
  <1>3. /\ LogShape(src.log) /\ {"provider", "tokens"} \subseteq DOMAIN m \cup DOMAIN r
        /\ DOMAIN src.expected \subseteq DOMAIN m \cup DOMAIN r
    BY <1>1 DEF SourceShape
  <1>4. /\ DOMAIN identity = DOMAIN m \cup DOMAIN r
        /\ \A k \in DOMAIN m : identity[k] = m[k]
        /\ \A k \in DOMAIN r : identity[k] = r[k]
        /\ \A k \in DOMAIN src.expected : identity[k] = src.expected[k]
    <2>1. /\ DOMAIN identity = DOMAIN m \cup DOMAIN r
          /\ \A k \in DOMAIN identity : identity[k] = IF k \in DOMAIN m THEN m[k] ELSE r[k]
      BY DEF Both
    <2>2. Agree(m, r) /\ Agree(src.expected, m) /\ Agree(src.expected, r)
      BY <1>1 DEF ArtifactsAgree
    <2> HIDE DEF identity, m, r
    <2> QED
      BY <2>1, <2>2, <1>3 DEF Agree
  <1> HIDE DEF m, r, identity
  <1>5. ImportSession(s) = Loaded(s)
    BY <1>1, <1>3, <1>4, ImportIsInverse
  <1>6. /\ InOrder(s) /\ s.kind = "canonical-run" /\ s.facts = Says(src.log) /\ s.events = src.log
        /\ DOMAIN s.claims = Claims \cap DOMAIN identity
        /\ \A k \in DOMAIN s.claims : s.claims[k] = identity[k]
        /\ Agree(s.claims, s.facts)
    BY <1>1, <1>3, ProjectionKeeps
  <1>7. Loaded(s).session = s
    BY DEF Loaded
  <1> HIDE DEF s
  <1>8. \A stated \in {m, r, src.expected} : Agree(stated, s.facts) /\ Agree(stated, s.claims)
    BY <1>2, <1>3, <1>4, <1>6 DEF Agree
  <1>9. Evidence(src, s)
    BY <1>6, <1>8 DEF Evidence, m, r
  <1> QED
    BY <1>2, <1>5, <1>7, <1>9 DEF SoundSession

\* What is read back from an export is what the log in it gives anew.
LEMMA DocumentIsSound ==
    ASSUME NEW src, SourceShape(src), src.extension = "json", src.manifest = None,
           src.result = None, LoadExported(src).failed = "no"
    PROVE  /\ SoundSession(src, LoadExported(src).session)
           /\ LoadExported(src) = Loaded(LoadExported(src).session)
  <1> DEFINE d == src.document
             s == Projection(d.events, d.kind, d.claims)
  <1>0. /\ LoadExported(src) = ImportSession(d) /\ ImportSession(d).failed = "no"
        /\ "run" \in DOMAIN src.expected => ImportSession(d).session.facts.run = src.expected.run
    BY DEF LoadExported, Failure
  <1>1. /\ ValidEvents(d.events) /\ (d.kind = "direct" => DOMAIN d.claims = {})
        /\ ImportSession(d) = ProjectSession(d.events, d.kind, d.claims)
        /\ ProjectSession(d.events, d.kind, d.claims).failed = "no"
        /\ ProjectSession(d.events, d.kind, d.claims).session = d
    BY <1>0 DEF ImportSession, Failure, ExportedIdentity
  <1>2. ProjectSession(d.events, d.kind, d.claims) = Loaded(s) /\ s = d
    BY <1>1 DEF ProjectSession, Failure, Projection, Loaded
  <1>3. LogShape(d.events) /\ DOMAIN src.expected = {"run"}
    BY DEF SourceShape
  <1>4. /\ InOrder(s) /\ s.facts = Says(d.events) /\ Agree(s.claims, s.facts) /\ s.kind = d.kind
    BY <1>1, <1>3, ProjectionKeeps
  <1>5. d.kind = "direct" => s.claims = <<>>
    <2>1. d.kind = "direct" => s.claims = Restrict(d.claims, {})
      BY <1>1 DEF Projection
    <2> QED
      BY <2>1 DEF Restrict
  <1>6. Loaded(s).session = s
    BY DEF Loaded
  <1> HIDE DEF s
  <1>7. src.expected.run = s.facts.run
    BY <1>0, <1>1, <1>2, <1>3, <1>6
  <1>8. Agree(src.expected, s.facts)
    BY <1>3, <1>7 DEF Agree
  <1>9. Evidence(src, s)
    BY <1>4, <1>5, <1>8 DEF Evidence
  <1> QED
    BY <1>0, <1>1, <1>2, <1>6, <1>9 DEF SoundSession

\* Whatever loads is sound (loadReplaySession).
LEMMA LoadIsSound ==
    ASSUME NEW src \in Sources, LoadReplaySession(src).failed = "no"
    PROVE  /\ SoundSession(src, LoadReplaySession(src).session)
           /\ LoadReplaySession(src) = Loaded(LoadReplaySession(src).session)
  <1>1. SourceShape(src)
    BY SourcesAreShaped
  <1>2. CASE src.extension = "json"
    <2>1. /\ src.manifest = None /\ src.result = None
          /\ LoadReplaySession(src) = LoadExported(src)
      BY <1>2 DEF LoadReplaySession, Failure
    <2> QED
      BY <1>1, <1>2, <2>1, DocumentIsSound
  <1>3. CASE src.extension = "jsonl" /\ src.manifest = None /\ src.result = None
    <2>1. LoadReplaySession(src) = LoadDirect(src)
      BY <1>3 DEF LoadReplaySession
    <2> QED
      BY <1>1, <1>3, <2>1, DirectIsSound
  <1>4. CASE src.extension = "jsonl" /\ ~(src.manifest = None /\ src.result = None)
    <2>1. LoadReplaySession(src) = LoadCanonical(src)
      BY <1>4 DEF LoadReplaySession
    <2> QED
      BY <1>1, <1>4, <2>1, CanonicalIsSound
  <1> QED
    BY <1>2, <1>3, <1>4 DEF LoadReplaySession, Failure
-----------------------------------------------------------------------------
\* The files: the input is never written, and the target name is on the new file
\* only when that holds the whole session.
DiskOK(d) ==
  /\ d = [entry |-> d.entry, content |-> d.content]
  /\ d.entry \in [Names -> 0 .. 3]
  /\ d.content \in [1 .. 3 -> {"input", "old", "partial", "session"}]
  /\ d.content[1] = "input" /\ d.entry["events"] = 1
  /\ d.entry["out"] = 3 => d.content[3] = "session"

\* The player: on a frame, its timer armed while it plays and gone when it closes.
PlayerOK(p) ==
  /\ p \in [index : Nat, playing : BOOLEAN, timer : BOOLEAN, open : BOOLEAN, frames : Nat \ {0}]
  /\ p.index < p.frames
  /\ p.open /\ p.playing => p.timer
  /\ p.timer => p.open

\* The phases in which a session is loaded.
Showing == {"export", "written", "published", "verified", "imported"}

\* The invariant: the source is one a command may find until it is loaded, what is
\* loaded is sound, and the new file is not published before it is written.
ReplayInv ==
  /\ replay = [phase |-> replay.phase, source |-> replay.source, outcome |-> replay.outcome,
               disk |-> replay.disk, again |-> replay.again, player |-> replay.player]
  /\ DiskOK(replay.disk)
  /\ replay.phase \in {"load", "export"} => replay.disk.entry["out"] # 3
  /\ replay.phase = "load" => replay.source \in Sources
  /\ replay.phase \in Showing =>
       /\ replay.outcome = Loaded(replay.outcome.session)
       /\ SoundSession(replay.source, replay.outcome.session)
  /\ replay.phase = "imported" => replay.again = replay.outcome
  /\ replay.phase = "player" => PlayerOK(replay.player)

\* The invariant says what is asked.
LEMMA ReplayInvShows == ReplayInv => ReplayIsEvidence /\ ExportIsWhole /\ PlayerStaysInSession
  <1> SUFFICES ASSUME ReplayInv PROVE ReplayIsEvidence /\ ExportIsWhole /\ PlayerStaysInSession
    OBVIOUS
  <1>1. ReplayIsEvidence
    BY DEF ReplayInv, SoundSession, Evidence, InOrder, ReplayIsEvidence, Showing
  <1>2. ExportIsWhole
    BY DEF ReplayInv, ExportIsWhole, DiskOK, Showing
  <1>3. PlayerStaysInSession
    BY DEF ReplayInv, PlayerStaysInSession, PlayerOK
  <1> QED
    BY <1>1, <1>2, <1>3

\* The command starts with a source, the player on a frame.
LEMMA ReplayStarts == ReplayInit => ReplayInv
  <1> SUFFICES ASSUME ReplayInit PROVE ReplayInv
    OBVIOUS
  <1>1. SoundDisk = [entry |-> SoundDisk.entry, content |-> SoundDisk.content]
        /\ SoundDisk.entry \in [Names -> 0 .. 3] /\ SoundDisk.entry["events"] = 1
        /\ SoundDisk.entry["out"] = 2
        /\ SoundDisk.content \in [1 .. 3 -> {"input", "old", "partial", "session"}]
        /\ SoundDisk.content[1] = "input"
    BY DEF SoundDisk, Names
  <1>2. CASE \E source \in Sources, entry \in {SoundDisk.entry, [SoundDisk.entry EXCEPT !["out"] = 0],
                                              [SoundDisk.entry EXCEPT !["out"] = 1]} :
               replay = [phase |-> "load", source |-> source, outcome |-> None,
                         disk |-> [SoundDisk EXCEPT !.entry = entry], again |-> None,
                         player |-> Player]
    <2>1. PICK source \in Sources, entry \in {SoundDisk.entry, [SoundDisk.entry EXCEPT !["out"] = 0],
                                              [SoundDisk.entry EXCEPT !["out"] = 1]} :
               replay = [phase |-> "load", source |-> source, outcome |-> None,
                         disk |-> [SoundDisk EXCEPT !.entry = entry], again |-> None,
                         player |-> Player]
      BY <1>2
    <2>2. entry \in [Names -> 0 .. 3] /\ entry["events"] = 1 /\ entry["out"] # 3
      BY <1>1 DEF Names
    <2>3. [SoundDisk EXCEPT !.entry = entry] = [entry |-> entry, content |-> SoundDisk.content]
      BY <1>1
    <2> QED
      BY <1>1, <2>1, <2>2, <2>3 DEF ReplayInv, DiskOK, Showing
  <1>3. CASE \E n \in Frames : \E playing \in BOOLEAN, first \in {-1, 0, n + 1} :
               replay = [phase |-> "player", source |-> None, outcome |-> None,
                 disk |-> SoundDisk, again |-> None,
                 player |-> [index |-> IF first < 0 THEN 0 ELSE IF first > n - 1 THEN n - 1 ELSE first,
                             playing |-> playing, timer |-> playing, open |-> TRUE, frames |-> n]]
    <2>0. PICK n \in Frames, playing \in BOOLEAN : \E first \in {-1, 0, n + 1} :
               replay = [phase |-> "player", source |-> None, outcome |-> None,
                 disk |-> SoundDisk, again |-> None,
                 player |-> [index |-> IF first < 0 THEN 0 ELSE IF first > n - 1 THEN n - 1 ELSE first,
                             playing |-> playing, timer |-> playing, open |-> TRUE, frames |-> n]]
      BY <1>3
    <2> PICK first \in {-1, 0, n + 1} :
               replay = [phase |-> "player", source |-> None, outcome |-> None,
                 disk |-> SoundDisk, again |-> None,
                 player |-> [index |-> IF first < 0 THEN 0 ELSE IF first > n - 1 THEN n - 1 ELSE first,
                             playing |-> playing, timer |-> playing, open |-> TRUE, frames |-> n]]
      BY <2>0
    <2> DEFINE index == IF first < 0 THEN 0 ELSE IF first > n - 1 THEN n - 1 ELSE first
               p == [index |-> index, playing |-> playing, timer |-> playing, open |-> TRUE,
                     frames |-> n]
    <2>1. replay = [phase |-> "player", source |-> None, outcome |-> None,
                    disk |-> SoundDisk, again |-> None, player |-> p]
      OBVIOUS
    <2>2. PlayerOK(p)
      <3>1. n \in Nat \ {0} /\ index \in Nat /\ index < n
        BY ReplayAssumption
      <3> HIDE DEF index
      <3> QED
        BY <3>1 DEF PlayerOK
    <2>4. replay.phase = "player" /\ replay.disk = SoundDisk /\ replay.player = p
      BY <2>1
    <2> HIDE DEF p
    <2>3. DiskOK(SoundDisk)
      BY <1>1 DEF DiskOK
    <2> QED
      BY <2>1, <2>2, <2>3, <2>4 DEF ReplayInv, Showing
  <1> QED
    BY <1>2, <1>3 DEF ReplayInit

\* The player moves within its session (setFrame, nextFrame).
LEMMA PlayerMoves ==
    ASSUME NEW p, PlayerOK(p)
    PROVE  /\ \A i \in Int : PlayerOK(Moved(p, i))
           /\ PlayerOK(NextFrame(p))
  <1>1. \A i \in Int : PlayerOK(Moved(p, i))
    BY DEF PlayerOK, Moved
  <1>2. PlayerOK([p EXCEPT !.playing = FALSE])
    BY DEF PlayerOK
  <1>3. p.index + 1 \in Int
    BY DEF PlayerOK
  <1> QED
    BY <1>1, <1>2, <1>3 DEF NextFrame

\* What a step of the command has to keep.
LEMMA ReplayStep ==
    ASSUME NEW phase, NEW source, NEW outcome, NEW disk, NEW again, NEW player,
           replay' = [phase |-> phase, source |-> source, outcome |-> outcome, disk |-> disk,
                      again |-> again, player |-> player],
           DiskOK(disk),
           phase \in {"load", "export"} => disk.entry["out"] # 3,
           phase # "load",
           phase \in Showing => /\ outcome = Loaded(outcome.session)
                                /\ SoundSession(source, outcome.session),
           phase = "imported" => again = outcome,
           phase = "player" => PlayerOK(player)
    PROVE  ReplayInv'
  BY DEF ReplayInv

\* Loading shows what is sound, the new file is published whole, and what is read
\* back is what was exported.
LEMMA ReplayKeeps == ReplayInv /\ ReplayNext => ReplayInv'
  <1> SUFFICES ASSUME ReplayInv, ReplayNext PROVE ReplayInv'
    OBVIOUS
  <1> DEFINE e == replay.disk.entry
             c == replay.disk.content
             Disk(entry, content) == [entry |-> entry, content |-> content]
  <1>r. replay = [phase |-> replay.phase, source |-> replay.source, outcome |-> replay.outcome,
                  disk |-> replay.disk, again |-> replay.again, player |-> replay.player]
    BY DEF ReplayInv
  <1>s. replay.phase \in Showing => /\ replay.outcome = Loaded(replay.outcome.session)
                                    /\ SoundSession(replay.source, replay.outcome.session)
    BY DEF ReplayInv
  <1>d. /\ replay.disk = Disk(e, c)
        /\ e \in [Names -> 0 .. 3] /\ e["events"] = 1 /\ c[1] = "input"
        /\ c \in [1 .. 3 -> {"input", "old", "partial", "session"}]
        /\ DiskOK(replay.disk)
    BY DEF ReplayInv, DiskOK
  <1>e. \A x : [replay.disk EXCEPT !.entry = x] = Disk(x, c)
    BY <1>d
  <1>f. e = replay.disk.entry /\ c = replay.disk.content
    OBVIOUS
  <1> HIDE DEF e, c
  \* Only the phase changes.
  <1>1. ASSUME NEW phase, phase \notin {"load", "player", "imported", "export"},
               phase \in Showing => replay.phase \in Showing,
               replay' = [replay EXCEPT !.phase = phase]
        PROVE  ReplayInv'
    <2>1. replay' = [phase |-> phase, source |-> replay.source, outcome |-> replay.outcome,
                     disk |-> replay.disk, again |-> replay.again, player |-> replay.player]
      BY <1>1, <1>r
    <2> QED
      BY <1>1, <1>s, <1>d, <2>1, ReplayStep
  \* The files change.
  <1>2. ASSUME NEW phase, NEW entry, NEW content, phase \notin {"load", "player", "imported"},
               phase \in Showing => replay.phase \in Showing,
               replay' = [replay EXCEPT !.disk = Disk(entry, content), !.phase = phase],
               DiskOK(Disk(entry, content)),
               phase = "export" => entry["out"] # 3
        PROVE  ReplayInv'
    <2>1. replay' = [phase |-> phase, source |-> replay.source, outcome |-> replay.outcome,
                     disk |-> Disk(entry, content), again |-> replay.again,
                     player |-> replay.player]
      BY <1>2, <1>r
    <2> QED
      BY <1>2, <1>s, <2>1, ReplayStep
  <1>3. ASSUME NEW player, replay.phase = "player", PlayerOK(player),
               replay' = [replay EXCEPT !.player = player]
        PROVE  ReplayInv'
    <2>1. replay' = [phase |-> replay.phase, source |-> replay.source,
                     outcome |-> replay.outcome, disk |-> replay.disk, again |-> replay.again,
                     player |-> player]
      BY <1>3, <1>r
    <2> QED
      BY <1>3, <1>d, <2>1, ReplayStep DEF Showing
  <1>4. CASE RunReplayCommand
    <2> DEFINE outcome == IF Distinct(replay.disk) THEN LoadReplaySession(replay.source)
                          ELSE Failure("unavailable")
               phase == IF outcome.failed = "no" THEN "export" ELSE "failed"
    <2>1. replay' = [phase |-> phase, source |-> replay.source, outcome |-> outcome,
                     disk |-> replay.disk, again |-> replay.again, player |-> replay.player]
      BY <1>4, <1>r DEF RunReplayCommand
    <2>2. phase = "export" => /\ outcome = Loaded(outcome.session)
                              /\ SoundSession(replay.source, outcome.session)
      BY <1>4, LoadIsSound DEF RunReplayCommand, ReplayInv, Failure
    <2>3. replay.disk.entry["out"] # 3
      BY <1>4 DEF RunReplayCommand, ReplayInv
    <2>4. phase \in {"export", "failed"}
      OBVIOUS
    <2> HIDE DEF outcome, phase
    <2> QED
      BY <2>1, <2>2, <2>3, <2>4, <1>d, ReplayStep DEF Showing
  <1>5. CASE WriteTemporary
    <2>1. CASE replay' = [replay EXCEPT !.phase = "failed"]
      BY <1>1, <2>1 DEF Showing
    <2>2. ASSUME NEW content \in {"partial", "session"},
                 replay' = [replay EXCEPT
                                !.disk = [entry |-> [@.entry EXCEPT !["tmp"] = 3],
                                          content |-> [@.content EXCEPT ![3] = content]],
                                !.phase = IF content = "partial" THEN "cleanup" ELSE "written"]
          PROVE  ReplayInv'
      <3> DEFINE entry == [e EXCEPT !["tmp"] = 3]
                 text == [c EXCEPT ![3] = content]
                 phase == IF content = "partial" THEN "cleanup" ELSE "written"
      <3>1. replay' = [replay EXCEPT !.disk = Disk(entry, text), !.phase = phase]
        BY <2>2, <1>e, <1>f
      <3>2. e["out"] # 3
        BY <1>5, <1>f DEF WriteTemporary, ReplayInv
      <3>3. DiskOK(Disk(entry, text))
        BY <1>d, <3>2 DEF DiskOK, Names
      <3>4. phase \in {"cleanup", "written"} /\ replay.phase = "export"
        BY <1>5 DEF WriteTemporary
      <3> HIDE DEF entry, text, phase, Disk
      <3> QED
        BY <1>2, <3>1, <3>3, <3>4 DEF Showing
    <2> QED
      BY <1>5, <2>1, <2>2 DEF WriteTemporary
  <1>6. CASE PublishExport
    <2>1. CASE replay' = [replay EXCEPT !.phase = "cleanup"]
      BY <1>1, <2>1 DEF Showing
    <2>2. CASE /\ replay.disk.content[3] = "session"
               /\ replay' = [replay EXCEPT !.disk.entry = [@ EXCEPT !["out"] = 3, !["tmp"] = 0],
                                           !.phase = "published"]
      <3> DEFINE entry == [e EXCEPT !["out"] = 3, !["tmp"] = 0]
                 phase == "published"
      <3>1. replay' = [replay EXCEPT !.disk = Disk(entry, c), !.phase = phase]
        BY <2>2, <1>e, <1>f
      <3>2. /\ entry \in [Names -> 0 .. 3] /\ entry["events"] = 1
        BY <1>d DEF Names
      <3>3. DiskOK(Disk(entry, c))
        BY <1>d, <1>f, <2>2, <3>2 DEF DiskOK
      <3>4. replay.phase \in Showing
        BY <1>6 DEF PublishExport, Showing
      <3>5. phase \notin {"load", "player", "imported", "export"}
        OBVIOUS
      <3> HIDE DEF entry, phase, Disk
      <3> QED
        BY <1>2, <3>1, <3>3, <3>4, <3>5
    <2> QED
      BY <1>6, <2>1, <2>2 DEF PublishExport
  <1>7. CASE VerifyPublished
    BY <1>1, <1>7 DEF VerifyPublished, Showing
  <1>8. CASE RemoveTemporary
    <2> DEFINE entry == [e EXCEPT !["tmp"] = 0]
               phase == "failed"
    <2>1. replay' = [replay EXCEPT !.disk = Disk(entry, c), !.phase = phase]
      BY <1>8, <1>e, <1>f DEF RemoveTemporary
    <2>2. entry \in [Names -> 0 .. 3] /\ entry["events"] = 1 /\ entry["out"] = e["out"]
      BY <1>d DEF Names
    <2>3. DiskOK(Disk(entry, c))
      BY <1>d, <2>2 DEF DiskOK
    <2>4. phase \notin {"load", "player", "imported"} \cup Showing
      BY DEF Showing
    <2> HIDE DEF entry, phase, Disk
    <2> QED
      BY <1>2, <2>1, <2>3, <2>4 DEF Showing
  <1>9. CASE OtherProcess
    <2>1. PICK file \in {0, 1} : replay' = [replay EXCEPT !.disk.entry["out"] = file]
      BY <1>9 DEF OtherProcess
    <2> DEFINE entry == [e EXCEPT !["out"] = file]
    <2>2. replay' = [replay EXCEPT !.disk = Disk(entry, c), !.phase = replay.phase]
      BY <2>1, <1>e, <1>f, <1>r
    <2>3. entry \in [Names -> 0 .. 3] /\ entry["events"] = 1 /\ entry["out"] # 3
      BY <1>d DEF Names
    <2>4. DiskOK(Disk(entry, c))
      BY <1>d, <2>3 DEF DiskOK
    <2>5. replay.phase \in {"export", "written", "published"}
      BY <1>9 DEF OtherProcess
    <2> HIDE DEF entry, Disk
    <2> QED
      BY <1>2, <2>2, <2>3, <2>4, <2>5 DEF Showing
  <1>10. CASE CommandDies
    BY <1>1, <1>10 DEF CommandDies, Showing
  <1>11. CASE ImportExport
    <2>1. replay' = [phase |-> "imported", source |-> replay.source,
                     outcome |-> replay.outcome, disk |-> replay.disk,
                     again |-> ImportSession(replay.outcome.session), player |-> replay.player]
      BY <1>11, <1>r DEF ImportExport
    <2>2. /\ replay.outcome = Loaded(replay.outcome.session)
          /\ SoundSession(replay.source, replay.outcome.session)
      BY <1>11, <1>s DEF ImportExport, Showing
    <2>3. ImportSession(replay.outcome.session) = replay.outcome
      BY <2>2 DEF SoundSession
    <2> QED
      BY <2>1, <2>2, <2>3, <1>d, ReplayStep
  <1>12. CASE PressKey
    <2> DEFINE p == replay.player
    <2>1. replay.phase = "player" /\ p.open /\ PlayerOK(p)
      BY <1>12 DEF PressKey, ReplayInv
    <2>2. PICK key \in {"space", "right", "left", "home", "end", "quit"} :
            replay' = [replay EXCEPT !.player =
              CASE key = "space" -> [p EXCEPT !.playing = ~@, !.timer = ~p.playing]
                [] key = "right" -> NextFrame(p)
                [] key = "left"  -> IF p.index > 0 THEN Moved(p, p.index - 1) ELSE p
                [] key = "home"  -> Moved(p, 0)
                [] key = "end"   -> Moved(p, p.frames - 1)
                [] key = "quit"  -> [p EXCEPT !.open = FALSE, !.timer = FALSE]]
      BY <1>12 DEF PressKey
    <2>3. /\ PlayerOK([p EXCEPT !.playing = ~@, !.timer = ~p.playing])
          /\ PlayerOK([p EXCEPT !.open = FALSE, !.timer = FALSE])
      BY <2>1 DEF PlayerOK
    <2>4. p.index - 1 \in Int /\ p.frames - 1 \in Int /\ 0 \in Int
      BY <2>1 DEF PlayerOK
    <2>5. /\ PlayerOK(NextFrame(p)) /\ PlayerOK(Moved(p, 0))
          /\ PlayerOK(Moved(p, p.frames - 1)) /\ PlayerOK(Moved(p, p.index - 1))
      BY <2>1, <2>4, PlayerMoves
    <2> HIDE DEF p
    <2>6. \E q : PlayerOK(q) /\ replay' = [replay EXCEPT !.player = q]
      BY <2>1, <2>2, <2>3, <2>5
    <2> QED
      BY <1>3, <2>1, <2>6
  <1>13. CASE PlaybackTick
    <2>1. replay.phase = "player" /\ replay' = [replay EXCEPT !.player = NextFrame(replay.player)]
      BY <1>13 DEF PlaybackTick
    <2>2. PlayerOK(NextFrame(replay.player))
      BY <2>1, PlayerMoves DEF ReplayInv
    <2> QED
      BY <1>3, <2>1, <2>2
  <1> QED
    BY <1>4, <1>5, <1>6, <1>7, <1>8, <1>9, <1>10, <1>11, <1>12, <1>13 DEF ReplayNext

\* A replay shows only what events, manifest and result agree on, an export is
\* the whole session or nothing, and the player stays within it
\* (loadReplaySession, writeReplayExportAtomic, TuiReplayPlayer).
THEOREM ReplayStaysTrue == Spec => []ReplayIsTrue
  <1> DEFINE Inv == replay # Off => ReplayInv
  <1>1. Init => Inv
    BY ReplayStarts DEF Init
  <1>2. Inv /\ [Next]_vars => Inv'
    <2>1. ASSUME Inv, UNCHANGED replay PROVE Inv'
      BY <2>1 DEF ReplayInv
    <2>2. ASSUME Inv, replay # Off /\ ReplayNext PROVE Inv'
      BY <2>2, ReplayKeeps
    <2> HIDE DEF Inv
    <2> QED
      BY <2>1, <2>2 DEF Next, vars
  <1>3. Inv => ReplayIsTrue
    BY ReplayInvShows DEF ReplayIsTrue
  <1> QED
    BY <1>1, <1>2, <1>3, PTL DEF Spec
-----------------------------------------------------------------------------
(* The profiler and the diagnostics *)

Reading == [counter : 0..MaxCount, gauge : Gauges]

Sampled == [counter : 0..MaxCount, gauge : Gauges, load : 0..MaxCount]

ProfileFields ==
  {"mode", "running", "timer", "counter", "lastCpu", "pending", "polls", "samples", "late", "restarted"}

\* The counters of readings stay within what was counted, only a running
\* profiler has a timer, and a stopped one counts the answers it is owed.
ProfileOK ==
  /\ DOMAIN probe = ProfileFields /\ probe.mode = "profile"
  /\ probe.running \in BOOLEAN /\ probe.timer \in BOOLEAN
  /\ probe.counter \in 0..MaxCount /\ probe.lastCpu \in 0..MaxCount
  /\ probe.pending \in Seq(Reading) /\ probe.samples \in Seq(Sampled)
  /\ probe.late \in Int
  /\ probe.timer => probe.running
  /\ ~probe.running => probe.late = Len(probe.pending)

\* A record is what was asked, and names the error as it is classified.
DiagnosisOK ==
  /\ DOMAIN probe = {"mode", "error", "parts", "file", "record"} /\ probe.mode = "diagnose"
  /\ probe.error \in Errors
  /\ DOMAIN probe.parts = {"inspect", "dmesg", "logs"}
  /\ probe.record # None =>
       /\ probe.record = [code |-> ClassifyError(probe.error),
                          category |-> CategoryOf[ClassifyError(probe.error)],
                          parts |-> probe.parts]
       /\ \A p \in DOMAIN probe.parts : probe.parts[p] # "asked"

ProbeInv == ProfileOK \/ DiagnosisOK

\* The largest and the least of the numbers that a finite sequence gives.
LEMMA ExtremesOf ==
    ASSUME NEW n \in Nat \ {0}, NEW f, \A i \in 1..n : f[i] \in Nat
    PROVE  LET T == {f[i] : i \in 1..n}
           IN /\ \E k \in 1..n : Max(T) = f[k]
              /\ \E k \in 1..n : Min(T) = f[k]
              /\ \A k \in 1..n : Min(T) <= f[k] /\ f[k] <= Max(T)
  <1> DEFINE T == {f[i] : i \in 1..n}
  <1>1. T \subseteq Nat /\ T # {} /\ f[1] \in T
    BY DEF T
  <1>2. PICK x \in T : \A y \in T : x <= y
    BY <1>1, LeastOf
  <1>3. \E z \in T : \A y \in T : z >= y
    <2> DEFINE Has == {m \in Nat : m <= n => (m = 0 \/ \E z \in {f[i] : i \in 1..m} : \A y \in {f[i] : i \in 1..m} : z >= y)}
    <2>1. 0 \in Has
      OBVIOUS
    <2>2. ASSUME NEW m \in Nat, m \in Has PROVE m + 1 \in Has
      <3>1. CASE m + 1 > n
        BY <3>1
      <3>2. CASE m + 1 <= n /\ m = 0
        <4>1. 1..(m + 1) = {1}
          BY <3>2
        <4>2. {f[i] : i \in 1..(m + 1)} = {f[1]} /\ f[1] \in Nat
          BY <3>2, <4>1
        <4> QED
          BY <4>2
      <3>3. CASE m + 1 <= n /\ m # 0
        <4> DEFINE M == {f[i] : i \in 1..m}
                   N == {f[i] : i \in 1..(m + 1)}
        <4>1. PICK z \in M : \A y \in M : z >= y
          BY <2>2, <3>3
        <4>2. N = M \cup {f[m + 1]}
          <5>1. 1..(m + 1) = 1..m \cup {m + 1}
            OBVIOUS
          <5> QED
            BY <5>1
        <4>3. M \subseteq Nat /\ f[m + 1] \in Nat
          BY <3>3
        <4> HIDE DEF M
        <4>4. CASE z >= f[m + 1]
          BY <4>1, <4>2, <4>4
        <4>5. CASE ~(z >= f[m + 1])
          <5>1. z \in Nat /\ \A y \in M : y \in Nat /\ z >= y
            BY <4>1, <4>3
          <5>2. \A y \in M : f[m + 1] >= y
            BY <4>3, <4>5, <5>1
          <5>3. \A y \in M \cup {f[m + 1]} : f[m + 1] >= y
            BY <4>3, <5>2
          <5>4. \A y \in N : f[m + 1] >= y
            BY ONLY <4>2, <5>3
          <5> QED
            BY <4>2, <5>4
        <4> QED
          BY <4>4, <4>5
      <3> QED
        BY <3>1, <3>2, <3>3
    <2> HIDE DEF Has
    <2>3. n \in Has
      BY <2>1, <2>2, AllNat
    <2> QED
      BY <2>3 DEF Has
  <1>4. PICK z \in T : \A y \in T : z >= y
    BY <1>3
  <1>5. Min(T) \in T /\ \A y \in T : Min(T) <= y
    BY <1>2 DEF Min
  <1>6. Max(T) \in T /\ \A y \in T : Max(T) >= y
    BY <1>4 DEF Max
  <1>7. \A k \in 1..n : f[k] \in T
    OBVIOUS
  <1>8. \A y \in T : \E k \in 1..n : y = f[k]
    OBVIOUS
  <1>9. Max(T) \in Nat /\ Min(T) \in Nat
    BY <1>1, <1>5, <1>6
  <1>10. \A k \in 1..n : Max(T) >= f[k] /\ Min(T) <= f[k]
    BY <1>5, <1>6, <1>7
  <1>11. \A k \in 1..n : f[k] <= Max(T)
    BY <1>9, <1>10
  <1> HIDE DEF T
  <1>12. (\E k \in 1..n : Max(T) = f[k]) /\ (\E k \in 1..n : Min(T) = f[k])
    BY <1>5, <1>6, <1>8
  <1> QED
    BY <1>10, <1>11, <1>12 DEF T

\* The summary of samples stays within them.
LEMMA SummaryIs ==
    ASSUME NEW samples \in Seq(Sampled)
    PROVE  LET s == ComputeMetricsSummary(samples)
           IN /\ s.cpuTime <= s.io /\ s.io <= MaxCount
              /\ s.finalGauge <= s.peakGauge
              /\ s.peakLoad <= MaxCount
  <1> DEFINE n == Len(samples)
             s == ComputeMetricsSummary(samples)
             C == [i \in 1..n |-> samples[i].counter]
             G == [i \in 1..n |-> samples[i].gauge]
             L == [i \in 1..n |-> samples[i].load]
  <1>1. n \in Nat /\ DOMAIN samples = 1..n /\ \A i \in 1..n : samples[i] \in Sampled
    BY LenProperties, ElementOfSeq
  <1>2. MaxCount \in Nat
    BY TelemetryAssumption
  <1>3. \A i \in 1..n : C[i] \in 0..MaxCount /\ G[i] \in Nat /\ L[i] \in 0..MaxCount
    BY <1>1, TelemetryAssumption DEF Sampled
  <1>4. CASE samples = <<>>
    BY <1>2, <1>4 DEF ComputeMetricsSummary
  <1>5. CASE samples # <<>>
    <2>1. n \in Nat \ {0}
      BY <1>1, <1>5, EmptySeq
    <2> DEFINE Cs == {samples[i].counter : i \in DOMAIN samples}
               Gs == {samples[i].gauge : i \in DOMAIN samples}
               Ls == {samples[i].load : i \in DOMAIN samples}
    <2>2. Cs = {C[i] : i \in 1..n} /\ Gs = {G[i] : i \in 1..n} /\ Ls = {L[i] : i \in 1..n}
      BY <1>1
    <2>3. \A i \in 1..n : C[i] \in Nat /\ G[i] \in Nat /\ L[i] \in Nat
      BY <1>2, <1>3
    <2>4. C[n] = samples[n].counter /\ C[1] = samples[1].counter /\ G[n] = samples[n].gauge
      BY <2>1
    <2>s. /\ s.cpuTime = IF n = 1 THEN samples[1].counter
                         ELSE IF samples[n].counter - samples[1].counter > 0
                              THEN samples[n].counter - samples[1].counter ELSE 0
          /\ s.io = IF n = 1 THEN samples[1].counter ELSE Max(Cs) - Min(Cs)
          /\ s.peakGauge = Max(Gs) /\ s.finalGauge = samples[n].gauge /\ s.peakLoad = Max(Ls)
      BY <1>5, <2>1 DEF ComputeMetricsSummary
    <2> HIDE DEF C, G, L, Cs, Gs, Ls
    <2>5. /\ \E k \in 1..n : Max(Cs) = C[k]
          /\ \E k \in 1..n : Min(Cs) = C[k]
          /\ \A k \in 1..n : Min(Cs) <= C[k] /\ C[k] <= Max(Cs)
      BY <2>1, <2>2, <2>3, ExtremesOf
    <2>6. \A k \in 1..n : G[k] <= Max(Gs)
      BY <2>1, <2>2, <2>3, ExtremesOf
    <2>7. \E k \in 1..n : Max(Ls) = L[k]
      BY <2>1, <2>2, <2>3, ExtremesOf
    <2>8. n \in 1..n /\ 1 \in 1..n
      BY <2>1
    <2> HIDE DEF s, n
    <2>9. s.finalGauge <= s.peakGauge
      BY <2>4, <2>6, <2>8, <2>s
    <2>10. s.peakLoad <= MaxCount
      BY <1>2, <1>3, <2>7, <2>s
    <2>11. Max(Cs) \in 0..MaxCount /\ Min(Cs) \in 0..MaxCount
      BY <1>3, <2>5
    <2>12. /\ C[1] \in 0..MaxCount /\ C[n] \in 0..MaxCount /\ Min(Cs) <= C[1] /\ C[n] <= Max(Cs)
           /\ Min(Cs) <= C[n] /\ C[1] <= Max(Cs)
      BY <1>3, <2>5, <2>8
    <2>13. s.cpuTime <= s.io /\ s.io <= MaxCount
      BY <1>2, <2>4, <2>11, <2>12, <2>s
    <2> QED
      BY <2>9, <2>10, <2>13 DEF s
  <1> QED
    BY <1>4, <1>5

\* What is left of a sequence when one member is taken out.
LEMMA WithoutOne ==
    ASSUME NEW S, NEW s \in Seq(S), NEW i \in DOMAIN s
    PROVE  /\ SubSeq(s, 1, i - 1) \o SubSeq(s, i + 1, Len(s)) \in Seq(S)
           /\ Len(SubSeq(s, 1, i - 1) \o SubSeq(s, i + 1, Len(s))) = Len(s) - 1
  <1>1. Len(s) \in Nat /\ i \in Int /\ 1 <= i /\ i <= Len(s) /\ \A j \in 1..Len(s) : s[j] \in S
    BY LenProperties, ElementOfSeq
  <1> DEFINE a == SubSeq(s, 1, i - 1)
             b == SubSeq(s, i + 1, Len(s))
  <1>2. a \in Seq(S) /\ Len(a) = i - 1
    <2>1. \A j \in 1..(i - 1) : s[j] \in S
      BY <1>1
    <2>2. i - 1 \in Int /\ 1 \in Int
      BY <1>1
    <2>3. a \in Seq(S) /\ Len(a) = IF 1 <= i - 1 THEN i - 1 - 1 + 1 ELSE 0
      BY <2>1, <2>2, SubSeqProperties
    <2> HIDE DEF a
    <2> QED
      BY <1>1, <2>3
  <1>3. b \in Seq(S) /\ Len(b) = Len(s) - i
    <2>1. \A j \in (i + 1)..Len(s) : s[j] \in S
      BY <1>1
    <2>2. i + 1 \in Int /\ Len(s) \in Int
      BY <1>1
    <2>3. b \in Seq(S) /\ Len(b) = IF i + 1 <= Len(s) THEN Len(s) - (i + 1) + 1 ELSE 0
      BY <2>1, <2>2, SubSeqProperties
    <2> HIDE DEF b
    <2> QED
      BY <1>1, <2>3
  <1> HIDE DEF a, b
  <1>4. a \o b \in Seq(S) /\ Len(a \o b) = Len(a) + Len(b)
    BY <1>2, <1>3, ConcatProperties
  <1>5. Len(a \o b) = Len(s) - 1
    BY <1>1, <1>2, <1>3, <1>4
  <1> QED
    BY <1>4, <1>5 DEF a, b

\* An error that is not known and is called a timeout names neither a memory
\* kill nor a daemon that is gone: those patterns are tried first.
LEMMA ClassifiedIs ==
    ASSUME NEW error \in Errors
    PROVE  /\ error.code # None => ClassifyError(error) = error.code
           /\ error.oom => ClassifyError(error) = "ERR_OOM_KILLED"
           /\ CategoryOf[ClassifyError(error)] = "EXECUTION_TIMEOUT" /\ error.code = None =>
                error.matches \cap {"ERR_OOM_KILLED", "ERR_DOCKER_DAEMON_UNAVAILABLE"} = {}
  <1> DEFINE Tried == {Patterns[i] : i \in DOMAIN Patterns}
             matched == {i \in DOMAIN Patterns : Patterns[i] \in error.matches}
  <1>1. error.code # None => ClassifyError(error) = error.code
    BY DEF ClassifyError
  <1>2. /\ error.matches \subseteq Tried
        /\ error.oom => error.code = None
    <2>1. CASE error \in {Known(code) : code \in DOMAIN CategoryOf}
      BY <2>1 DEF Known
    <2>2. CASE error \notin {Known(code) : code \in DOMAIN CategoryOf}
      <3>1. PICK m \in {{}} \cup kSubset(1, Tried) \cup kSubset(2, Tried), oom \in BOOLEAN :
              error = Foreign(m, oom)
        BY <2>2 DEF Errors
      <3>2. m \subseteq Tried
        BY <3>1 DEF kSubset
      <3> HIDE DEF Tried
      <3>3. error.code = None /\ error.matches = m
        BY <3>1 DEF Foreign
      <3> QED
        BY <3>2, <3>3
    <2> QED
      BY <2>1, <2>2
  <1>3. error.oom => ClassifyError(error) = "ERR_OOM_KILLED"
    BY <1>2 DEF ClassifyError
  <1>4. /\ CategoryOf["ERR_OOM_KILLED"] = "INFRASTRUCTURE_FAULT"
        /\ CategoryOf["ERR_DOCKER_DAEMON_UNAVAILABLE"] = "INFRASTRUCTURE_FAULT"
    BY DEF CategoryOf
  <1>5. /\ DOMAIN Patterns = 1..11 /\ Patterns[1] = "ERR_OOM_KILLED"
        /\ Patterns[2] = "ERR_DOCKER_DAEMON_UNAVAILABLE"
    BY DEF Patterns
  <1>6. ASSUME CategoryOf[ClassifyError(error)] = "EXECUTION_TIMEOUT", error.code = None,
               "ERR_DOCKER_DAEMON_UNAVAILABLE" \in error.matches
        PROVE  FALSE
    <2>1. 2 \in matched /\ matched \subseteq 1..11
      BY <1>5, <1>6
    <2>2. matched \subseteq Nat /\ matched # {}
      BY <2>1
    <2> HIDE DEF matched
    <2>3. PICK x \in matched : \A y \in matched : x <= y
      BY <2>2, LeastOf
    <2>4. Min(matched) \in matched /\ \A y \in matched : Min(matched) <= y
      BY <2>3 DEF Min
    <2>5. Min(matched) \in {1, 2}
      <3>1. Min(matched) \in 1..11 /\ Min(matched) <= 2
        BY <2>1, <2>4
      <3> QED
        BY <3>1
    <2>6. ClassifyError(error) \in {"ERR_OOM_KILLED", Patterns[Min(matched)]}
      BY <1>6 DEF ClassifyError, matched
    <2>7. CategoryOf[ClassifyError(error)] = "INFRASTRUCTURE_FAULT"
      BY <1>4, <1>5, <2>5, <2>6
    <2> QED
      BY <1>6, <2>7
  <1>7. ASSUME CategoryOf[ClassifyError(error)] = "EXECUTION_TIMEOUT", error.code = None,
               "ERR_OOM_KILLED" \in error.matches
        PROVE  FALSE
    <2>1. ClassifyError(error) = "ERR_OOM_KILLED"
      BY <1>7 DEF ClassifyError
    <2> QED
      BY <1>4, <1>7, <2>1
  <1> QED
    BY <1>1, <1>3, <1>6, <1>7

\* What the invariant of the probe says of what it found.
LEMMA ProbeInvShows == ProbeInv => SummaryIsBounded /\ DiagnosticsKeepError
  <1>1. ASSUME ProfileOK PROVE SummaryIsBounded /\ DiagnosticsKeepError
    <2>1. probe.samples \in Seq(Sampled) /\ (~probe.running => probe.late = Len(probe.pending))
          /\ probe.mode = "profile"
      BY <1>1 DEF ProfileOK
    <2>2. LET s == ComputeMetricsSummary(probe.samples)
          IN /\ s.cpuTime <= s.io /\ s.io <= MaxCount
             /\ s.finalGauge <= s.peakGauge
             /\ s.peakLoad <= MaxCount
      BY <2>1, SummaryIs
    <2>3. SummaryIsBounded
      BY <2>1, <2>2 DEF SummaryIsBounded
    <2> QED
      BY <2>1, <2>3 DEF DiagnosticsKeepError, Profiling
  <1>2. ASSUME DiagnosisOK PROVE SummaryIsBounded /\ DiagnosticsKeepError
    <2>1. probe.mode = "diagnose" /\ probe.error \in Errors
      BY <1>2 DEF DiagnosisOK
    <2>2. SummaryIsBounded
      BY <2>1 DEF SummaryIsBounded, Profiling
    <2>3. ASSUME probe.record # None
          PROVE  /\ probe.record.code = ClassifyError(probe.error)
                 /\ probe.record.category = CategoryOf[ClassifyError(probe.error)]
                 /\ probe.record.parts = probe.parts
                 /\ \A p \in DOMAIN probe.parts : probe.parts[p] # "asked"
      BY <1>2, <2>3 DEF DiagnosisOK
    <2>4. DiagnosticsKeepError
      BY <2>1, <2>3, ClassifiedIs DEF DiagnosticsKeepError
    <2> QED
      BY <2>2, <2>4
  <1> QED
    BY <1>1, <1>2 DEF ProbeInv

\* Before anything is asked.
LEMMA ProbeStarts == TelemetryInit => ProbeInv
  <1>1. ASSUME NEW error \in Errors,
               probe = [mode |-> "diagnose", error |-> error,
                        parts |-> [p \in {"inspect", "dmesg", "logs"} |-> "asked"],
                        file |-> "none", record |-> None]
        PROVE  DiagnosisOK
    BY <1>1 DEF DiagnosisOK
  <1>2. ASSUME probe = [mode |-> "profile", running |-> FALSE, timer |-> FALSE, counter |-> 1,
                        lastCpu |-> 0, pending |-> <<>>, polls |-> 0, samples |-> <<>>, late |-> 0,
                        restarted |-> FALSE]
        PROVE  ProfileOK
    <2>1. MaxCount \in Nat \ {0}
      BY TelemetryAssumption
    <2>2. <<>> \in Seq(Reading) /\ <<>> \in Seq(Sampled) /\ Len(<<>>) = 0
      BY EmptySeq
    <2>3. 1 \in 0..MaxCount /\ 0 \in 0..MaxCount
      BY <2>1
    <2> QED
      BY <1>2, <2>2, <2>3 DEF ProfileOK, ProfileFields
  <1> QED
    BY <1>1, <1>2 DEF TelemetryInit, ProbeInv

\* Every poll, answer and question keeps it, in whatever order they come
\* (ResourceProfiler, captureDiagnostics).
LEMMA ProbeKeeps == ProbeInv /\ TelemetryNext => ProbeInv'
  <1> SUFFICES ASSUME ProbeInv, TelemetryNext PROVE ProbeInv'
    OBVIOUS
  <1>1. ASSUME ProfileOK PROVE ProbeInv'
    <2>1. /\ probe.mode = "profile" /\ probe.running \in BOOLEAN /\ probe.timer \in BOOLEAN
          /\ probe.counter \in 0..MaxCount /\ probe.lastCpu \in 0..MaxCount
          /\ probe.pending \in Seq(Reading) /\ probe.samples \in Seq(Sampled) /\ probe.late \in Int
          /\ probe.timer => probe.running
          /\ ~probe.running => probe.late = Len(probe.pending)
      BY <1>1 DEF ProfileOK
    <2>2. MaxCount \in Nat
      BY TelemetryAssumption
    <2>d. DOMAIN probe = ProfileFields
      BY <1>1 DEF ProfileOK
    <2>3. ASSUME NEW running \in BOOLEAN, NEW timer \in BOOLEAN, NEW counter \in 0..MaxCount,
                 NEW lastCpu \in 0..MaxCount, NEW pending \in Seq(Reading),
                 NEW samples \in Seq(Sampled), NEW late \in Int,
                 timer => running, ~running => late = Len(pending),
                 DOMAIN probe' = ProfileFields, probe'.mode = "profile",
                 probe'.running = running, probe'.timer = timer, probe'.counter = counter,
                 probe'.lastCpu = lastCpu, probe'.pending = pending, probe'.samples = samples,
                 probe'.late = late
          PROVE  ProbeInv'
      BY <2>3 DEF ProbeInv, ProfileOK, ProfileFields
    <2>4. ASSUME CounterGrows PROVE ProbeInv'
      <3> DEFINE counter == probe.counter + 1
      <3>1. probe' = [probe EXCEPT !.counter = counter] /\ counter \in 0..MaxCount
        BY <2>1, <2>2, <2>4 DEF CounterGrows
      <3> HIDE DEF counter
      <3>2. /\ DOMAIN probe' = ProfileFields /\ probe'.mode = "profile"
            /\ probe'.running = probe.running /\ probe'.timer = probe.timer
            /\ probe'.counter = counter /\ probe'.lastCpu = probe.lastCpu
            /\ probe'.pending = probe.pending /\ probe'.samples = probe.samples
            /\ probe'.late = probe.late
        BY <2>1, <2>d, <3>1 DEF ProfileFields
      <3> QED
        BY <2>1, <2>3, <3>1, <3>2
    <2>5. ASSUME ContainerRestarts PROVE ProbeInv'
      <3>1. probe' = [probe EXCEPT !.counter = 0, !.restarted = TRUE] /\ 0 \in 0..MaxCount
        BY <2>2, <2>5 DEF ContainerRestarts
      <3>2. /\ DOMAIN probe' = ProfileFields /\ probe'.mode = "profile"
            /\ probe'.running = probe.running /\ probe'.timer = probe.timer
            /\ probe'.counter = 0 /\ probe'.lastCpu = probe.lastCpu
            /\ probe'.pending = probe.pending /\ probe'.samples = probe.samples
            /\ probe'.late = probe.late
        BY <2>1, <2>d, <3>1 DEF ProfileFields
      <3> QED
        BY <2>1, <2>3, <3>1, <3>2
    <2>6. ASSUME NEW gauge \in Gauges
          PROVE  /\ Append(probe.pending, [counter |-> probe.counter, gauge |-> gauge]) \in Seq(Reading)
      <3>1. [counter |-> probe.counter, gauge |-> gauge] \in Reading
        BY <2>1 DEF Reading
      <3> QED
        BY <2>1, <3>1, AppendProperties
    <2>7. ASSUME StartProfiler PROVE ProbeInv'
      <3>1. PICK gauge \in Gauges :
              probe' = Polled([probe EXCEPT !.running = TRUE, !.timer = TRUE], gauge)
        BY <2>7 DEF StartProfiler
      <3> DEFINE reading == [counter |-> probe.counter, gauge |-> gauge]
                 pending == Append(probe.pending, reading)
                 polls == probe.polls + 1
      <3>2. probe' = [probe EXCEPT !.running = TRUE, !.timer = TRUE, !.pending = pending, !.polls = polls]
        BY <2>d, <3>1 DEF Polled, ProfileFields
      <3>3. pending \in Seq(Reading)
        BY <2>6
      <3> HIDE DEF pending, polls
      <3>4. /\ DOMAIN probe' = ProfileFields /\ probe'.mode = "profile"
            /\ probe'.running = TRUE /\ probe'.timer = TRUE
            /\ probe'.counter = probe.counter /\ probe'.lastCpu = probe.lastCpu
            /\ probe'.pending = pending /\ probe'.samples = probe.samples
            /\ probe'.late = probe.late
        BY <2>1, <2>d, <3>2 DEF ProfileFields
      <3> QED
        BY <2>1, <2>3, <3>3, <3>4
    <2>8. ASSUME PollTimer PROVE ProbeInv'
      <3>1. PICK gauge \in Gauges : probe' = Polled(probe, gauge)
        BY <2>8 DEF PollTimer
      <3> DEFINE reading == [counter |-> probe.counter, gauge |-> gauge]
                 pending == Append(probe.pending, reading)
                 polls == probe.polls + 1
      <3>2. probe' = [probe EXCEPT !.pending = pending, !.polls = polls] /\ probe.running
        BY <2>1, <2>8, <3>1 DEF Polled, PollTimer
      <3>3. pending \in Seq(Reading)
        BY <2>6
      <3> HIDE DEF pending, polls
      <3>4. /\ DOMAIN probe' = ProfileFields /\ probe'.mode = "profile"
            /\ probe'.running = probe.running /\ probe'.timer = probe.timer
            /\ probe'.counter = probe.counter /\ probe'.lastCpu = probe.lastCpu
            /\ probe'.pending = pending /\ probe'.samples = probe.samples
            /\ probe'.late = probe.late
        BY <2>1, <2>d, <3>2 DEF ProfileFields
      <3> QED
        <4>1. /\ probe.timer => probe.running
              /\ ~probe.running => probe.late = Len(pending)
          BY <2>1, <3>2
        <4> QED
          BY <2>1, <3>3, <3>4, <4>1 DEF ProbeInv, ProfileOK
    <2>9. ASSUME StopProfiler PROVE ProbeInv'
      <3>1. Len(probe.pending) \in Int
        BY <2>1, LenProperties
      <3>2. probe' = [probe EXCEPT !.running = FALSE, !.timer = FALSE, !.late = Len(probe.pending)]
        BY <2>9 DEF StopProfiler, Stopped
      <3>3. /\ DOMAIN probe' = ProfileFields /\ probe'.mode = "profile"
            /\ probe'.running = FALSE /\ probe'.timer = FALSE
            /\ probe'.counter = probe.counter /\ probe'.lastCpu = probe.lastCpu
            /\ probe'.pending = probe.pending /\ probe'.samples = probe.samples
            /\ probe'.late = Len(probe.pending)
        BY <2>1, <2>d, <3>2 DEF ProfileFields
      <3> QED
        BY <2>1, <2>3, <3>1, <3>3
    <2>10. ASSUME PollAnswers PROVE ProbeInv'
      <3>1. PICK i \in DOMAIN probe.pending, answered \in BOOLEAN :
              LET reading == probe.pending[i]
                  rest == [probe EXCEPT !.pending = SubSeq(@, 1, i - 1) \o SubSeq(@, i + 1, Len(@)),
                                        !.late = IF probe.running THEN @ ELSE @ - 1]
              IN probe' = IF ~answered THEN rest
                          ELSE [rest EXCEPT !.samples = Append(@, Sample(reading, probe.lastCpu)),
                                            !.lastCpu = reading.counter]
        BY <2>10 DEF PollAnswers
      <3> DEFINE reading == probe.pending[i]
                 pending == SubSeq(probe.pending, 1, i - 1)
                              \o SubSeq(probe.pending, i + 1, Len(probe.pending))
                 late == IF probe.running THEN probe.late ELSE probe.late - 1
                 samples == IF answered THEN Append(probe.samples, Sample(reading, probe.lastCpu))
                            ELSE probe.samples
                 lastCpu == IF answered THEN reading.counter ELSE probe.lastCpu
      <3>2. reading \in Reading
        <4>1. DOMAIN probe.pending = 1..Len(probe.pending)
          BY <2>1, LenProperties
        <4> QED
          BY <2>1, <4>1, ElementOfSeq
      <3>3. pending \in Seq(Reading) /\ Len(pending) = Len(probe.pending) - 1
        <4>1. probe.pending \in Seq(Reading) /\ i \in DOMAIN probe.pending
          BY <2>1
        <4> HIDE DEF Reading
        <4> QED
          BY <4>1, WithoutOne
      <3>4. late \in Int /\ (~probe.running => late = Len(pending))
        <4> HIDE DEF pending
        <4> QED
          BY <2>1, <3>3
      <3>5. Sample(reading, probe.lastCpu) \in Sampled
        <4>1. reading.counter \in 0..MaxCount /\ reading.gauge \in Gauges
          BY <3>2 DEF Reading
        <4> HIDE DEF reading
        <4> QED
          BY <2>1, <2>2, <4>1 DEF Sample, Sampled
      <3>6. samples \in Seq(Sampled) /\ lastCpu \in 0..MaxCount
        <4>1. reading.counter \in 0..MaxCount
          BY <3>2 DEF Reading
        <4>2. Append(probe.samples, Sample(reading, probe.lastCpu)) \in Seq(Sampled)
          BY <2>1, <3>5, AppendProperties
        <4> QED
          BY <2>1, <4>1, <4>2
      <3>7. \/ ~answered /\ probe' = [probe EXCEPT !.pending = pending, !.late = late]
            \/ answered /\ probe' = [[probe EXCEPT !.pending = pending, !.late = late]
                                        EXCEPT !.samples = Append(@, Sample(reading, probe.lastCpu)),
                                               !.lastCpu = reading.counter]
        BY <3>1
      <3>8. \/ ~answered /\ samples = probe.samples /\ lastCpu = probe.lastCpu
            \/ answered /\ samples = Append(probe.samples, Sample(reading, probe.lastCpu))
                 /\ lastCpu = reading.counter
        OBVIOUS
      <3> HIDE DEF pending, late, samples, lastCpu, reading
      <3>9. /\ DOMAIN probe' = ProfileFields /\ probe'.mode = "profile"
            /\ probe'.running = probe.running /\ probe'.timer = probe.timer
            /\ probe'.counter = probe.counter /\ probe'.lastCpu = lastCpu
            /\ probe'.pending = pending /\ probe'.samples = samples
            /\ probe'.late = late
        <4>1. CASE ~answered
          BY <2>1, <2>d, <3>7, <3>8, <4>1 DEF ProfileFields
        <4>2. CASE answered
          BY <2>1, <2>d, <3>7, <3>8, <4>2 DEF ProfileFields
        <4> QED
          BY <4>1, <4>2
      <3> QED
        BY <2>1, <2>3, <3>3, <3>4, <3>6, <3>9
    <2>11. ASSUME ClearSamples PROVE ProbeInv'
      <3>1. PICK cleared \in Seq(Sampled) : cleared = <<>>
        BY EmptySeq
      <3>2. probe' = [probe EXCEPT !.samples = cleared, !.lastCpu = 0] /\ 0 \in 0..MaxCount
        BY <2>2, <2>11, <3>1 DEF ClearSamples
      <3>3. /\ DOMAIN probe' = ProfileFields /\ probe'.mode = "profile"
            /\ probe'.running = probe.running /\ probe'.timer = probe.timer
            /\ probe'.counter = probe.counter /\ probe'.lastCpu = 0
            /\ probe'.pending = probe.pending /\ probe'.samples = cleared
            /\ probe'.late = probe.late
        BY <2>1, <2>d, <3>2 DEF ProfileFields
      <3> QED
        BY <2>1, <2>3, <3>2, <3>3
    <2>12. ~AskSource /\ ~WriteDiagnostics
      BY <2>1 DEF AskSource, WriteDiagnostics, Profiling
    <2> QED
      BY <2>4, <2>5, <2>7, <2>8, <2>9, <2>10, <2>11, <2>12 DEF TelemetryNext
  <1>2. ASSUME DiagnosisOK PROVE ProbeInv'
    <2> DEFINE Fields == {"mode", "error", "parts", "file", "record"}
    <2>1. /\ DOMAIN probe = Fields /\ probe.mode = "diagnose" /\ probe.error \in Errors
          /\ DOMAIN probe.parts = {"inspect", "dmesg", "logs"}
      BY <1>2 DEF DiagnosisOK
    <2>2. ASSUME probe.record # None
          PROVE  \A p \in DOMAIN probe.parts : probe.parts[p] # "asked"
      BY <1>2, <2>2 DEF DiagnosisOK
    <2>3. ASSUME AskSource PROVE ProbeInv'
      <3>1. PICK p \in DOMAIN probe.parts, answer \in {"given", "failed", "absent"} :
              probe.parts[p] = "asked" /\ probe' = [probe EXCEPT !.parts[p] = answer]
        BY <2>3 DEF AskSource
      <3>2. probe.record = None
        BY <2>2, <3>1
      <3> DEFINE parts == [probe.parts EXCEPT ![p] = answer]
      <3>3. DOMAIN parts = {"inspect", "dmesg", "logs"} /\ probe' = [probe EXCEPT !.parts = parts]
        BY <2>1, <3>1
      <3> HIDE DEF parts
      <3>4. /\ DOMAIN probe' = Fields /\ probe'.mode = "diagnose" /\ probe'.error = probe.error
            /\ probe'.parts = parts /\ probe'.record = None
        BY <2>1, <3>2, <3>3
      <3> QED
        BY <2>1, <3>3, <3>4 DEF ProbeInv, DiagnosisOK
    <2>4. ASSUME WriteDiagnostics PROVE ProbeInv'
      <3> DEFINE record == [code |-> ClassifyError(probe.error),
                            category |-> CategoryOf[ClassifyError(probe.error)],
                            parts |-> probe.parts]
      <3>1. PICK file \in {"written", "none"} : probe' = [probe EXCEPT !.file = file, !.record = record]
        BY <2>4 DEF WriteDiagnostics
      <3>2. \A p \in DOMAIN probe.parts : probe.parts[p] # "asked"
        BY <2>4 DEF WriteDiagnostics
      <3>3. record = [code |-> ClassifyError(probe.error),
                      category |-> CategoryOf[ClassifyError(probe.error)],
                      parts |-> probe.parts]
        OBVIOUS
      <3> HIDE DEF record
      <3>4. /\ DOMAIN probe' = Fields /\ probe'.mode = "diagnose" /\ probe'.error = probe.error
            /\ probe'.parts = probe.parts /\ probe'.record = record
        BY <2>1, <3>1
      <3>5. DiagnosisOK'
        BY <2>1, <3>2, <3>3, <3>4 DEF DiagnosisOK
      <3> QED
        BY <3>5 DEF ProbeInv
    <2>5. ~Profiling
      BY <2>1 DEF Profiling
    <2> QED
      BY <2>3, <2>4, <2>5 DEF TelemetryNext, CounterGrows, ContainerRestarts, StartProfiler,
         PollTimer, StopProfiler, PollAnswers, ClearSamples
  <1> QED
    BY <1>1, <1>2 DEF ProbeInv
-----------------------------------------------------------------------------
(* The scans of a trajectory and its diagnosis *)

\* The scan for loops follows its recursion.
LEMMA LoopsAre ==
    ASSUME Steps \in Seq(StepKinds)
    PROVE  /\ Loops[0] = [first |-> 0, found |-> {}]
           /\ \A i \in 1..Len(Steps) : Loops[i] = LookForLoop(Loops[i - 1], i)
  <1> DEFINE n == Len(Steps)
             S == [first : Int, found : SUBSET (Int \X Int)]
             base == [first |-> 0, found |-> {}]
             step == [p \in S \X (1..n) |-> LookForLoop(p[1], p[2])]
  <1>1. n \in Nat
    BY LenProperties
  <1>2. base \in S
    OBVIOUS
  <1>3. ASSUME NEW s \in S, NEW i \in 1..n PROVE LookForLoop(s, i) \in S
    <2> DEFINE same == i > 1 /\ Steps[i].call = Steps[i - 1].call
               first == IF same THEN s.first ELSE i
               found == IF same /\ i - first + 1 >= MaxIdentical THEN s.found \cup {<<first, i>>} ELSE s.found
    <2>1. first \in Int /\ i \in Int
      OBVIOUS
    <2>2. LookForLoop(s, i) = [first |-> first, found |-> found]
      BY DEF LookForLoop
    <2> HIDE DEF first
    <2>3. found \in SUBSET (Int \X Int)
      BY <2>1
    <2> HIDE DEF found
    <2> QED
      BY <2>1, <2>2, <2>3
  <1>4. StaysWithin(step, S, n)
    BY <1>3 DEF StaysWithin
  <1>5. \A s \in S, i \in 1..n : step[<<s, i>>] = LookForLoop(s, i)
    OBVIOUS
  <1> HIDE DEF step, S, base
  <1>6. PICK f : Follows(f, S, n, base, step)
    <2> HIDE DEF n
    <2> QED
      BY ONLY <1>1, <1>2, <1>4, Recursion
  <1>7. \A i \in 1..n : f[i] = LookForLoop(f[i - 1], i)
    <2>1. \A i \in 1..n : f[i - 1] \in S
      BY <1>1, <1>6 DEF Follows
    <2> QED
      BY <1>5, <1>6, <2>1 DEF Follows
  <1>8. f = [i \in 0..n |-> IF i = 0 THEN base ELSE LookForLoop(f[i - 1], i)]
    <2>1. \A i \in 0..n : f[i] = IF i = 0 THEN base ELSE LookForLoop(f[i - 1], i)
      BY <1>1, <1>6, <1>7 DEF Follows
    <2> QED
      BY <1>6, <2>1 DEF Follows
  <1>9. Loops = [i \in 0..n |-> IF i = 0 THEN base ELSE LookForLoop(Loops[i - 1], i)]
    BY <1>8 DEF Loops, base
  <1>10. 0 \in 0..n /\ \A i \in 1..n : i \in 0..n /\ i # 0
    BY <1>1
  <1> HIDE DEF n
  <1>11. Loops[0] = base /\ \A i \in 1..n : Loops[i] = LookForLoop(Loops[i - 1], i)
    BY ONLY <1>9, <1>10
  <1> QED
    BY <1>11 DEF base, n
\* The scan for errors follows its recursion.
LEMMA CyclesAre ==
    ASSUME Steps \in Seq(StepKinds)
    PROVE  /\ Cycles[0] = [count |-> 0, found |-> {}]
           /\ \A i \in 1..Len(Steps) : Cycles[i] = LookForError(Cycles[i - 1], i)
  <1> DEFINE n == Len(Steps)
             S == [count : Int, found : SUBSET (Int \X Int)]
             base == [count |-> 0, found |-> {}]
             step == [p \in S \X (1..n) |-> LookForError(p[1], p[2])]
  <1>1. n \in Nat
    BY LenProperties
  <1>2. base \in S
    OBVIOUS
  <1>3. ASSUME NEW s \in S, NEW i \in 1..n PROVE LookForError(s, i) \in S
    <2> DEFINE count == IF Errs(Steps[i]) THEN s.count + 1 ELSE 0
               found == IF count >= MaxCycles THEN s.found \cup {<<i - count + 1, i>>} ELSE s.found
    <2>1. count \in Int /\ i \in Int
      OBVIOUS
    <2>2. LookForError(s, i) = [count |-> count, found |-> found]
      BY DEF LookForError, CountErrors
    <2> HIDE DEF count
    <2>3. found \in SUBSET (Int \X Int)
      BY <2>1
    <2> HIDE DEF found
    <2> QED
      BY <2>1, <2>2, <2>3
  <1>4. StaysWithin(step, S, n)
    BY <1>3 DEF StaysWithin
  <1>5. \A s \in S, i \in 1..n : step[<<s, i>>] = LookForError(s, i)
    OBVIOUS
  <1> HIDE DEF step, S, base
  <1>6. PICK f : Follows(f, S, n, base, step)
    <2> HIDE DEF n
    <2> QED
      BY ONLY <1>1, <1>2, <1>4, Recursion
  <1>7. \A i \in 1..n : f[i] = LookForError(f[i - 1], i)
    <2>1. \A i \in 1..n : f[i - 1] \in S
      BY <1>1, <1>6 DEF Follows
    <2> QED
      BY <1>5, <1>6, <2>1 DEF Follows
  <1>8. f = [i \in 0..n |-> IF i = 0 THEN base ELSE LookForError(f[i - 1], i)]
    <2>1. \A i \in 0..n : f[i] = IF i = 0 THEN base ELSE LookForError(f[i - 1], i)
      BY <1>1, <1>6, <1>7 DEF Follows
    <2> QED
      BY <1>6, <2>1 DEF Follows
  <1>9. Cycles = [i \in 0..n |-> IF i = 0 THEN base ELSE LookForError(Cycles[i - 1], i)]
    BY <1>8 DEF Cycles, base
  <1>10. 0 \in 0..n /\ \A i \in 1..n : i \in 0..n /\ i # 0
    BY <1>1
  <1> HIDE DEF n
  <1>11. Cycles[0] = base /\ \A i \in 1..n : Cycles[i] = LookForError(Cycles[i - 1], i)
    BY ONLY <1>9, <1>10
  <1> QED
    BY <1>11 DEF base, n
\* The scan for forgotten queries follows its recursion.
LEMMA QueriesAre ==
    ASSUME Steps \in Seq(StepKinds)
    PROVE  /\ Queries[0] = [at |-> [c \in Reads |-> 0], found |-> {}]
           /\ \A i \in 1..Len(Steps) : Queries[i] = LookForQuery(Queries[i - 1], i)
  <1> DEFINE n == Len(Steps)
             S == [at : [Reads -> Int], found : SUBSET (Int \X Int)]
             base == [at |-> [c \in Reads |-> 0], found |-> {}]
             step == [p \in S \X (1..n) |-> LookForQuery(p[1], p[2])]
  <1>1. n \in Nat
    BY LenProperties
  <1>2. base \in S
    OBVIOUS
  <1>3. ASSUME NEW s \in S, NEW i \in 1..n PROVE LookForQuery(s, i) \in S
    <2> DEFINE call == Steps[i].call
    <2>1. CASE call \notin Reads
      BY <2>1 DEF LookForQuery
    <2>2. CASE call \in Reads /\ s.at[call] # 0 /\ i - s.at[call] > Gap
      <3>1. s.found \cup {<<s.at[call], i>>} \in SUBSET (Int \X Int)
        BY <2>2
      <3>2. LookForQuery(s, i) = [s EXCEPT !.found = @ \cup {<<s.at[call], i>>}]
        BY <2>2 DEF LookForQuery
      <3> QED
        BY <3>1, <3>2
    <2>3. CASE call \in Reads /\ ~(s.at[call] # 0 /\ i - s.at[call] > Gap)
      <3>1. LookForQuery(s, i) = [s EXCEPT !.at[call] = i]
        BY <2>3 DEF LookForQuery
      <3>2. [s.at EXCEPT ![call] = i] \in [Reads -> Int]
        <4>1. i \in Int /\ s.at \in [Reads -> Int]
          OBVIOUS
        <4> QED
          BY <4>1
      <3> QED
        BY <3>1, <3>2
    <2> QED
      BY <2>1, <2>2, <2>3
  <1>4. StaysWithin(step, S, n)
    BY <1>3 DEF StaysWithin
  <1>5. \A s \in S, i \in 1..n : step[<<s, i>>] = LookForQuery(s, i)
    OBVIOUS
  <1> HIDE DEF step, S, base
  <1>6. PICK f : Follows(f, S, n, base, step)
    <2> HIDE DEF n
    <2> QED
      BY ONLY <1>1, <1>2, <1>4, Recursion
  <1>7. \A i \in 1..n : f[i] = LookForQuery(f[i - 1], i)
    <2>1. \A i \in 1..n : f[i - 1] \in S
      BY <1>1, <1>6 DEF Follows
    <2> QED
      BY <1>5, <1>6, <2>1 DEF Follows
  <1>8. f = [i \in 0..n |-> IF i = 0 THEN base ELSE LookForQuery(f[i - 1], i)]
    <2>1. \A i \in 0..n : f[i] = IF i = 0 THEN base ELSE LookForQuery(f[i - 1], i)
      BY <1>1, <1>6, <1>7 DEF Follows
    <2> QED
      BY <1>6, <2>1 DEF Follows
  <1>9. Queries = [i \in 0..n |-> IF i = 0 THEN base ELSE LookForQuery(Queries[i - 1], i)]
    BY <1>8 DEF Queries, base
  <1>10. 0 \in 0..n /\ \A i \in 1..n : i \in 0..n /\ i # 0
    BY <1>1
  <1> HIDE DEF n
  <1>11. Queries[0] = base /\ \A i \in 1..n : Queries[i] = LookForQuery(Queries[i - 1], i)
    BY ONLY <1>9, <1>10
  <1> QED
    BY <1>11 DEF base, n

\* A stretch of equal calls, from where it begins.
Stretch(c, limit, a, b) ==
  /\ b - a + 1 >= limit
  /\ \A k \in a..b : c[a] = c[k]
  /\ a = 1 \/ c[a - 1] # c[a]

StretchesOf(n, c, limit) == {x \in (1..n) \X (1..n) : Stretch(c, limit, x[1], x[2])}

\* What a pass over n calls c has at each step: where the run began, what it found.
LoopPass(n, c, limit, first, found) ==
  /\ found[0] = {}
  /\ \A i \in 1..n : first[i] = IF i > 1 /\ c[i] = c[i - 1] THEN first[i - 1] ELSE i
  /\ \A i \in 1..n : found[i] = IF i > 1 /\ c[i] = c[i - 1] /\ i - first[i] + 1 >= limit
                                 THEN found[i - 1] \cup {<<first[i], i>>} ELSE found[i - 1]

\* One pass finds every stretch of equal calls and no other (scanInfiniteLoops).
LEMMA PassFindsStretches ==
    ASSUME NEW n \in Nat, NEW c, NEW limit \in Nat \ {0, 1}, NEW first, NEW found,
           LoopPass(n, c, limit, first, found)
    PROVE  found[n] = StretchesOf(n, c, limit)
  <1> USE DEF LoopPass
  <1> DEFINE Begun(m) == /\ first[m] \in 1..m
                         /\ \A k \in first[m]..m : c[k] = c[m]
                         /\ first[m] = 1 \/ c[first[m] - 1] # c[first[m]]
             All(m) == {x \in (1..m) \X (1..m) : Stretch(c, limit, x[1], x[2])}
             Has == {m \in Nat : m <= n => (m # 0 => Begun(m)) /\ found[m] = All(m)}
  <1>1. 0 \in Has
    OBVIOUS
  <1>2. ASSUME NEW m \in Nat, m \in Has PROVE m + 1 \in Has
    <2> SUFFICES ASSUME m + 1 <= n PROVE Begun(m + 1) /\ found[m + 1] = All(m + 1)
      OBVIOUS
    <2> DEFINE i == m + 1
               same == i > 1 /\ c[i] = c[i - 1]
    <2>1. i \in 1..n /\ i - 1 = m /\ (m # 0 => Begun(m)) /\ found[m] = All(m)
      BY <1>2
    <2>2. first[i] = IF same THEN first[m] ELSE i
      BY <2>1
    <2>3. Begun(i)
      <3>1. CASE ~same
        <4>1. first[i] = i /\ \A k \in i..i : k = i
          BY <2>1, <2>2, <3>1
        <4>2. i = 1 \/ c[i - 1] # c[i]
          BY <2>1, <3>1
        <4> QED
          BY <2>1, <4>1, <4>2
      <3>2. CASE same
        <4>1. Begun(m) /\ c[i] = c[m] /\ first[i] = first[m]
          BY <2>1, <2>2, <3>2
        <4>2. \A k \in first[m]..i : k \in first[m]..m \/ k = i
          BY <2>1, <4>1
        <4> QED
          BY <2>1, <4>1, <4>2
      <3> QED
        BY <3>1, <3>2
    <2>4. ASSUME NEW a \in 1..i
          PROVE  Stretch(c, limit, a, i) <=> (same /\ i - first[i] + 1 >= limit /\ a = first[i])
      <3>1. ASSUME Stretch(c, limit, a, i) PROVE same /\ i - first[i] + 1 >= limit /\ a = first[i]
        <4>1. /\ i - a + 1 >= limit /\ \A k \in a..i : c[a] = c[k]
              /\ a = 1 \/ c[a - 1] # c[a]
          BY <3>1 DEF Stretch
        <4>2. a < i /\ i \in a..i /\ i - 1 \in a..i
          BY <2>1, <4>1
        <4>3. same
          BY <2>1, <4>1, <4>2
        <4>4. a = first[i]
          <5>1. CASE a < first[i]
            <6>1. first[i] - 1 \in a..i /\ first[i] \in a..i /\ first[i] # 1
              BY <2>1, <2>3, <5>1
            <6> QED
              BY <2>3, <4>1, <6>1
          <5>2. CASE a > first[i]
            <6>1. a - 1 \in first[i]..i /\ a \in first[i]..i /\ a # 1
              BY <2>1, <2>3, <5>2
            <6> QED
              BY <2>3, <4>1, <6>1
          <5> QED
            BY <2>1, <2>3, <5>1, <5>2
        <4> QED
          BY <4>1, <4>3, <4>4
      <3>2. ASSUME same, i - first[i] + 1 >= limit, a = first[i] PROVE Stretch(c, limit, a, i)
        <4>1. \A k \in first[i]..i : c[first[i]] = c[k]
          <5>1. first[i] \in first[i]..i
            BY <2>1, <2>3
          <5> QED
            BY <2>3, <5>1
        <4> QED
          BY <2>3, <3>2, <4>1 DEF Stretch
      <3> QED
        BY <3>1, <3>2
    <2>5. ASSUME NEW a \in 1..i, NEW b \in 1..i, a = i, b # i PROVE ~Stretch(c, limit, a, b)
      <3>1. b - a + 1 < limit
        BY <2>1, <2>5
      <3> QED
        BY <3>1 DEF Stretch
    <2>6. \A x : x \in All(i) <=> x \in All(m) \/ (same /\ i - first[i] + 1 >= limit /\ x = <<first[i], i>>)
      <3>1. ASSUME NEW x \in All(i)
            PROVE  x \in All(m) \/ (same /\ i - first[i] + 1 >= limit /\ x = <<first[i], i>>)
        <4>1. PICK a \in 1..i, b \in 1..i : x = <<a, b>> /\ Stretch(c, limit, a, b)
          OBVIOUS
        <4>2. CASE b = i
          BY <2>4, <4>1, <4>2
        <4>3. CASE b # i
          <5>1. a \in 1..m /\ b \in 1..m
            BY <2>1, <2>5, <4>1, <4>3
          <5> QED
            BY <4>1, <5>1
        <4> QED
          BY <4>2, <4>3
      <3>2. ASSUME NEW x \in All(m) PROVE x \in All(i)
        <4>1. (1..m) \subseteq (1..i)
          OBVIOUS
        <4> QED
          BY <4>1
      <3>3. ASSUME same, i - first[i] + 1 >= limit PROVE <<first[i], i>> \in All(i)
        <4>1. first[i] \in 1..i /\ i \in 1..i
          BY <2>1, <2>3
        <4>2. Stretch(c, limit, first[i], i)
          BY <2>4, <3>3, <4>1
        <4> QED
          BY <4>1, <4>2
      <3> HIDE DEF All
      <3> QED
        BY <3>1, <3>2, <3>3
    <2> DEFINE more == same /\ i - first[i] + 1 >= limit
    <2>7. found[i] = IF more THEN found[i - 1] \cup {<<first[i], i>>} ELSE found[i - 1]
      BY <2>1
    <2>8. found[i] = All(i)
      <3>1. \A x : x \in All(i) <=> x \in All(m) \/ (more /\ x = <<first[i], i>>)
        BY <2>6
      <3>2. found[i - 1] = All(m)
        BY <2>1
      <3> HIDE DEF All, more
      <3>3. CASE more
        <4>1. All(i) = All(m) \cup {<<first[i], i>>}
          BY <3>1, <3>3
        <4> QED
          BY <2>7, <3>2, <3>3, <4>1
      <3>4. CASE ~more
        <4>1. All(i) = All(m)
          BY <3>1, <3>4
        <4> QED
          BY <2>7, <3>2, <3>4, <4>1
      <3> QED
        BY <3>3, <3>4
    <2> QED
      BY <2>3, <2>8
  <1> HIDE DEF Has
  <1>3. n \in Has
    BY <1>1, <1>2, AllNat
  <1> QED
    BY <1>3 DEF Has, StretchesOf

\* A stretch of failing steps, from where it begins.
Failing(failed, limit, a, b) ==
  /\ b - a + 1 >= limit
  /\ \A k \in a..b : k \in failed
  /\ a = 1 \/ a - 1 \notin failed

CyclesOf(n, failed, limit) == {x \in (1..n) \X (1..n) : Failing(failed, limit, x[1], x[2])}

\* What a pass over n steps has at each: how many failed last, what it found.
CyclePass(n, failed, limit, count, found) ==
  /\ count[0] = 0 /\ found[0] = {}
  /\ \A i \in 1..n : count[i] = IF i \in failed THEN count[i - 1] + 1 ELSE 0
  /\ \A i \in 1..n : found[i] = IF count[i] >= limit
                                 THEN found[i - 1] \cup {<<i - count[i] + 1, i>>}
                                 ELSE found[i - 1]

\* One pass finds every stretch of failing steps and no other (scanErrorCycles).
LEMMA PassFindsCycles ==
    ASSUME NEW n \in Nat, NEW failed, NEW limit \in Nat \ {0}, NEW count, NEW found,
           CyclePass(n, failed, limit, count, found)
    PROVE  found[n] = CyclesOf(n, failed, limit)
  <1> USE DEF CyclePass
  <1> DEFINE Counted(m) == /\ count[m] \in 0..m
                           /\ \A k \in (m - count[m] + 1)..m : k \in failed
                           /\ count[m] = m \/ m - count[m] \notin failed
             All(m) == {x \in (1..m) \X (1..m) : Failing(failed, limit, x[1], x[2])}
             Has == {m \in Nat : m <= n => Counted(m) /\ found[m] = All(m)}
  <1>1. 0 \in Has
    <2>1. Counted(0)
      OBVIOUS
    <2>2. All(0) = {}
      OBVIOUS
    <2> QED
      BY <2>1, <2>2
  <1>2. ASSUME NEW m \in Nat, m \in Has PROVE m + 1 \in Has
    <2> SUFFICES ASSUME m + 1 <= n PROVE Counted(m + 1) /\ found[m + 1] = All(m + 1)
      OBVIOUS
    <2> DEFINE i == m + 1
               more == count[i] >= limit
               from == i - count[i] + 1
    <2>1. i \in 1..n /\ i - 1 = m /\ Counted(m) /\ found[m] = All(m)
      BY <1>2
    <2>2. count[i] = IF i \in failed THEN count[m] + 1 ELSE 0
      BY <2>1
    <2>3. Counted(i)
      <3>1. CASE i \notin failed
        <4>1. count[i] = 0
          BY <2>2, <3>1
        <4> QED
          BY <2>1, <3>1, <4>1
      <3>2. CASE i \in failed
        <4>1. count[i] = count[m] + 1 /\ count[m] \in 0..m
          BY <2>1, <2>2, <3>2
        <4>2. /\ count[i] \in 0..i /\ i - count[i] = m - count[m]
              /\ i - count[i] + 1 = m - count[m] + 1
          BY <4>1
        <4>3. \A k \in (i - count[i] + 1)..i : k \in (m - count[m] + 1)..m \/ k = i
          BY <4>1, <4>2
        <4>4. \A k \in (i - count[i] + 1)..i : k \in failed
          BY <2>1, <3>2, <4>3
        <4>5. count[i] = i \/ i - count[i] \notin failed
          BY <2>1, <4>1, <4>2
        <4> QED
          BY <4>2, <4>4, <4>5
      <3> QED
        BY <3>1, <3>2
    <2>4. ASSUME NEW a \in 1..i
          PROVE  Failing(failed, limit, a, i) <=> (more /\ a = from)
      <3>1. ASSUME Failing(failed, limit, a, i) PROVE more /\ a = from
        <4>1. /\ i - a + 1 >= limit /\ \A k \in a..i : k \in failed
              /\ a = 1 \/ a - 1 \notin failed
          BY <3>1 DEF Failing
        <4>2. count[i] \in 0..i /\ i \in a..i /\ a \in a..i
          BY <2>3
        <4>3. a = from
          <5>1. CASE a < from
            <6>1. i - count[i] \in a..i /\ count[i] # i
              BY <2>1, <4>2, <5>1
            <6> QED
              BY <2>3, <4>1, <6>1
          <5>2. CASE a > from
            <6>1. a - 1 \in from..i /\ a # 1
              BY <2>1, <4>2, <5>2
            <6> QED
              BY <2>3, <4>1, <6>1
          <5> QED
            BY <4>2, <5>1, <5>2
        <4> QED
          BY <4>1, <4>2, <4>3
      <3>2. ASSUME more, a = from PROVE Failing(failed, limit, a, i)
        <4>1. i - from + 1 = count[i] /\ (from = 1 <=> count[i] = i) /\ from - 1 = i - count[i]
          BY <2>3
        <4> QED
          BY <2>3, <3>2, <4>1 DEF Failing
      <3> QED
        BY <3>1, <3>2
    <2>5. ASSUME NEW a \in 1..i, NEW b \in 1..i, a = i, b # i PROVE ~Failing(failed, limit, a, b)
      <3>1. b - a + 1 < limit
        BY <2>1, <2>5
      <3> QED
        BY <3>1 DEF Failing
    <2>6. \A x : x \in All(i) <=> x \in All(m) \/ (more /\ x = <<from, i>>)
      <3>1. ASSUME NEW x \in All(i) PROVE x \in All(m) \/ (more /\ x = <<from, i>>)
        <4>1. PICK a \in 1..i, b \in 1..i : x = <<a, b>> /\ Failing(failed, limit, a, b)
          OBVIOUS
        <4>2. CASE b = i
          BY <2>4, <4>1, <4>2
        <4>3. CASE b # i
          <5>1. a \in 1..m /\ b \in 1..m
            BY <2>1, <2>5, <4>1, <4>3
          <5> QED
            BY <4>1, <5>1
        <4> QED
          BY <4>2, <4>3
      <3>2. ASSUME NEW x \in All(m) PROVE x \in All(i)
        <4>1. (1..m) \subseteq (1..i)
          OBVIOUS
        <4> QED
          BY <4>1
      <3>3. ASSUME more PROVE <<from, i>> \in All(i)
        <4>1. from \in 1..i /\ i \in 1..i
          BY <2>1, <2>3, <3>3
        <4>2. Failing(failed, limit, from, i)
          BY <2>4, <3>3, <4>1
        <4> QED
          BY <4>1, <4>2
      <3> HIDE DEF All
      <3> QED
        BY <3>1, <3>2, <3>3
    <2>7. found[i] = IF more THEN found[i - 1] \cup {<<from, i>>} ELSE found[i - 1]
      BY <2>1
    <2>8. found[i] = All(i)
      <3>2. found[i - 1] = All(m)
        BY <2>1
      <3> HIDE DEF All, more, from
      <3>3. CASE more
        <4>1. All(i) = All(m) \cup {<<from, i>>}
          BY <2>6, <3>3
        <4> QED
          BY <2>7, <3>2, <3>3, <4>1
      <3>4. CASE ~more
        <4>1. All(i) = All(m)
          BY <2>6, <3>4
        <4> QED
          BY <2>7, <3>2, <3>4, <4>1
      <3> QED
        BY <3>3, <3>4
    <2> QED
      BY <2>3, <2>8
  <1> HIDE DEF Has
  <1>3. n \in Has
    BY <1>1, <1>2, AllNat
  <1> QED
    BY <1>3 DEF Has, CyclesOf

\* What a pass over n calls c has at each step: where it saw each query, what it found.
QueryPass(n, c, at, found) ==
  /\ at[0] = [r \in Reads |-> 0] /\ found[0] = {}
  /\ \A i \in 1..n :
       \/ at[i] = at[i - 1] /\ found[i] = found[i - 1]
       \/ /\ c[i] \in Reads /\ at[i - 1][c[i]] # 0 /\ i - at[i - 1][c[i]] > Gap
          /\ at[i] = at[i - 1] /\ found[i] = found[i - 1] \cup {<<at[i - 1][c[i]], i>>}
       \/ c[i] \in Reads /\ at[i] = [at[i - 1] EXCEPT ![c[i]] = i] /\ found[i] = found[i - 1]

\* What is compared with is an earlier equal query (scanContextForgetting).
LEMMA PassComparesEqual ==
    ASSUME NEW n \in Nat, NEW c, NEW at, NEW found, QueryPass(n, c, at, found)
    PROVE  \A x \in found[n] : x \in (1..n) \X (1..n) /\ x[2] - x[1] > Gap /\ c[x[1]] = c[x[2]]
  <1> USE DEF QueryPass
  <1> DEFINE Seen(m) == /\ at[m] \in [Reads -> 0..m]
                        /\ \A r \in Reads : at[m][r] # 0 => c[at[m][r]] = r
             Good(m) == \A x \in found[m] : x \in (1..m) \X (1..m) /\ x[2] - x[1] > Gap /\ c[x[1]] = c[x[2]]
             Has == {m \in Nat : m <= n => Seen(m) /\ Good(m)}
  <1>1. 0 \in Has
    OBVIOUS
  <1>2. ASSUME NEW m \in Nat, m \in Has PROVE m + 1 \in Has
    <2> SUFFICES ASSUME m + 1 <= n PROVE Seen(m + 1) /\ Good(m + 1)
      OBVIOUS
    <2> DEFINE i == m + 1
    <2>1. i \in 1..n /\ i - 1 = m /\ Seen(m) /\ Good(m)
      BY <1>2
    <2>2. (0..m) \subseteq (0..i) /\ (1..m) \subseteq (1..i)
      OBVIOUS
    <2>3. at[m] \in [Reads -> 0..i]
      BY <2>1, <2>2
    <2>4. \A x \in found[m] : x \in (1..i) \X (1..i) /\ x[2] - x[1] > Gap /\ c[x[1]] = c[x[2]]
      BY <2>1, <2>2
    <2>5. \/ at[i] = at[m] /\ found[i] = found[m]
          \/ /\ c[i] \in Reads /\ at[m][c[i]] # 0 /\ i - at[m][c[i]] > Gap
             /\ at[i] = at[m] /\ found[i] = found[m] \cup {<<at[m][c[i]], i>>}
          \/ c[i] \in Reads /\ at[i] = [at[m] EXCEPT ![c[i]] = i] /\ found[i] = found[m]
      BY <2>1
    <2> HIDE DEF i
    <2>6. CASE at[i] = at[m] /\ found[i] = found[m]
      BY <2>1, <2>3, <2>4, <2>6 DEF i
    <2>7. CASE /\ c[i] \in Reads /\ at[m][c[i]] # 0 /\ i - at[m][c[i]] > Gap
               /\ at[i] = at[m] /\ found[i] = found[m] \cup {<<at[m][c[i]], i>>}
      <3>1. at[m][c[i]] \in 1..i /\ i \in 1..i /\ c[at[m][c[i]]] = c[i]
        BY <2>1, <2>3, <2>7 DEF i
      <3>2. \A x \in found[i] : x \in (1..i) \X (1..i) /\ x[2] - x[1] > Gap /\ c[x[1]] = c[x[2]]
        BY <2>4, <2>7, <3>1
      <3> QED
        BY <2>1, <2>3, <2>7, <3>2 DEF i
    <2>8. CASE c[i] \in Reads /\ at[i] = [at[m] EXCEPT ![c[i]] = i] /\ found[i] = found[m]
      <3>1. i \in 0..i
        BY DEF i
      <3>2. at[i] \in [Reads -> 0..i]
        BY <2>3, <2>8, <3>1
      <3>3. \A r \in Reads : at[i][r] # 0 => c[at[i][r]] = r
        BY <2>1, <2>3, <2>8
      <3> QED
        BY <2>4, <2>8, <3>2, <3>3 DEF i
    <2> QED
      BY <2>5, <2>6, <2>7, <2>8
  <1> HIDE DEF Has
  <1>3. n \in Has
    BY <1>1, <1>2, AllNat
  <1> QED
    BY <1>3 DEF Has

\* The loops that are found are all the stretches of equal calls.
LEMMA LoopsFound ==
    ASSUME Steps \in Seq(StepKinds)
    PROVE  /\ DOMAIN Steps = 1..Len(Steps) /\ Len(Steps) \in Nat
           /\ ScanInfiniteLoops =
                {x \in Indices \X Indices :
                   Stretch([i \in Indices |-> Steps[i].call], MaxIdentical, x[1], x[2])}
  <1> DEFINE n == Len(Steps)
             c == [i \in Indices |-> Steps[i].call]
             first == [i \in 0..n |-> Loops[i].first]
             found == [i \in 0..n |-> Loops[i].found]
  <1>1. n \in Nat /\ Indices = 1..n
    BY LenProperties DEF Indices
  <1>2. /\ Loops[0] = [first |-> 0, found |-> {}]
        /\ \A i \in 1..n : Loops[i] = LookForLoop(Loops[i - 1], i)
    BY LoopsAre
  <1>3. found[0] = {}
    BY <1>1, <1>2
  <1>4. ASSUME NEW i \in 1..n
        PROVE  /\ first[i] = IF i > 1 /\ c[i] = c[i - 1] THEN first[i - 1] ELSE i
               /\ found[i] = IF i > 1 /\ c[i] = c[i - 1] /\ i - first[i] + 1 >= MaxIdentical
                             THEN found[i - 1] \cup {<<first[i], i>>} ELSE found[i - 1]
    <2>1. i \in 0..n /\ i - 1 \in 0..n /\ (i > 1 => i - 1 \in Indices) /\ i \in Indices
      BY <1>1
    <2> DEFINE s == Loops[i - 1]
               same == i > 1 /\ Steps[i].call = Steps[i - 1].call
               f == IF same THEN s.first ELSE i
    <2>2. Loops[i] = [first |-> f,
                      found |-> IF same /\ i - f + 1 >= MaxIdentical THEN s.found \cup {<<f, i>>} ELSE s.found]
      BY <1>2 DEF LookForLoop
    <2>3. same <=> (i > 1 /\ c[i] = c[i - 1])
      BY <2>1
    <2>4. first[i - 1] = s.first /\ found[i - 1] = s.found
      BY <2>1
    <2>5. first[i] = Loops[i].first /\ found[i] = Loops[i].found
      BY <2>1
    <2>6. first[i] = f
      BY <2>2, <2>5
    <2>7. found[i] = IF same /\ i - f + 1 >= MaxIdentical THEN s.found \cup {<<f, i>>} ELSE s.found
      BY <2>2, <2>5
    <2> HIDE DEF first, found, c, s, same
    <2> QED
      BY <2>3, <2>4, <2>6, <2>7
  <1>5. MaxIdentical \in Nat \ {0, 1}
    BY TrajectoryAssumption
  <1>6. ScanInfiniteLoops = found[n]
    BY <1>1 DEF ScanInfiniteLoops
  <1> HIDE DEF first, found, c, n
  <1>7. found[n] = StretchesOf(n, c, MaxIdentical)
    <2>1. LoopPass(n, c, MaxIdentical, first, found)
      BY <1>3, <1>4 DEF LoopPass
    <2> QED
      BY <1>1, <1>5, <2>1, PassFindsStretches
  <1> QED
    BY <1>1, <1>6, <1>7 DEF c, n, Indices, StretchesOf

\* The indices of the steps that fail.
FailedSteps == {i \in Indices : Errs(Steps[i])}

\* The cycles that are found are all the stretches of failing steps.
LEMMA CyclesFound ==
    ASSUME Steps \in Seq(StepKinds)
    PROVE  ScanErrorCycles =
             {x \in Indices \X Indices : Failing(FailedSteps, MaxCycles, x[1], x[2])}
  <1> DEFINE n == Len(Steps)
             count == [i \in 0..n |-> Cycles[i].count]
             found == [i \in 0..n |-> Cycles[i].found]
  <1>1. n \in Nat /\ Indices = 1..n
    BY LenProperties DEF Indices
  <1>2. /\ Cycles[0] = [count |-> 0, found |-> {}]
        /\ \A i \in 1..n : Cycles[i] = LookForError(Cycles[i - 1], i)
    BY CyclesAre
  <1>3. count[0] = 0 /\ found[0] = {}
    BY <1>1, <1>2
  <1>4. ASSUME NEW i \in 1..n
        PROVE  /\ count[i] = IF i \in FailedSteps THEN count[i - 1] + 1 ELSE 0
               /\ found[i] = IF count[i] >= MaxCycles THEN found[i - 1] \cup {<<i - count[i] + 1, i>>}
                             ELSE found[i - 1]
    <2>1. i \in 0..n /\ i - 1 \in 0..n /\ i \in Indices
      BY <1>1
    <2> DEFINE s == Cycles[i - 1]
               k == IF Errs(Steps[i]) THEN s.count + 1 ELSE 0
    <2>2. Cycles[i] = [count |-> k,
                       found |-> IF k >= MaxCycles THEN s.found \cup {<<i - k + 1, i>>} ELSE s.found]
      BY <1>2 DEF LookForError, CountErrors
    <2>3. Errs(Steps[i]) <=> i \in FailedSteps
      BY <2>1 DEF FailedSteps
    <2>4. count[i - 1] = s.count /\ found[i - 1] = s.found
      BY <2>1
    <2>5. count[i] = Cycles[i].count /\ found[i] = Cycles[i].found
      BY <2>1
    <2>6. count[i] = k
      BY <2>2, <2>5
    <2>7. found[i] = IF k >= MaxCycles THEN s.found \cup {<<i - k + 1, i>>} ELSE s.found
      BY <2>2, <2>5
    <2>8. k = IF i \in FailedSteps THEN count[i - 1] + 1 ELSE 0
      BY <2>3, <2>4
    <2> HIDE DEF count, found, s, k
    <2> QED
      BY <2>4, <2>6, <2>7, <2>8
  <1>5. MaxCycles \in Nat \ {0}
    BY TrajectoryAssumption
  <1>6. ScanErrorCycles = found[n]
    BY <1>1 DEF ScanErrorCycles
  <1> HIDE DEF count, found, n
  <1>7. found[n] = CyclesOf(n, FailedSteps, MaxCycles)
    <2>1. CyclePass(n, FailedSteps, MaxCycles, count, found)
      BY <1>3, <1>4 DEF CyclePass
    <2> QED
      BY <1>1, <1>5, <2>1, PassFindsCycles
  <1> QED
    BY <1>1, <1>6, <1>7 DEF CyclesOf

\* A forgotten query that is found is equal to an earlier one, more than Gap
\* steps before.
LEMMA QueriesFound ==
    ASSUME Steps \in Seq(StepKinds)
    PROVE  \A x \in ScanContextForgetting :
             /\ x \in Indices \X Indices /\ x[2] - x[1] > Gap
             /\ Steps[x[1]].call = Steps[x[2]].call
  <1> DEFINE n == Len(Steps)
             c == [i \in Indices |-> Steps[i].call]
             at == [i \in 0..n |-> Queries[i].at]
             found == [i \in 0..n |-> Queries[i].found]
  <1>1. n \in Nat /\ Indices = 1..n
    BY LenProperties DEF Indices
  <1>2. /\ Queries[0] = [at |-> [r \in Reads |-> 0], found |-> {}]
        /\ \A i \in 1..n : Queries[i] = LookForQuery(Queries[i - 1], i)
    BY QueriesAre
  <1>3. at[0] = [r \in Reads |-> 0] /\ found[0] = {}
    BY <1>1, <1>2
  <1> DEFINE Shaped(m) == DOMAIN Queries[m] = {"at", "found"}
  <1>s. \A m \in 0..n : Shaped(m)
    <2> DEFINE Has == {m \in Nat : m <= n => Shaped(m)}
    <2>1. 0 \in Has
      BY <1>2
    <2>2. ASSUME NEW m \in Nat, m \in Has PROVE m + 1 \in Has
      <3>1. SUFFICES ASSUME m + 1 <= n PROVE Shaped(m + 1)
        OBVIOUS
      <3>2. Shaped(m)
        BY <2>2, <3>1
      <3>3. m + 1 \in 1..n /\ (m + 1) - 1 = m
        BY <1>1, <3>1
      <3>4. Queries[m + 1] = LookForQuery(Queries[m], m + 1)
        BY <1>2, <3>3
      <3> HIDE DEF n
      <3> QED
        BY <3>2, <3>4 DEF LookForQuery
    <2> HIDE DEF Has
    <2>3. Nat \subseteq Has
      BY <2>1, <2>2, AllNat
    <2> QED
      BY <1>1, <2>3 DEF Has
  <1>4. ASSUME NEW i \in 1..n
        PROVE  \/ at[i] = at[i - 1] /\ found[i] = found[i - 1]
               \/ /\ c[i] \in Reads /\ at[i - 1][c[i]] # 0 /\ i - at[i - 1][c[i]] > Gap
                  /\ at[i] = at[i - 1] /\ found[i] = found[i - 1] \cup {<<at[i - 1][c[i]], i>>}
               \/ c[i] \in Reads /\ at[i] = [at[i - 1] EXCEPT ![c[i]] = i] /\ found[i] = found[i - 1]
    <2>1. i \in 0..n /\ i - 1 \in 0..n /\ i \in Indices
      BY <1>1
    <2> DEFINE s == Queries[i - 1]
               call == Steps[i].call
    <2>2. Queries[i] = IF call \notin Reads THEN s
                       ELSE IF s.at[call] # 0 /\ i - s.at[call] > Gap
                         THEN [s EXCEPT !.found = @ \cup {<<s.at[call], i>>}]
                       ELSE [s EXCEPT !.at[call] = i]
      BY <1>2 DEF LookForQuery
    <2>3. c[i] = call /\ at[i - 1] = s.at /\ found[i - 1] = s.found
      BY <2>1
    <2>4. at[i] = Queries[i].at /\ found[i] = Queries[i].found
      BY <2>1
    <2>5. DOMAIN s = {"at", "found"}
      BY <1>s, <2>1
    <2> HIDE DEF at, found, c, s, call, n
    <2>6. CASE call \notin Reads
      BY <2>2, <2>3, <2>4, <2>6
    <2>7. CASE call \in Reads /\ s.at[call] # 0 /\ i - s.at[call] > Gap
      <3>1. Queries[i].at = s.at /\ Queries[i].found = s.found \cup {<<s.at[call], i>>}
        BY <2>2, <2>5, <2>7
      <3> QED
        BY <2>3, <2>4, <2>7, <3>1
    <2>8. CASE call \in Reads /\ ~(s.at[call] # 0 /\ i - s.at[call] > Gap)
      <3>1. Queries[i].at = [s.at EXCEPT ![call] = i] /\ Queries[i].found = s.found
        BY <2>2, <2>5, <2>8
      <3> QED
        BY <2>3, <2>4, <2>8, <3>1
    <2> QED
      BY <2>6, <2>7, <2>8
  <1>6. ScanContextForgetting = found[n]
    BY <1>1 DEF ScanContextForgetting
  <1>7. \A x \in found[n] : x \in (1..n) \X (1..n) /\ x[2] - x[1] > Gap /\ c[x[1]] = c[x[2]]
    <2> HIDE DEF at, found, c, n
    <2>1. QueryPass(n, c, at, found)
      BY <1>3, <1>4 DEF QueryPass
    <2> QED
      BY <1>1, <2>1, PassComparesEqual
  <1> QED
    BY <1>1, <1>6, <1>7

\* Every scan finds pairs of steps.
LEMMA ScansFindSteps ==
    ASSUME Steps \in Seq(StepKinds)
    PROVE  /\ ScanInfiniteLoops \subseteq Indices \X Indices
           /\ ScanErrorCycles \subseteq Indices \X Indices
           /\ ScanContextForgetting \subseteq Indices \X Indices
           /\ ScanOscillatingEdits \subseteq Indices \X Indices
           /\ ScanToolHallucinations \subseteq Indices \X Indices
           /\ ScanFormatDrift \subseteq Indices \X Indices
           /\ ScanStalls \subseteq Indices \X Indices
  <1>1. Indices = 1..Len(Steps) /\ Len(Steps) \in Nat
    BY LoopsFound DEF Indices
  <1>2. ASSUME NEW f \in UNION {Steps[i].edits : i \in Indices}
        PROVE  <<Min(EditsOf(f)), Max(EditsOf(f))>> \in Indices \X Indices
    <2> DEFINE T == EditsOf(f)
    <2>1. T \subseteq Indices /\ T # {}
      BY DEF EditsOf
    <2> HIDE DEF T
    <2>2. T \subseteq Nat /\ T \subseteq 0..Len(Steps)
      BY <1>1, <2>1
    <2>3. PICK a \in T : \A y \in T : a <= y
      BY <2>1, <2>2, LeastOf
    <2>4. PICK b \in T : \A y \in T : y <= b
      BY <1>1, <2>1, <2>2, GreatestOf
    <2>5. Min(T) \in T
      BY <2>3 DEF Min
    <2>6. b \in T /\ \A y \in T : b >= y
      BY <2>2, <2>4
    <2>7. Max(T) \in T
      BY <2>6 DEF Max
    <2> QED
      BY <2>1, <2>5, <2>7 DEF T
  <1>3. ScanOscillatingEdits \subseteq Indices \X Indices
    BY <1>2 DEF ScanOscillatingEdits
  <1>4. /\ ScanToolHallucinations \subseteq Indices \X Indices
        /\ ScanFormatDrift \subseteq Indices \X Indices
        /\ ScanStalls \subseteq Indices \X Indices
    <2>1. \A J : J \subseteq Indices => {<<i, i>> : i \in J} \subseteq Indices \X Indices
      OBVIOUS
    <2>2. ASSUME NEW T, \E J \in SUBSET Indices : T = {<<i, i>> : i \in J}
          PROVE  T \subseteq Indices \X Indices
      BY <2>1, <2>2
    <2>3. \E J \in SUBSET Indices : ScanToolHallucinations = {<<i, i>> : i \in J}
      <3> WITNESS {j \in Indices : Steps[j].call # None
                     /\ (Steps[j].call \notin KnownCalls \/ Steps[j].sign = "no tool")} \in SUBSET Indices
      <3> QED
        BY DEF ScanToolHallucinations, At
    <2>4. \E J \in SUBSET Indices : ScanFormatDrift = {<<i, i>> : i \in J}
      <3> WITNESS {j \in Indices : Steps[j].drifts} \in SUBSET Indices
      <3> QED
        BY DEF ScanFormatDrift, At
    <2>5. \E J \in SUBSET Indices : ScanStalls = {<<i, i>> : i \in J}
      <3> WITNESS {j \in Indices : Steps[j].overran > 0} \in SUBSET Indices
      <3> QED
        BY DEF ScanStalls, At
    <2> QED
      BY <2>2, <2>3, <2>4, <2>5
  <1>5. /\ ScanInfiniteLoops \subseteq Indices \X Indices
        /\ ScanErrorCycles \subseteq Indices \X Indices
    BY LoopsFound, CyclesFound
  <1>6. ScanContextForgetting \subseteq Indices \X Indices
    BY QueriesFound
  <1> QED
    BY <1>3, <1>4, <1>5, <1>6

Types ==
  {"infinite_retry_loop", "unhandled_error_cycle", "stalled_execution", "tool_hallucination",
   "format_drift", "oscillating_edits", "context_forgetting"}

Severities == {"critical", "high", "medium", "low"}

\* An anomaly says where it was found and how grave it is.
Report == [type : Types, severity : Severities, from : Indices, at : Indices]

\* The reports of one kind are of what was found, and all of it.
Reports(set, type, found) ==
  /\ set \subseteq Report
  /\ \A r \in set : r.type = type /\ <<r.from, r.at>> \in found
  /\ \A x \in found : \E r \in set : <<r.from, r.at>> = x

\* What one severity makes of what was found.
LEMMA AnomalyReports ==
    ASSUME NEW type \in Types, NEW severity \in Severities, NEW found \in SUBSET (Indices \X Indices)
    PROVE  Reports(Anomaly(type, severity, found), type, found)
  <1>1. \A x \in found : x = <<x[1], x[2]>> /\ x[1] \in Indices /\ x[2] \in Indices
    OBVIOUS
  <1> DEFINE R(x) == [type |-> type, severity |-> severity, from |-> x[1], at |-> x[2]]
  <1>2. Anomaly(type, severity, found) = {R(x) : x \in found}
    BY DEF Anomaly
  <1>3. \A x \in found : /\ R(x) \in Report /\ R(x).type = type
                         /\ <<R(x).from, R(x).at>> = x
    BY <1>1 DEF Report
  <1> HIDE DEF R
  <1> QED
    BY <1>2, <1>3 DEF Reports

\* Graded by a part of what was found.
LEMMA GradedReports ==
    ASSUME NEW type \in Types, NEW soft \in Severities,
           NEW found \in SUBSET (Indices \X Indices), NEW hard \in SUBSET found
    PROVE  Reports(Anomaly(type, "critical", hard) \cup Anomaly(type, soft, found \ hard), type, found)
  <1>1. hard \in SUBSET (Indices \X Indices) /\ (found \ hard) \in SUBSET (Indices \X Indices)
    OBVIOUS
  <1>2. "critical" \in Severities
    BY DEF Severities
  <1>3. Reports(Anomaly(type, "critical", hard), type, hard)
    BY <1>1, <1>2, AnomalyReports
  <1>4. Reports(Anomaly(type, soft, found \ hard), type, found \ hard)
    BY <1>1, AnomalyReports
  <1> QED
    BY <1>3, <1>4 DEF Reports

\* All anomalies, by kind: those of a kind are what its scan found.
LEMMA AnomaliesAre ==
    ASSUME Steps \in Seq(StepKinds)
    PROVE  /\ DetectAnomalies \subseteq Report
           /\ {<<r.from, r.at>> : r \in {q \in DetectAnomalies : q.type = "infinite_retry_loop"}}
                = ScanInfiniteLoops
           /\ {<<r.from, r.at>> : r \in {q \in DetectAnomalies : q.type = "unhandled_error_cycle"}}
                = ScanErrorCycles
           /\ {<<r.from, r.at>> : r \in {q \in DetectAnomalies : q.type = "context_forgetting"}}
                = ScanContextForgetting
  <1> DEFINE loops == ScanInfiniteLoops
             cycles == ScanErrorCycles
             stalls == ScanStalls
             hardLoops == {x \in loops : Length(x) >= MaxIdentical + 2}
             hardCycles == {x \in cycles : Length(x) >= 2 * MaxCycles}
             hardStalls == {x \in stalls : Steps[x[1]].overran > 1}
             A == Anomaly("infinite_retry_loop", "critical", hardLoops)
                    \cup Anomaly("infinite_retry_loop", "high", loops \ hardLoops)
             B == Anomaly("unhandled_error_cycle", "critical", hardCycles)
                    \cup Anomaly("unhandled_error_cycle", "high", cycles \ hardCycles)
             C == Anomaly("stalled_execution", "critical", hardStalls)
                    \cup Anomaly("stalled_execution", "medium", stalls \ hardStalls)
             D == Anomaly("tool_hallucination", "high", ScanToolHallucinations)
             E == Anomaly("format_drift", "medium", ScanFormatDrift)
             F == Anomaly("oscillating_edits", "high", ScanOscillatingEdits)
             G == Anomaly("context_forgetting", "low", ScanContextForgetting)
  <1>1. DetectAnomalies = UNION {A, B, C, D, E, F, G}
    BY DEF DetectAnomalies
  <1>2. /\ loops \in SUBSET (Indices \X Indices) /\ cycles \in SUBSET (Indices \X Indices)
        /\ stalls \in SUBSET (Indices \X Indices)
        /\ hardLoops \in SUBSET loops /\ hardCycles \in SUBSET cycles /\ hardStalls \in SUBSET stalls
    BY ScansFindSteps
  <1>3. /\ "infinite_retry_loop" \in Types /\ "unhandled_error_cycle" \in Types
        /\ "stalled_execution" \in Types /\ "tool_hallucination" \in Types
        /\ "format_drift" \in Types /\ "oscillating_edits" \in Types /\ "context_forgetting" \in Types
        /\ "high" \in Severities /\ "medium" \in Severities /\ "low" \in Severities
    BY DEF Types, Severities
  <1> HIDE DEF hardLoops, hardCycles, hardStalls
  <1>4. /\ Reports(A, "infinite_retry_loop", loops)
        /\ Reports(B, "unhandled_error_cycle", cycles)
        /\ Reports(C, "stalled_execution", stalls)
    <2> HIDE DEF loops, cycles, stalls
    <2> QED
      BY <1>2, <1>3, GradedReports
  <1>5. /\ Reports(D, "tool_hallucination", ScanToolHallucinations)
        /\ Reports(E, "format_drift", ScanFormatDrift)
        /\ Reports(F, "oscillating_edits", ScanOscillatingEdits)
        /\ Reports(G, "context_forgetting", ScanContextForgetting)
    BY <1>3, ScansFindSteps, AnomalyReports
  <1> HIDE DEF A, B, C, D, E, F, G
  <1>6. DetectAnomalies \subseteq Report
    BY <1>1, <1>4, <1>5 DEF Reports
  <1>7. \A r : r \in DetectAnomalies /\ r.type = "infinite_retry_loop" <=> r \in A
    BY <1>1, <1>4, <1>5 DEF Reports
  <1>8. \A r : r \in DetectAnomalies /\ r.type = "unhandled_error_cycle" <=> r \in B
    BY <1>1, <1>4, <1>5 DEF Reports
  <1>9. \A r : r \in DetectAnomalies /\ r.type = "context_forgetting" <=> r \in G
    BY <1>1, <1>4, <1>5 DEF Reports
  <1>10. /\ {<<r.from, r.at>> : r \in A} = loops /\ {<<r.from, r.at>> : r \in B} = cycles
         /\ {<<r.from, r.at>> : r \in G} = ScanContextForgetting
    BY <1>4, <1>5 DEF Reports
  <1>11. /\ {q \in DetectAnomalies : q.type = "infinite_retry_loop"} = A
         /\ {q \in DetectAnomalies : q.type = "unhandled_error_cycle"} = B
         /\ {q \in DetectAnomalies : q.type = "context_forgetting"} = G
    BY <1>7, <1>8, <1>9
  <1> QED
    BY <1>6, <1>10, <1>11

\* The places of one kind of anomaly.
Places(anomalies, type) == {<<r.from, r.at>> : r \in {q \in anomalies : q.type = type}}

\* The long stretches of equal calls, from where they begin.
LoopSpans(steps) ==
  {x \in (DOMAIN steps) \X (DOMAIN steps) :
     /\ x[2] - x[1] + 1 >= MaxIdentical
     /\ \A i \in x[1]..x[2] : steps[x[1]].call = steps[i].call
     /\ \/ x[1] = 1
        \/ ~(steps[x[1] - 1].call = steps[x[1]].call)
        \/ ~(steps[x[1]].call = steps[x[1] - 1].call)}

\* The long stretches of steps that fail, from where they begin.
CycleSpans(steps) ==
  {x \in (DOMAIN steps) \X (DOMAIN steps) :
     /\ x[2] - x[1] + 1 >= MaxCycles
     /\ \A i \in x[1]..x[2] : Errs(steps[i])
     /\ x[1] = 1 \/ ~Errs(steps[x[1]]) \/ ~Errs(steps[x[1] - 1])}

\* What the scans of these steps must report.
ScansRight(steps, anomalies) ==
  /\ Places(anomalies, "infinite_retry_loop") = LoopSpans(steps)
  /\ Places(anomalies, "unhandled_error_cycle") = CycleSpans(steps)
  /\ \A x \in Places(anomalies, "context_forgetting") :
       x[2] - x[1] > Gap /\ steps[x[1]].call = steps[x[2]].call

\* What the scans report is what the definitions say.
LEMMA ScansAreRight ==
    ASSUME Steps \in Seq(StepKinds)
    PROVE  ScansRight(Steps, DetectAnomalies)
  <1>2. Indices = 1..Len(Steps) /\ Len(Steps) \in Nat
    BY LoopsFound DEF Indices
  <1>3. /\ Places(DetectAnomalies, "infinite_retry_loop") = ScanInfiniteLoops
        /\ Places(DetectAnomalies, "unhandled_error_cycle") = ScanErrorCycles
        /\ Places(DetectAnomalies, "context_forgetting") = ScanContextForgetting
    BY AnomaliesAre DEF Places
  <1>4. ScanInfiniteLoops = LoopSpans(Steps)
    <2> DEFINE c == [i \in Indices |-> Steps[i].call]
    <2>1. ASSUME NEW a \in Indices, NEW b \in Indices
          PROVE  Stretch(c, MaxIdentical, a, b) <=>
                   /\ b - a + 1 >= MaxIdentical
                   /\ \A i \in a..b : Steps[a].call = Steps[i].call
                   /\ \/ a = 1
                      \/ ~(Steps[a - 1].call = Steps[a].call)
                      \/ ~(Steps[a].call = Steps[a - 1].call)
      <3>1. \A i \in a..b : i \in Indices
        BY <1>2
      <3>2. c[a] = Steps[a].call /\ \A i \in a..b : c[i] = Steps[i].call
        BY <3>1
      <3>3. a # 1 => c[a - 1] = Steps[a - 1].call
        BY <1>2
      <3> HIDE DEF c
      <3> QED
        BY <3>2, <3>3 DEF Stretch
    <2>2. ScanInfiniteLoops = {x \in Indices \X Indices : Stretch(c, MaxIdentical, x[1], x[2])}
      BY LoopsFound
    <2> HIDE DEF c
    <2> QED
      BY <2>1, <2>2 DEF LoopSpans, Indices
  <1>5. ScanErrorCycles = CycleSpans(Steps)
    <2>0. MaxCycles \in Nat \ {0}
      BY TrajectoryAssumption
    <2>1. ASSUME NEW a \in Indices, NEW b \in Indices
          PROVE  Failing(FailedSteps, MaxCycles, a, b) <=>
                   /\ b - a + 1 >= MaxCycles
                   /\ \A i \in a..b : Errs(Steps[i])
                   /\ a = 1 \/ ~Errs(Steps[a]) \/ ~Errs(Steps[a - 1])
      <3>1. \A i \in a..b : i \in FailedSteps <=> Errs(Steps[i])
        BY <1>2 DEF FailedSteps
      <3>2. a # 1 => (a - 1 \in FailedSteps <=> Errs(Steps[a - 1]))
        BY <1>2 DEF FailedSteps
      <3>3. b - a + 1 >= MaxCycles => a \in a..b
        BY <1>2, <2>0
      <3> QED
        BY <3>1, <3>2, <3>3 DEF Failing
    <2>2. ScanErrorCycles = {x \in Indices \X Indices : Failing(FailedSteps, MaxCycles, x[1], x[2])}
      BY CyclesFound
    <2> QED
      BY <2>1, <2>2 DEF CycleSpans, Indices
  <1>6. \A x \in ScanContextForgetting : x[2] - x[1] > Gap /\ Steps[x[1]].call = Steps[x[2]].call
    BY QueriesFound
  <1> QED
    BY <1>3, <1>4, <1>5, <1>6 DEF ScansRight

\* What a failure is put down to.
Suspects ==
  [category : {"model_capability", "deadlock_or_stall", "protocol_violation", "environment_error"},
   confidence : 0..100, step : Indices]

\* Causes have a confidence and a step.
LEMMA CausesAre ==
    ASSUME NEW anomalies \in SUBSET Report
    PROVE  Causes(anomalies) \subseteq Suspects
  <1> DEFINE Cs == {"model_capability", "deadlock_or_stall", "protocol_violation", "environment_error"}
             Of(types, category, confidence) ==
               {[category |-> category, confidence |-> confidence, step |-> a.from] :
                  a \in {x \in anomalies : x.type \in types /\
                           \A y \in anomalies : y.type \in types => x.at <= y.at}}
             Told(sign, category, confidence) ==
               {[category |-> category, confidence |-> confidence, step |-> i] :
                  i \in {j \in Indices : Steps[j].sign = sign}}
             invalid == {Steps[a.at].call : a \in {x \in anomalies : x.type = "tool_hallucination"}}
             Unknown == \E i \in Indices :
               /\ Steps[i].call \in invalid \ KnownCalls
               /\ \A j \in 1..(i - 1) : Steps[j].call \in KnownCalls \cup {None} /\ Steps[j].sign # "no tool"
             sure == IF Unknown THEN 99 ELSE 85
             A == Of({"infinite_retry_loop"}, "model_capability", 95)
             B == Of({"tool_hallucination"}, "model_capability", sure)
             C == Of({"stalled_execution"}, "deadlock_or_stall", 90)
             D == Of({"format_drift"}, "protocol_violation", 80)
             E == Told("environment", "environment_error", 92)
             F == Told("model", "model_capability", 85)
  <1>1. Causes(anomalies) = UNION {A, B, C, D, E, F}
    BY DEF Causes
  <1>2. ASSUME NEW types, NEW category \in Cs, NEW confidence \in 0..100
        PROVE  Of(types, category, confidence) \subseteq Suspects
    <2>1. \A a \in anomalies : [category |-> category, confidence |-> confidence, step |-> a.from] \in Suspects
      BY DEF Report, Suspects
    <2> QED
      BY <2>1
  <1>3. ASSUME NEW sign, NEW category \in Cs, NEW confidence \in 0..100
        PROVE  Told(sign, category, confidence) \subseteq Suspects
    <2>1. \A i \in Indices : [category |-> category, confidence |-> confidence, step |-> i] \in Suspects
      BY DEF Suspects
    <2> QED
      BY <2>1
  <1>4. sure \in 0..100
    <2> HIDE DEF Unknown
    <2> QED
      OBVIOUS
  <1> HIDE DEF sure, Of, Told
  <1>5. 95 \in 0..100 /\ 90 \in 0..100 /\ 80 \in 0..100 /\ 92 \in 0..100 /\ 85 \in 0..100
    OBVIOUS
  <1>6. /\ A \subseteq Suspects /\ B \subseteq Suspects /\ C \subseteq Suspects
        /\ D \subseteq Suspects /\ E \subseteq Suspects /\ F \subseteq Suspects
    BY <1>2, <1>3, <1>4, <1>5
  <1> HIDE DEF A, B, C, D, E, F
  <1> QED
    BY <1>1, <1>6

\* A failure has a cause and a success has none (classifyFailure).
LEMMA ClassifiedAs ==
    ASSUME NEW anomalies \in SUBSET Report, NEW outcome \in {"success", "failure"},
           Steps \in Seq(StepKinds)
    PROVE  (Classified(outcome, anomalies) = "none") <=> (outcome = "success")
  <1> DEFINE causes == Causes(anomalies)
             Top == {c \in causes : \A d \in causes : d.confidence <= c.confidence}
             first == CHOOSE c \in Top : \A d \in Top : c.step <= d.step
  <1>1. causes \subseteq Suspects
    BY CausesAre
  <1>2. Indices \subseteq Nat
    BY LoopsFound DEF Indices
  <1>3. CASE outcome = "success"
    BY <1>3 DEF Classified
  <1>4. CASE outcome # "success" /\ causes = {}
    BY <1>4 DEF Classified
  <1>5. CASE outcome # "success" /\ causes # {}
    <2>1. Classified(outcome, anomalies) = first.category
      BY <1>5 DEF Classified
    <2> HIDE DEF causes
    <2>2. \A c \in causes : /\ c.confidence \in 0..100 /\ c.step \in Nat
                            /\ c.category # "none"
      BY <1>1, <1>2 DEF Suspects
    <2>3. Top # {}
      <3> DEFINE T == {c.confidence : c \in causes}
      <3>1. T \subseteq 0..100 /\ T # {}
        BY <1>5, <2>2
      <3> HIDE DEF T
      <3>2. PICK x \in T : \A y \in T : y <= x
        BY <3>1, GreatestOf
      <3>3. PICK c \in causes : x = c.confidence
        BY DEF T
      <3>4. \A d \in causes : d.confidence <= c.confidence
        BY <3>2, <3>3 DEF T
      <3> QED
        BY <3>4
    <2>4. \E c \in Top : \A d \in Top : c.step <= d.step
      <3> DEFINE T == {c.step : c \in Top}
      <3>1. T \subseteq Nat /\ T # {}
        BY <2>2, <2>3
      <3> HIDE DEF T
      <3>2. PICK x \in T : \A y \in T : x <= y
        BY <3>1, LeastOf
      <3>3. PICK c \in Top : x = c.step
        BY DEF T
      <3>4. \A d \in Top : c.step <= d.step
        BY <3>2, <3>3 DEF T
      <3> QED
        BY <3>4
    <2>5. first \in causes
      BY <2>4
    <2> HIDE DEF first
    <2> QED
      BY <1>5, <2>1, <2>2, <2>5
  <1> QED
    BY <1>3, <1>4, <1>5

\* There are finitely many anomalies.
LEMMA AnomaliesAreFinite ==
    ASSUME Steps \in Seq(StepKinds)
    PROVE  IsFiniteSet(DetectAnomalies) /\ IsFiniteSet(Indices)
  <1>1. IsFiniteSet(Indices)
    BY LoopsFound, FS_Interval DEF Indices
  <1>2. IsFiniteSet(Types) /\ IsFiniteSet(Severities)
    <2>1. IsFiniteSet({}) /\ \A S, x : IsFiniteSet(S) => IsFiniteSet(S \cup {x})
      BY FS_EmptySet, FS_AddElement
    <2>2. Types = (((((({} \cup {"infinite_retry_loop"}) \cup {"unhandled_error_cycle"})
                     \cup {"stalled_execution"}) \cup {"tool_hallucination"}) \cup {"format_drift"})
                     \cup {"oscillating_edits"}) \cup {"context_forgetting"}
      BY DEF Types
    <2>3. Severities = ((({} \cup {"critical"}) \cup {"high"}) \cup {"medium"}) \cup {"low"}
      BY DEF Severities
    <2> QED
      BY <2>1, <2>2, <2>3
  <1> DEFINE P == (Types \X Severities) \X (Indices \X Indices)
             R == [p \in P |-> [type |-> p[1][1], severity |-> p[1][2], from |-> p[2][1], at |-> p[2][2]]]
  <1>3. IsFiniteSet(P)
    BY <1>1, <1>2, FS_Product
  <1>4. DOMAIN R = P
    OBVIOUS
  <1>5. IsFiniteSet({R[p] : p \in DOMAIN R})
    <2> HIDE DEF R, P
    <2> QED
      BY <1>3, <1>4, ImageIsFinite
  <1>6. Report \subseteq {R[p] : p \in DOMAIN R}
    <2> SUFFICES ASSUME NEW r \in Report PROVE r \in {R[p] : p \in DOMAIN R}
      OBVIOUS
    <2> DEFINE p == <<<<r.type, r.severity>>, <<r.from, r.at>>>>
    <2>1. p \in P
      BY DEF Report
    <2>2. R[p] = [type |-> r.type, severity |-> r.severity, from |-> r.from, at |-> r.at]
      BY <2>1
    <2>3. r = [type |-> r.type, severity |-> r.severity, from |-> r.from, at |-> r.at]
      BY DEF Report
    <2> HIDE DEF p, R, P
    <2> QED
      BY <1>4, <2>1, <2>2, <2>3
  <1>7. DetectAnomalies \subseteq Report
    BY AnomaliesAre
  <1> HIDE DEF R
  <1> QED
    BY <1>1, <1>5, <1>6, <1>7, FS_Subset

\* What a diagnosis of these steps must say.
DiagnosisRight(steps, outcome, anomalies, cause, health) ==
  /\ (cause = "none") <=> (outcome = "success")
  /\ health \in 0..(IF outcome = "success" THEN 100 ELSE 50)
  /\ health = 100 =>
       /\ anomalies = {} /\ outcome = "success"
       /\ Cardinality({i \in DOMAIN steps : Errs(steps[i]) \/ steps[i].error = "soft"}) = 0

\* A share of repetitions, rounded, is a natural number.
LEMMA ShareIsNatural ==
    ASSUME NEW p \in Nat, NEW q \in Nat \ {0}
    PROVE  p \div q \in Nat
  OBVIOUS

\* Health is at most what the outcome allows, and whole only without a flaw.
LEMMA HealthIsRight ==
    ASSUME Steps \in Seq(StepKinds), NEW outcome \in {"success", "failure"}
    PROVE  /\ HealthScore(outcome, DetectAnomalies) \in 0..(IF outcome = "success" THEN 100 ELSE 50)
           /\ HealthScore(outcome, DetectAnomalies) = 100 =>
                DetectAnomalies = {} /\ ErrorCount = 0 /\ outcome = "success"
  <1> DEFINE f == [a \in DetectAnomalies |-> Penalty(a)]
             penalties == SumFunction(f)
             base == IF outcome = "success" THEN 100 ELSE 50
             d == Cardinality(Duplicates)
             k == Cardinality(Calls)
             retry == IF Calls = {} THEN 0 ELSE (40 * d + k) \div (2 * k)
             score == base - penalties - 3 * ErrorCount - retry
  <1>1. IsFiniteSet(DetectAnomalies) /\ IsFiniteSet(Indices) /\ DetectAnomalies \subseteq Report
    BY AnomaliesAreFinite, AnomaliesAre
  <1>2. /\ DOMAIN f = DetectAnomalies
        /\ \A a \in DetectAnomalies : f[a] \in Nat /\ f[a] >= 4
    <2>1. \A a \in DetectAnomalies : Penalty(a) \in {4, 8, 15, 25}
      BY <1>1 DEF Penalty, Report, Severities
    <2> QED
      BY <2>1
  <1>3. penalties = Total(f, DetectAnomalies)
    <2> HIDE DEF f
    <2> QED
      BY <1>2 DEF SumFunction, SumFunctionOnSet, FoldFunctionOnSet, Total, MapThenSumSet
  <1> HIDE DEF f, penalties
  <1>4. penalties \in Nat /\ \A a \in DetectAnomalies : f[a] <= penalties
    BY <1>1, <1>2, <1>3, TotalIsNatural
  <1>5. ErrorCount \in Nat
    <2>1. {i \in Indices : Errs(Steps[i]) \/ Steps[i].error = "soft"} \subseteq Indices
      OBVIOUS
    <2> QED
      BY <1>1, <2>1, FS_Subset, FS_CardinalityType DEF ErrorCount
  <1>6. retry \in Nat
    <2>1. Calls \subseteq Indices /\ Duplicates \subseteq Indices
      BY DEF Calls, Duplicates
    <2>2. IsFiniteSet(Calls) /\ IsFiniteSet(Duplicates)
      BY <1>1, <2>1, FS_Subset
    <2>3. d \in Nat /\ k \in Nat /\ (Calls # {} => k # 0)
      BY <2>2, FS_CardinalityType, FS_EmptySet
    <2> HIDE DEF d, k
    <2>4. 40 * d + k \in Nat /\ (Calls # {} => 2 * k \in Nat \ {0})
      BY <2>3
    <2>5. CASE Calls # {}
      BY <2>4, <2>5, ShareIsNatural
    <2> QED
      BY <2>5
  <1>7. score \in Int /\ score <= base /\ base \in {50, 100}
    <2> HIDE DEF retry
    <2> QED
      BY <1>4, <1>5, <1>6
  <1>8. HealthScore(outcome, DetectAnomalies) = Max({0, Min({100, score})})
    BY DEF HealthScore, penalties, f
  <1>9. score = 100 => penalties = 0 /\ ErrorCount = 0 /\ base = 100
    <2> HIDE DEF retry
    <2> QED
      BY <1>4, <1>5, <1>6
  <1>10. penalties = 0 => DetectAnomalies = {}
    BY <1>2, <1>4
  <1>11. base = 100 <=> outcome = "success"
    OBVIOUS
  <1> HIDE DEF score, base
  <1>12. Min({100, score}) = IF 100 <= score THEN 100 ELSE score
    BY <1>7, OfTwo
  <1>13. Min({100, score}) \in Int
    BY <1>7, <1>12
  <1>14. Max({0, Min({100, score})}) = IF 0 >= Min({100, score}) THEN 0 ELSE Min({100, score})
    <2>1. PICK m \in Int : m = Min({100, score})
      BY <1>13
    <2>2. Max({0, m}) = IF 0 >= m THEN 0 ELSE m
      <3>1. PICK z \in Int : z = 0
        OBVIOUS
      <3>2. Max({z, m}) = IF z >= m THEN z ELSE m
        BY ONLY OfTwo
      <3> QED
        BY <3>1, <3>2
    <2> QED
      BY <2>1, <2>2
  <1>15. /\ HealthScore(outcome, DetectAnomalies) \in 0..base
         /\ HealthScore(outcome, DetectAnomalies) = 100 => score = 100
    BY <1>7, <1>8, <1>12, <1>14
  <1> QED
    BY <1>9, <1>10, <1>11, <1>15 DEF base

\* What a finished trail reports is right of its steps.
TrailInv ==
  /\ DOMAIN trail = {"steps", "anomalies", "outcome", "cause", "health"}
  /\ trail.steps \in Seq(StepKinds)
  /\ trail.outcome # None =>
       /\ ScansRight(trail.steps, trail.anomalies)
       /\ DiagnosisRight(trail.steps, trail.outcome, trail.anomalies, trail.cause, trail.health)

\* The properties of a trail follow from it.
LEMMA TrailShows == TrailInv => ScansMeetDefinition /\ DiagnosisFits
  <1> SUFFICES ASSUME TrailInv, trail.outcome # None PROVE ScansMeetDefinition /\ DiagnosisFits
    BY DEF ScansMeetDefinition, DiagnosisFits
  <1>1. /\ ScansRight(Steps, trail.anomalies)
        /\ DiagnosisRight(Steps, trail.outcome, trail.anomalies, trail.cause, trail.health)
    BY DEF TrailInv, Steps
  <1>2. /\ Found("infinite_retry_loop") = Places(trail.anomalies, "infinite_retry_loop")
        /\ Found("unhandled_error_cycle") = Places(trail.anomalies, "unhandled_error_cycle")
        /\ Found("context_forgetting") = Places(trail.anomalies, "context_forgetting")
    BY DEF Found, Places
  <1>3. /\ Found("infinite_retry_loop") = LoopSpans(Steps)
        /\ Found("unhandled_error_cycle") = CycleSpans(Steps)
        /\ \A x \in Found("context_forgetting") :
             x[2] - x[1] > Gap /\ Steps[x[1]].call = Steps[x[2]].call
    BY <1>1, <1>2 DEF ScansRight
  <1>4. ScansMeetDefinition
    BY <1>3 DEF ScansMeetDefinition, LoopSpans, CycleSpans, Indices
  <1>5. DiagnosisFits
    BY <1>1 DEF DiagnosisFits, DiagnosisRight, ErrorCount, Indices
  <1> QED
    BY <1>4, <1>5

\* A trail that begins has no steps.
LEMMA TrailStarts == TrajectoryInit => TrailInv
  <1> SUFFICES ASSUME TrajectoryInit PROVE TrailInv
    OBVIOUS
  <1>1. /\ DOMAIN trail = {"steps", "anomalies", "outcome", "cause", "health"}
        /\ trail.steps = <<>> /\ trail.outcome = None
    BY DEF TrajectoryInit
  <1>2. trail.steps \in Seq(StepKinds)
    BY <1>1, EmptySeq
  <1> QED
    BY <1>1, <1>2 DEF TrailInv

\* Steps are recorded, and the summary of them is right
\* (generateDiagnosticSummary).
LEMMA TrailKeeps == TrailInv /\ TrajectoryNext => TrailInv'
  <1> SUFFICES ASSUME TrailInv, TrajectoryNext PROVE TrailInv'
    OBVIOUS
  <1> DEFINE Fields == {"steps", "anomalies", "outcome", "cause", "health"}
  <1>0. DOMAIN trail = Fields /\ trail.steps \in Seq(StepKinds)
    BY DEF TrailInv
  <1>1. CASE RecordStep
    <2>1. PICK step \in StepKinds : trail' = [trail EXCEPT !.steps = Append(@, step)]
      BY <1>1 DEF RecordStep
    <2> DEFINE steps == Append(trail.steps, step)
    <2>2. trail' = [trail EXCEPT !.steps = steps] /\ trail.outcome = None
      BY <1>1, <2>1 DEF RecordStep
    <2>3. steps \in Seq(StepKinds)
      BY <1>0, AppendProperties
    <2> HIDE DEF steps
    <2>4. DOMAIN trail' = Fields /\ trail'.steps = steps /\ trail'.outcome = None
      BY <1>0, <2>2
    <2> QED
      BY <2>3, <2>4 DEF TrailInv
  <1>2. CASE GenerateDiagnosticSummary
    <2>1. PICK outcome \in {"success", "failure"} :
            trail' = [trail EXCEPT !.outcome = outcome, !.anomalies = DetectAnomalies,
                        !.cause = Classified(outcome, DetectAnomalies),
                        !.health = HealthScore(outcome, DetectAnomalies)]
      BY <1>2 DEF GenerateDiagnosticSummary
    <2> DEFINE anomalies == DetectAnomalies
               cause == Classified(outcome, anomalies)
               health == HealthScore(outcome, anomalies)
    <2>2. Steps \in Seq(StepKinds) /\ Steps = trail.steps
      BY <1>0 DEF Steps
    <2>3. ScansRight(Steps, anomalies)
      BY <2>2, ScansAreRight
    <2>4. DiagnosisRight(Steps, outcome, anomalies, cause, health)
      <3>1. anomalies \in SUBSET Report
        BY <2>2, AnomaliesAre
      <3>2. (cause = "none") <=> (outcome = "success")
        <4> HIDE DEF anomalies
        <4> QED
          BY <2>2, <3>1, ClassifiedAs
      <3>3. /\ health \in 0..(IF outcome = "success" THEN 100 ELSE 50)
            /\ health = 100 => anomalies = {} /\ ErrorCount = 0 /\ outcome = "success"
        BY <2>2, HealthIsRight
      <3> HIDE DEF anomalies, cause, health
      <3> QED
        BY <3>2, <3>3 DEF DiagnosisRight, ErrorCount, Indices
    <2>5. trail' = [trail EXCEPT !.outcome = outcome, !.anomalies = anomalies,
                                 !.cause = cause, !.health = health]
      BY <2>1
    <2> HIDE DEF anomalies, cause, health
    <2>6. /\ DOMAIN trail' = Fields /\ trail'.steps = trail.steps /\ trail'.outcome = outcome
          /\ trail'.anomalies = anomalies /\ trail'.cause = cause /\ trail'.health = health
      BY <1>0, <2>5
    <2>7. /\ ScansRight(trail'.steps, trail'.anomalies)
          /\ DiagnosisRight(trail'.steps, trail'.outcome, trail'.anomalies, trail'.cause, trail'.health)
      BY <2>2, <2>3, <2>4, <2>6
    <2> QED
      BY <1>0, <2>6, <2>7 DEF TrailInv
  <1> QED
    BY <1>1, <1>2 DEF TrajectoryNext
-----------------------------------------------------------------------------
\* The summary of the samples stays within what was sampled, diagnostics keep
\* the error they are for, and the scans of a trajectory and its diagnosis are
\* what they are defined to be (computeMetricsSummary, captureDiagnostics,
\* detectAnomalies, classifyFailure).
THEOREM FindingsStand == Spec => []FindingsHold
  <1> DEFINE Inv == /\ probe # Off => ProbeInv
                    /\ trail # Off => TrailInv
  <1>1. Init => Inv
    BY ProbeStarts, TrailStarts DEF Init
  <1>2. Inv /\ [Next]_vars => Inv'
    <2>1. ASSUME probe # Off => ProbeInv, UNCHANGED probe PROVE (probe # Off => ProbeInv)'
      BY <2>1 DEF ProbeInv, ProfileOK, DiagnosisOK
    <2>2. ASSUME trail # Off => TrailInv, UNCHANGED trail PROVE (trail # Off => TrailInv)'
      BY <2>2 DEF TrailInv
    <2>3. ASSUME probe # Off => ProbeInv, probe # Off /\ TelemetryNext PROVE (probe # Off => ProbeInv)'
      BY <2>3, ProbeKeeps
    <2>4. ASSUME trail # Off => TrailInv, trail # Off /\ TrajectoryNext PROVE (trail # Off => TrailInv)'
      BY <2>4, TrailKeeps
    <2>5. ASSUME Inv, [Next]_vars
          PROVE  /\ UNCHANGED probe \/ (probe # Off /\ TelemetryNext)
                 /\ UNCHANGED trail \/ (trail # Off /\ TrajectoryNext)
      BY <2>5 DEF Next, vars
    <2> QED
      BY <2>1, <2>2, <2>3, <2>4, <2>5
  <1>3. Inv => FindingsHold
    BY ProbeInvShows, TrailShows DEF FindingsHold
  <1> QED
    BY <1>1, <1>2, <1>3, PTL DEF Spec
=============================================================================
