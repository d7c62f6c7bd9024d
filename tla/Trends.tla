------------------------------- MODULE Trends -------------------------------
(***************************************************************************)
(* The live half of the interactive view: the feed thread keeps one Watch  *)
(* stream open and passes what it reads through a channel, and the view    *)
(* takes it in and turns it into rates and trends (tui.rs spawn_feed,      *)
(* App::tick, on_chunk, live_measures and Measure::add, client.rs          *)
(* WatchStream).                                                           *)
(*                                                                         *)
(* Bytes are one number per flow: the two directions are treated alike.    *)
(* Flow::session, a sum that nothing resets, is left out.                  *)
(***************************************************************************)
EXTENDS Integers, Sequences, FiniteSets, Functions

CONSTANTS
    Key,           \* records [id, scope]: the flows there ever are
    Traffic,       \* records [bytes, ms]: what one chunk may say
    TrendTicks,    \* TREND_TICKS
    RateTicks,     \* RATE_TICKS
    ChannelCap     \* bound: messages in the channel

ASSUME TrendsAssumption ==
    /\ Key \subseteq [id : {k.id : k \in Key}, scope : {"external", "loopback"}]
    /\ \A t \in Traffic : /\ t.ms \in Nat /\ DOMAIN t.bytes \subseteq Key
                          /\ \A k \in DOMAIN t.bytes : t.bytes[k] \in Nat
    /\ TrendTicks \in Nat \ {0} /\ RateTicks \in Nat \ {0} /\ ChannelCap \in Nat \ {0}

VARIABLES
    daemon,        \* whether the daemon runs
    feed,          \* where the thread of spawn_feed is
    described,     \* the identities the open stream has described so far
    channel,       \* the messages between the thread and the view
    open,          \* whether the view is open
    live,          \* App.live
    identities,    \* App.identities
    flows,         \* App.flows: the samples of the flows seen, newest last
    intervals,     \* App.intervals, newest last
    latest         \* history: the latest TrendTicks chunks taken in

thread == <<feed, described, channel>>
app == <<live, identities, flows, intervals, latest>>
vars == <<daemon, thread, open, app>>

Ids(K) == {k.id : k \in K}
Down == [kind |-> "down"]

Init ==
    /\ daemon \in {"up", "down"}
    /\ feed = "connecting" /\ described = {} /\ channel = <<>>
    /\ open = TRUE
    /\ live = "connecting" /\ identities = {}
    /\ flows = [k \in {} |-> <<>>]
    /\ intervals = <<>> /\ latest = <<>>

-----------------------------------------------------------------------------
(* The daemon, and the user. *)

Stops == daemon = "up" /\ daemon' = "down" /\ UNCHANGED <<thread, open, app>>
Starts == daemon = "down" /\ daemon' = "up" /\ UNCHANGED <<thread, open, app>>

(* The view is closed and its end of the channel dropped. *)
Quit ==
    /\ open /\ open' = FALSE /\ channel' = <<>>
    /\ UNCHANGED <<daemon, feed, described, app>>

-----------------------------------------------------------------------------
(* The feed thread.  A send to a view that is closed ends it. *)

Send(message, next) ==
    IF open THEN channel' = Append(channel, message) /\ feed' = next
            ELSE feed' = "done" /\ UNCHANGED channel

(* A connection is made and Watch sent on it: a stream that has described  *)
(* no identity yet.                                                        *)
Connects ==
    /\ feed = "connecting" /\ daemon = "up"
    /\ feed' = "streaming" /\ described' = {}
    /\ UNCHANGED <<daemon, channel, open, app>>

(* The next chunk.  It describes the identities of its rows that the       *)
(* stream has not described before; what was sent before the daemon went   *)
(* away can still be read.                                                 *)
Reads(t) ==
    /\ feed = "streaming" /\ Len(channel) < ChannelCap
    /\ Send([kind |-> "chunk", bytes |-> t.bytes, ms |-> t.ms,
             identities |-> Ids(DOMAIN t.bytes) \ described], "streaming")
    /\ described' = described \cup Ids(DOMAIN t.bytes)
    /\ UNCHANGED <<daemon, open, app>>

(* Bug: a stream that ends is not opened again. *)
FailsForGood ==
    /\ feed \in {"connecting", "streaming"} /\ Len(channel) < ChannelCap
    /\ Send(Down, IF feed = "connecting" THEN "sleeping" ELSE "done")
    /\ UNCHANGED <<daemon, described, open, app>>

(* No connection, or the stream ends: End, Error, a frame that is not a    *)
(* chunk, or the connection is closed.                                     *)
Fails ==
    /\ feed \in {"connecting", "streaming"} /\ Len(channel) < ChannelCap
    /\ Send(Down, "sleeping")
    /\ UNCHANGED <<daemon, described, open, app>>

(* After RECONNECT. *)
Wakes ==
    /\ feed = "sleeping" /\ feed' = "connecting"
    /\ UNCHANGED <<daemon, described, channel, open, app>>

-----------------------------------------------------------------------------
(* The view: the loop over try_recv, one message a step. *)

(* Bug: one sample too many is kept. *)
PushOneMore(samples, sample) ==
    Append(IF Len(samples) > TrendTicks THEN Tail(samples) ELSE samples, sample)

PushCapped(samples, sample) ==
    Append(IF Len(samples) = TrendTicks THEN Tail(samples) ELSE samples, sample)

AtLeastOne(n) == IF n = 0 THEN 1 ELSE n
BytesOf(chunk, k) == IF k \in DOMAIN chunk.bytes THEN chunk.bytes[k] ELSE 0
Samples(k) == IF k \in DOMAIN flows THEN flows[k] ELSE <<>>
LastOf(n, s) == SubSeq(s, IF Len(s) > n THEN Len(s) - n + 1 ELSE 1, Len(s))

(* on_chunk: every flow gets a sample, those that sent nothing too. *)
TakeChunk ==
    /\ open /\ channel # <<>> /\ Head(channel).kind = "chunk"
    /\ LET chunk == Head(channel)
       IN  /\ identities' = identities \cup chunk.identities
           /\ flows' = [k \in DOMAIN flows \cup DOMAIN chunk.bytes |->
                           PushCapped(Samples(k), BytesOf(chunk, k))]
           /\ intervals' = PushCapped(intervals, AtLeastOne(chunk.ms))
           /\ latest' = LastOf(TrendTicks,
                               Append(latest, [bytes |-> chunk.bytes, ms |-> chunk.ms]))
    /\ live' = "live"
    /\ channel' = Tail(channel)
    /\ UNCHANGED <<daemon, feed, described, open>>

(* Bug: what was learnt over a stream goes with it. *)
TakeDownForgets ==
    /\ open /\ channel # <<>> /\ Head(channel) = Down
    /\ live' = "down" /\ identities' = {}
    /\ channel' = Tail(channel)
    /\ UNCHANGED <<daemon, feed, described, open, flows, intervals, latest>>

TakeDown ==
    /\ open /\ channel # <<>> /\ Head(channel) = Down
    /\ live' = "down"
    /\ channel' = Tail(channel)
    /\ UNCHANGED <<daemon, feed, described, open, identities, flows, intervals, latest>>

-----------------------------------------------------------------------------
(* live_measures: what recompute shows, a function of the state. *)

Rate(bytes, ms) == (bytes * 1000) \div ms
ScopeMatches(scope, k) == scope \in {"all", k.scope}

(* Bug: the samples a flow has are lined up with the oldest intervals. *)
FlowTrendUnpadded(k) ==
    [j \in DOMAIN flows[k] |-> Rate(flows[k][j], intervals[j])]

(* The samples of a flow as rates, aligned to the newest interval. *)
FlowTrend(k) ==
    LET missing == Len(intervals) - Len(flows[k])
    IN  [j \in DOMAIN intervals |->
            IF j <= missing THEN 0 ELSE Rate(flows[k][j - missing], intervals[j])]

(* Measure::add: the shorter list of samples is extended at its new end. *)
Add(a, b) ==
    [j \in 1 .. (IF Len(a) < Len(b) THEN Len(b) ELSE Len(a)) |->
        (IF j <= Len(a) THEN a[j] ELSE 0) + (IF j <= Len(b) THEN b[j] ELSE 0)]

Shown(scope, i) == {k \in DOMAIN flows : k.id = i /\ ScopeMatches(scope, k)}

Trend(scope, i) == FoldFunction(Add, <<>>, [k \in Shown(scope, i) |-> FlowTrend(k)])

CurrentRate(scope, i) ==
    SumFunction([k \in Shown(scope, i) |->
        Rate(SumFunction(LastOf(RateTicks, flows[k])),
             AtLeastOne(SumFunction(LastOf(RateTicks, intervals))))])

-----------------------------------------------------------------------------
Fetch == Connects \/ Fails \/ Wakes \/ \E t \in Traffic : Reads(t)
Take == TakeChunk \/ TakeDown
Next == Stops \/ Starts \/ Quit \/ Fetch \/ Take

Spec == Init /\ [][Next]_vars

(* The thread loops for ever, the daemon sends a chunk at every poll, a    *)
(* closed connection makes the read fail and the view takes in what has    *)
(* come before each frame it draws.                                        *)
Fairness ==
    /\ WF_vars(Connects) /\ WF_vars(Wakes)
    /\ WF_vars(daemon = "up" /\ \E t \in Traffic : Reads(t))
    /\ WF_vars(daemon = "down" /\ Fails)
    /\ WF_vars(Take)

FairSpec == Spec /\ Fairness

-----------------------------------------------------------------------------
(* Properties. *)

Message ==
    {Down} \cup [kind : {"chunk"}, bytes : {t.bytes : t \in Traffic},
                 ms : {t.ms : t \in Traffic}, identities : SUBSET Ids(Key)]

TypeOK ==
    /\ daemon \in {"up", "down"}
    /\ feed \in {"connecting", "streaming", "sleeping", "done"}
    /\ described \subseteq Ids(Key)
    /\ channel \in Seq(Message) /\ open \in BOOLEAN
    /\ live \in {"connecting", "live", "down"}
    /\ identities \subseteq Ids(Key)
    /\ DOMAIN flows \subseteq Key
    /\ \A k \in DOMAIN flows : flows[k] \in Seq(Nat) /\ Len(flows[k]) \in 1 .. TrendTicks
    /\ intervals \in Seq(Nat \ {0}) /\ Len(intervals) <= TrendTicks
    /\ latest \in Seq([bytes : {t.bytes : t \in Traffic}, ms : {t.ms : t \in Traffic}])

(* "Trends stay aligned" (tui.rs:327): whenever a flow was first seen, and *)
(* however often the stream was lost in between, column j of the trend of  *)
(* an identity is what chunk j of the latest ones says it moved, over the  *)
(* length of that interval, and its rate is the average of the newest      *)
(* RATE_TICKS.  No flow has more samples than there are intervals          *)
(* (tui.rs:452 subtracts the two).                                         *)
TrendsAligned ==
    \A k \in DOMAIN flows :
        /\ Len(flows[k]) <= Len(intervals)
        /\ \A scope \in {"external", "loopback", "all"} : ScopeMatches(scope, k) =>
             LET mine == {m \in Key : m.id = k.id /\ ScopeMatches(scope, m)}
                 moved(s, m) == SumFunction([j \in DOMAIN s |-> BytesOf(s[j], m)])
                 time(s) == SumFunction([j \in DOMAIN s |-> AtLeastOne(s[j].ms)])
                 recent == LastOf(RateTicks, latest)
             IN  /\ Trend(scope, k.id) =
                      [j \in DOMAIN latest |->
                          SumFunction([m \in mine |-> Rate(BytesOf(latest[j], m),
                                                           AtLeastOne(latest[j].ms))])]
                 /\ CurrentRate(scope, k.id) =
                      SumFunction([m \in mine |->
                          Rate(moved(recent, m), AtLeastOne(time(recent)))])

(* A stream describes an identity once, and recompute passes over a flow   *)
(* whose identity it does not know: every flow in the header's total is in *)
(* a row, on the first stream and after every reconnect.                   *)
EveryFlowNamed == Ids(DOMAIN flows) \subseteq identities

(* "Follow the daemon's live stream for as long as the view is open,       *)
(* reconnecting if the daemon goes away" (tui.rs:785): once the daemon     *)
(* stays, and streams stop failing, the view is live for good, and once it *)
(* stays away the view says so for good, given that the thread comes to    *)
(* the end of what it can still read of the lost connection: Reads does    *)
(* not bound what is left in it, the code's sockets do.                    *)
FollowsDaemon ==
    /\ (<>[](daemon = "up" /\ open) /\ <>[][~Fails]_vars) => <>[](live = "live")
    /\ <>[](daemon = "down" /\ open /\ feed # "streaming") => <>[](live = "down")

=============================================================================
