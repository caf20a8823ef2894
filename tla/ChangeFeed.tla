------------------------------ MODULE ChangeFeed -----------------------------
(***************************************************************************)
(* The live change feed of one server process: realtime/change-feed.ts with *)
(* its subscribers, the browser streams of api/v1/events/route.ts, and what *)
(* components/layout/live-updates.tsx does with their events.               *)
(*                                                                         *)
(* Node runs one callback at a time, so a step is the code between two     *)
(* awaits.  A screen is current while it has heard of every change that    *)
(* was committed since it was opened; the event of any later change, or a  *)
(* resync, makes it read everything again.                                 *)
(***************************************************************************)
EXTENDS Naturals, FiniteSets

CONSTANTS
    Screen,         \* open pages, each with one event stream
    MaxFailures,    \* bound: connection attempts that fail
    MaxLosses       \* bound: listening connections that are lost

ASSUME FeedAssumption ==
    /\ MaxFailures \in Nat
    /\ MaxLosses \in Nat

VARIABLES
    subscribers,        \* the streams of the process
    client,             \* whether this.client is set
    connecting,         \* where the promise this.connecting is, "none" if null
    reconnectTimer,     \* whether the timer is set
    hadConnectionLoss,
    served,             \* subscribers that have been on a working feed
    missedFirst,        \* screens that missed a change before they were served
    missedLater,        \* screens that missed a change after that
    failures,           \* attempts that failed so far
    losses              \* connections lost so far

feedVars == <<subscribers, client, connecting, reconnectTimer, hadConnectionLoss,
          served, missedFirst, missedLater, failures, losses>>
screens == <<served, missedFirst, missedLater>>
bounds == <<failures, losses>>

\* The awaits of connect(): pg's connect and LISTEN, the end() of an attempt
\* that failed, and the end() of one that found nobody left.
Await == {"none", "opening", "failing", "leaving"}

FeedTypeOK ==
    /\ subscribers \subseteq Screen
    /\ client \in BOOLEAN
    /\ connecting \in Await
    /\ reconnectTimer \in BOOLEAN
    /\ hadConnectionLoss \in BOOLEAN
    /\ served \subseteq subscribers
    /\ missedFirst \subseteq subscribers
    /\ missedLater \subseteq served
    /\ failures \in 0..MaxFailures
    /\ losses \in 0..MaxLosses
    /\ client => connecting = "none"    \* "ONE listening connection per process"

FeedInit ==
    /\ subscribers = {}
    /\ client = FALSE
    /\ connecting = "none"
    /\ reconnectTimer = FALSE
    /\ hadConnectionLoss = FALSE
    /\ served = {}
    /\ missedFirst = {}
    /\ missedLater = {}
    /\ failures = 0
    /\ losses = 0

-----------------------------------------------------------------------------
(***************************************************************************)
(* Screens come and go.                                                    *)
(***************************************************************************)

\* ensureConnected: a connection or an attempt that exists is shared.
EnsureConnected ==
    connecting' = IF ~client /\ connecting = "none" THEN "opening" ELSE connecting

Subscribe(b) ==
    /\ b \notin subscribers
    /\ subscribers' = subscribers \cup {b}
    /\ served' = IF client THEN served \cup {b} ELSE served
    /\ EnsureConnected
    /\ UNCHANGED <<client, reconnectTimer, hadConnectionLoss, missedFirst, missedLater, bounds>>

\* disconnect: an attempt under way is not told.
Disconnect ==
    /\ client' = FALSE
    /\ reconnectTimer' = FALSE
    /\ hadConnectionLoss' = FALSE

\* The page is closed, or the heartbeat finds that the session ended.
Unsubscribe(b) ==
    /\ b \in subscribers
    /\ subscribers' = subscribers \ {b}
    /\ served' = served \ {b}
    /\ missedFirst' = missedFirst \ {b}
    /\ missedLater' = missedLater \ {b}
    /\ IF subscribers' = {} THEN Disconnect
       ELSE UNCHANGED <<client, reconnectTimer, hadConnectionLoss>>
    /\ UNCHANGED <<connecting, bounds>>

-----------------------------------------------------------------------------
(***************************************************************************)
(* connect() and the reconnect timer.                                      *)
(***************************************************************************)

\* Mutant of SomebodyIsLeft: connect() does not look at the subscribers again.
SomebodyWasThere == TRUE

SomebodyIsLeft == subscribers # {}

\* LISTEN succeeded: after a loss every screen is told to read everything again.
Connected ==
    /\ connecting = "opening"
    /\ SomebodyIsLeft
    /\ connecting' = "none"
    /\ client' = TRUE
    /\ hadConnectionLoss' = FALSE
    /\ IF hadConnectionLoss
       THEN missedFirst' = {} /\ missedLater' = {}
       ELSE UNCHANGED <<missedFirst, missedLater>>
    /\ served' = subscribers
    /\ UNCHANGED <<subscribers, reconnectTimer, bounds>>

\* Everyone left while the attempt was under way.
EveryoneLeft ==
    /\ connecting = "opening"
    /\ ~SomebodyIsLeft
    /\ connecting' = "leaving"
    /\ UNCHANGED <<subscribers, client, reconnectTimer, hadConnectionLoss, screens, bounds>>

Ended ==
    /\ connecting = "leaving"
    /\ connecting' = "none"
    /\ UNCHANGED <<subscribers, client, reconnectTimer, hadConnectionLoss, screens, bounds>>

ConnectFails ==
    /\ connecting = "opening"
    /\ failures < MaxFailures
    /\ failures' = failures + 1
    /\ connecting' = "failing"
    /\ UNCHANGED <<subscribers, client, reconnectTimer, hadConnectionLoss, screens, losses>>

\* Mutant of ScheduleReconnect: a new attempt needs a new subscriber.
ScheduleNothing == UNCHANGED reconnectTimer

\* scheduleReconnect: nothing to do for nobody, and one timer at a time.
ScheduleReconnect == reconnectTimer' = (reconnectTimer \/ subscribers # {})

GaveUp ==
    /\ connecting = "failing"
    /\ connecting' = "none"
    /\ ScheduleReconnect
    /\ hadConnectionLoss' = (hadConnectionLoss \/ (~reconnectTimer /\ subscribers # {}))
    /\ UNCHANGED <<subscribers, client, screens, bounds>>

\* Mutant of LossNoticed: only a failed attempt counts as a loss.
LossUnnoticed == hadConnectionLoss

LossNoticed == TRUE

\* onConnectionLost, from the error or end event of this.client.
ConnectionLost ==
    /\ client
    /\ losses < MaxLosses
    /\ losses' = losses + 1
    /\ client' = FALSE
    /\ hadConnectionLoss' = LossNoticed
    /\ ScheduleReconnect
    /\ UNCHANGED <<subscribers, connecting, screens, failures>>

TimerFires ==
    /\ reconnectTimer
    /\ reconnectTimer' = FALSE
    /\ EnsureConnected
    /\ UNCHANGED <<subscribers, client, hadConnectionLoss, screens, bounds>>

\* A transaction commits: margix_changes reaches whoever listens.
Change ==
    /\ missedFirst' = IF client THEN {} ELSE missedFirst \cup (subscribers \ served)
    /\ missedLater' = IF client THEN {} ELSE missedLater \cup served
    /\ UNCHANGED <<subscribers, client, connecting, reconnectTimer, hadConnectionLoss, served, bounds>>

FeedNext ==
    \/ \E b \in Screen : Subscribe(b) \/ Unsubscribe(b)
    \/ Connected
    \/ EveryoneLeft
    \/ Ended
    \/ ConnectFails
    \/ GaveUp
    \/ ConnectionLost
    \/ TimerFires
    \/ Change

\* An attempt ends, a timer fires, an end() returns; nobody has to open or close
\* a page, and no connection has to break.
Fairness ==
    /\ WF_feedVars(Connected \/ EveryoneLeft \/ ConnectFails)
    /\ WF_feedVars(Ended)
    /\ WF_feedVars(GaveUp)
    /\ WF_feedVars(TimerFires)

FeedSpec == FeedInit /\ [][FeedNext]_feedVars /\ Fairness

-----------------------------------------------------------------------------
(***************************************************************************)
(* Properties.                                                             *)
(***************************************************************************)

\* While nobody watches, the process holds no listening connection and no
\* reconnect timer, whichever way connecting, leaving and losing the connection
\* overlap (disconnect, "Everyone left while we were connecting").
IdleWhenUnwatched == subscribers = {} => (~client /\ ~reconnectTimer)

\* Once the feed is back after a loss, no screen that was on it before still
\* misses a change that was committed meanwhile: the resync reached them all
\* (hadConnectionLoss, over losses, failed attempts, newcomers and leavers).
ResyncAfterLoss == client => missedLater = {}

\* A screen that stays open gets a lost feed back (onConnectionLost,
\* scheduleReconnect), whoever else comes and goes.
LostFeedComesBack ==
    \A b \in Screen : (b \in served) ~> (client \/ b \notin subscribers)

\* "holds ONE listening connection per process and fans each notification out
\* to the subscribers" (change-feed.ts:8): a stream that stays open gets a feed.
SubscribersGetAFeed ==
    \A b \in Screen : (b \in subscribers) ~> (client \/ b \notin subscribers)
==============================================================================
