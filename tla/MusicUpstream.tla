---------------------------- MODULE MusicUpstream ----------------------------
(***************************************************************************)
(* The demand gate of the music remote's Durable Object                    *)
(* (music-worker/src/music-do.js): extension clients hold hibernatable     *)
(* sockets, their number is persisted as demand, and while it is positive  *)
(* the object keeps one now-playing socket to the dashboard open and an    *)
(* alarm armed to open it again.                                           *)
(*                                                                         *)
(* Opening the upstream is a fetch: it leaves the input gate open, so a    *)
(* handler that has to open it is two steps, and other handlers, which may *)
(* open or close it too, run in between.  Storage operations keep the gate *)
(* closed, so everything else is one step.  Time is left out: an armed     *)
(* alarm fires some time.                                                  *)
(***************************************************************************)
EXTENDS Integers, FiniteSets

CONSTANTS Clients    \* extension clients, by socket

ASSUME FiniteClients == IsFiniteSet(Clients)

VARIABLES
    sockets,    \* SUBSET Clients, what ctx.getWebSockets() returns
    counted,    \* storage key demand: the number of clients
    armed,      \* BOOLEAN, the alarm is set for the upstream's sake
    tracked,    \* BOOLEAN, this.upstream is a live socket
    orphaned,   \* BOOLEAN, an open upstream socket this.upstream no longer names
    accepting,  \* [Clients -> where its upgrade handler awaits, or "no"]
    closing,    \* SUBSET Clients whose close or error handler awaits an open
    pinging,    \* BOOLEAN, a webSocketMessage handler awaits an open
    waking,     \* BOOLEAN, the alarm handler awaits an open
    loaded,     \* BOOLEAN, the object is in memory
    \* History, read by the properties only:
    overlapped  \* BOOLEAN, a handler has run while another awaited an open

storage == <<sockets, counted, armed>>
upstream == <<tracked, orphaned>>
handlers == <<accepting, closing, pinging, waking>>
gateVars == <<storage, upstream, handlers, loaded, overlapped>>

GateInit ==
    /\ sockets = {}
    /\ counted = 0
    /\ armed = FALSE
    /\ tracked = FALSE /\ orphaned = FALSE
    /\ accepting = [c \in Clients |-> "no"]
    /\ closing = {}
    /\ pinging = FALSE /\ waking = FALSE
    /\ loaded = TRUE
    /\ overlapped = FALSE

Opening == (\E c \in Clients : accepting[c] # "no") \/ closing # {} \/ pinging \/ waking
NoteOverlap == overlapped' = (overlapped \/ Opening)

\* reconcileAlarm with an empty command queue, by the demand in storage.
ReconcileUpstream(d) == armed' = (d > 0)

\* closeUpstream.
CloseUpstream == tracked' = FALSE /\ UNCHANGED orphaned

\* openUpstream's end.  Whatever this.upstream named by then is forgotten, not
\* closed: by a second socket, and also by a failure.
OpenUpstream(ok) ==
    /\ orphaned' = (orphaned \/ tracked)
    /\ tracked' = ok

-----------------------------------------------------------------------------
(***************************************************************************)
(* handleWsUpgrade, its ticket redeemed.                                   *)
(***************************************************************************)
\* Mutant: a client served by a live upstream does not set the alarm.
Connect_NotArmed(c) ==
    /\ loaded /\ c \notin sockets /\ c \notin closing /\ accepting[c] = "no"
    /\ sockets' = sockets \cup {c}
    /\ counted' = Cardinality(sockets')
    /\ accepting' = [accepting EXCEPT ![c] = IF tracked THEN "no" ELSE "opening"]
    /\ NoteOverlap
    /\ UNCHANGED <<armed, upstream, closing, pinging, waking, loaded>>

\* Mutant: the demand is counted up instead of counted anew.
Connect_CountsUp(c) ==
    /\ loaded /\ c \notin sockets /\ c \notin closing /\ accepting[c] = "no"
    /\ sockets' = sockets \cup {c}
    /\ counted' = counted + 1
    /\ IF tracked THEN ReconcileUpstream(counted') /\ UNCHANGED accepting
                  ELSE accepting' = [accepting EXCEPT ![c] = "opening"] /\ UNCHANGED armed
    /\ NoteOverlap
    /\ UNCHANGED <<upstream, closing, pinging, waking, loaded>>

Connect(c) ==
    /\ loaded /\ c \notin sockets /\ c \notin closing /\ accepting[c] = "no"
    /\ sockets' = sockets \cup {c}
    /\ counted' = Cardinality(sockets')
    /\ IF tracked THEN ReconcileUpstream(counted') /\ UNCHANGED accepting
                  ELSE accepting' = [accepting EXCEPT ![c] = "opening"] /\ UNCHANGED armed
    /\ NoteOverlap
    /\ UNCHANGED <<upstream, closing, pinging, waking, loaded>>

\* The recount's open has ended: set the alarm, and try again if it failed.
ConnectOpened(c, ok) ==
    /\ accepting[c] = "opening"
    /\ OpenUpstream(ok)
    /\ ReconcileUpstream(counted)
    /\ accepting' = [accepting EXCEPT ![c] = IF ok THEN "no" ELSE "reopening"]
    /\ UNCHANGED <<sockets, counted, closing, pinging, waking, loaded, overlapped>>

ConnectReopened(c, ok) ==
    /\ accepting[c] = "reopening"
    /\ OpenUpstream(ok)
    /\ accepting' = [accepting EXCEPT ![c] = "no"]
    /\ UNCHANGED <<storage, closing, pinging, waking, loaded, overlapped>>

(***************************************************************************)
(* webSocketClose and webSocketError.  The closing socket is still among   *)
(* getWebSockets() and is left out of the count; others that are closing   *)
(* are not.                                                                *)
(***************************************************************************)
\* Mutant: the closing socket is counted.
Close_CountsItself(c) ==
    /\ loaded /\ c \in sockets /\ c \notin closing
    /\ counted' = Cardinality(sockets)
    /\ IF tracked
       THEN ReconcileUpstream(counted') /\ sockets' = sockets \ {c} /\ UNCHANGED <<upstream, closing>>
       ELSE closing' = closing \cup {c} /\ UNCHANGED <<sockets, armed, upstream>>
    /\ NoteOverlap
    /\ UNCHANGED <<accepting, pinging, waking, loaded>>

\* Mutant: only the last client's leaving is counted.
Close_NotCounted(c) ==
    /\ loaded /\ c \in sockets /\ c \notin closing
    /\ sockets' = sockets \ {c}
    /\ counted' = 0
    /\ CloseUpstream
    /\ ReconcileUpstream(0)
    /\ NoteOverlap
    /\ UNCHANGED <<handlers, loaded>>

LastCloses(c) ==
    /\ loaded /\ c \notin closing
    /\ sockets = {c}
    /\ sockets' = {}
    /\ counted' = 0
    /\ CloseUpstream
    /\ ReconcileUpstream(0)
    /\ UNCHANGED handlers

OneOfManyCloses(c) ==
    /\ loaded /\ c \in sockets /\ c \notin closing
    /\ sockets # {c}
    /\ counted' = Cardinality(sockets \ {c})
    /\ IF tracked
       THEN ReconcileUpstream(counted') /\ sockets' = sockets \ {c} /\ UNCHANGED closing
       ELSE closing' = closing \cup {c} /\ UNCHANGED <<sockets, armed>>
    /\ UNCHANGED <<upstream, accepting, pinging, waking>>

Close(c) ==
    /\ LastCloses(c) \/ OneOfManyCloses(c)
    /\ NoteOverlap
    /\ UNCHANGED loaded

\* The platform takes a closing socket out of the set while its handler awaits,
\* or when it ends.
Detach(c) ==
    /\ c \in closing /\ c \in sockets
    /\ sockets' = sockets \ {c}
    /\ UNCHANGED <<counted, armed, upstream, handlers, loaded, overlapped>>

CloseOpened(c, ok) ==
    /\ c \in closing
    /\ OpenUpstream(ok)
    /\ ReconcileUpstream(counted)
    /\ sockets' = sockets \ {c}
    /\ closing' = closing \ {c}
    /\ UNCHANGED <<counted, accepting, pinging, waking, loaded, overlapped>>

-----------------------------------------------------------------------------
\* webSocketMessage: any traffic of a subscriber checks the upstream.
Ping ==
    /\ loaded /\ ~pinging /\ ~tracked
    /\ sockets \ closing # {}
    /\ pinging' = TRUE
    /\ NoteOverlap
    /\ UNCHANGED <<storage, upstream, accepting, closing, waking, loaded>>

PingOpened(ok) ==
    /\ pinging
    /\ OpenUpstream(ok)
    /\ pinging' = FALSE
    /\ UNCHANGED <<storage, accepting, closing, waking, loaded, overlapped>>

(***************************************************************************)
(* alarm().  A queued command may wake the object too, at any time.        *)
(***************************************************************************)
\* Mutant: the alarm is set again only by a client.
Wake_NotRearmed ==
    /\ loaded /\ ~waking
    /\ armed' = FALSE
    /\ IF counted > 0
       THEN waking' = ~tracked /\ UNCHANGED upstream
       ELSE CloseUpstream /\ UNCHANGED waking
    /\ NoteOverlap
    /\ UNCHANGED <<sockets, counted, accepting, closing, pinging, loaded>>

Wake ==
    /\ loaded /\ ~waking
    /\ armed' = (counted > 0 /\ tracked)
    /\ IF counted > 0
       THEN waking' = ~tracked /\ UNCHANGED upstream
       ELSE CloseUpstream /\ UNCHANGED waking
    /\ NoteOverlap
    /\ UNCHANGED <<sockets, counted, accepting, closing, pinging, loaded>>

WakeOpened(ok) ==
    /\ waking
    /\ OpenUpstream(ok)
    /\ ReconcileUpstream(counted)
    /\ waking' = FALSE
    /\ UNCHANGED <<sockets, counted, accepting, closing, pinging, loaded, overlapped>>

-----------------------------------------------------------------------------
\* The dashboard ends a socket (the close and error listeners, drop).
UpstreamDrops == tracked /\ tracked' = FALSE
OrphanDrops == orphaned /\ orphaned' = FALSE

\* Eviction between events: fields are lost, sockets and storage are not.
Evict ==
    /\ loaded /\ ~Opening
    /\ loaded' = FALSE
    /\ tracked' = FALSE /\ orphaned' = FALSE
    /\ UNCHANGED <<storage, handlers, overlapped>>

\* The constructor, before whatever event woke the object.
Construct ==
    /\ ~loaded /\ loaded' = TRUE
    /\ tracked' \in {FALSE, counted > 0}
    /\ armed' = (armed \/ counted > 0)
    /\ UNCHANGED <<sockets, counted, orphaned, handlers, overlapped>>

Opened(ok) ==
    \/ \E c \in Clients :
         ConnectOpened(c, ok) \/ ConnectReopened(c, ok) \/ CloseOpened(c, ok)
    \/ PingOpened(ok)
    \/ WakeOpened(ok)

GateNext ==
    \/ \E c \in Clients : Connect(c) \/ Close(c) \/ Detach(c)
    \/ \E ok \in BOOLEAN : Opened(ok)
    \/ Ping \/ Wake \/ Evict \/ Construct
    \/ UpstreamDrops /\ UNCHANGED <<storage, orphaned, handlers, loaded, overlapped>>
    \/ OrphanDrops /\ UNCHANGED <<storage, tracked, handlers, loaded, overlapped>>

(***************************************************************************)
(* An armed alarm fires, also for an evicted object, and the fetch that    *)
(* opens the upstream is bounded by a timeout (UPSTREAM_OPEN_TIMEOUT_MS).  *)
(* Strong fairness for the alarm: the event that makes the platform build  *)
(* the object is not lost to another eviction before its handler runs.     *)
(* Whether the dashboard accepts is up to it; clients owe nothing.         *)
(***************************************************************************)
GateFairness ==
    /\ SF_gateVars(armed /\ Wake)
    /\ WF_gateVars(armed /\ Construct)
    /\ \A c \in Clients :
         /\ WF_gateVars(\E ok \in BOOLEAN : ConnectOpened(c, ok) \/ ConnectReopened(c, ok))
         /\ WF_gateVars(\E ok \in BOOLEAN : CloseOpened(c, ok))
    /\ WF_gateVars(\E ok \in BOOLEAN : PingOpened(ok))
    /\ WF_gateVars(\E ok \in BOOLEAN : WakeOpened(ok))

GateSpec == GateInit /\ [][GateNext]_gateVars
GateFairSpec == GateSpec /\ GateFairness

-----------------------------------------------------------------------------
GateTypeOK ==
    /\ sockets \subseteq Clients
    /\ counted \in 0 .. Cardinality(Clients)
    /\ accepting \in [Clients -> {"no", "opening", "reopening"}]
    /\ closing \subseteq Clients
    /\ {armed, tracked, orphaned, pinging, waking, loaded, overlapped} \subseteq BOOLEAN

(***************************************************************************)
(* The count in storage never misses a client that stays, whatever comes,  *)
(* leaves or awaits at the same time (music-do.js:393-407).                *)
(***************************************************************************)
NobodyUncounted == Cardinality(sockets \ closing) <= counted

(***************************************************************************)
(* With nobody awaiting an open and demand in storage, the alarm is armed, *)
(* in memory or evicted: nothing else wakes an object whose subscribers    *)
(* only listen (music-do.js:33-38).                                        *)
(***************************************************************************)
ArmedWhileWanted == ~Opening /\ counted > 0 => armed

(***************************************************************************)
(* As long as no handler has run while another awaited an open, an object  *)
(* without clients is at rest: nothing is counted, open or armed           *)
(* (music-do.js:354-367).                                                  *)
(***************************************************************************)
AtRestWhenLeft ==
    sockets = {} /\ ~Opening /\ ~overlapped =>
      counted = 0 /\ ~tracked /\ ~orphaned /\ ~armed

\* The three of them.
DemandCounted == NobodyUncounted /\ ArmedWhileWanted /\ AtRestWhenLeft

(***************************************************************************)
(* A subscriber is not left without an upstream that nobody tries to open  *)
(* (music-do.js:45-53).                                                    *)
(***************************************************************************)
KeepsTrying == sockets # {} ~> sockets = {} \/ tracked \/ Opening

(***************************************************************************)
(* What the header promises and overlapping handlers break: "When demand   *)
(* hits 0 we close upstream" (music-do.js:38), "Upstream is open IFF       *)
(* demand >= 1" (music-do.js:30-31).                                       *)
(***************************************************************************)
ClosedWithoutDemand == ~Opening /\ counted = 0 => ~tracked /\ ~orphaned
=============================================================================
