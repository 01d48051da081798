------------------------------ MODULE LivePush ------------------------------
(***************************************************************************)
(* Live frames for the dashboards (websocket/WsBroadcastManager.cc,        *)
(* controllers/WsController.cc), on one channel.                           *)
(*                                                                         *)
(* Every second each instance reads the leader's lease in Redis and, in a  *)
(* second command, renews it if it is its own or tries to take it; whoever *)
(* has it queries the orders in progress and publishes a frame per row.    *)
(* Redis hands a frame to the readers connected just then.  A reader's     *)
(* thread keeps the last frame of the channel; a timer swaps it out, takes *)
(* a copy of the subscribers and sends, outside the lock.                  *)
(***************************************************************************)
EXTENDS Integers, Sequences, FiniteSets, SequencesExt

CONSTANTS
  Instances,
  Followed,           \* the instances whose readers and connections are followed
  Conns,
  Nobody,             \* the lease is free
  Gone,               \* its holder has died; a restart takes a new kInstanceId
  kMaxSubsPerChannel,
  MaxFrames, MaxLosses, MaxCrashes  \* bounds

ASSUME PushAssumption ==
  /\ Followed \subseteq Instances
  /\ {Nobody, Gone} \cap Instances = {} /\ Nobody # Gone
  /\ kMaxSubsPerChannel \in Nat \ {0}
  /\ {MaxFrames, MaxLosses, MaxCrashes} \subseteq Nat

VARIABLES
  lease,    \* ws:realtime:leader: its holder, and whether it expires
  asked,    \* asked[i]: what the GET of the tick under way told
  outgoing, \* outgoing[i]: frames of its query still to be published
  frames,   \* frames published; a frame is its number, in the order of Redis
  online,   \* instances whose reader is subscribed
  inbox,    \* inbox[i]: frames in its reader's socket
  pending,  \* pending[i]: g_pending, 0 when there is none
  batch,    \* batch[i]: the frame being sent, and to whom it still goes
  subs,     \* subs[i]: g_subs, oldest first
  open,     \* connections that are open, of [c, i]
  got,      \* got[c]: the last frame sent to c
  losses, crashes \* bounded

leadership == <<lease, asked>>
delivery == <<pending, batch, got>>
clients == <<subs, open>>
pushVars == <<leadership, outgoing, frames, online, inbox, delivery, clients, losses, crashes>>

NoLease == [holder |-> Nobody, expires |-> FALSE]
NoBatch == [frame |-> 0, stage |-> "idle", left |-> {}]
Here(i) == {c \in Conns : [c |-> c, i |-> i] \in open}

PushInit ==
  /\ lease = NoLease
  /\ asked = [i \in Instances |-> "idle"]
  /\ outgoing = [i \in Instances |-> 0]
  /\ frames = 0
  /\ online = {}
  /\ inbox = [i \in Followed |-> <<>>]
  /\ pending = [i \in Followed |-> 0]
  /\ batch = [i \in Followed |-> NoBatch]
  /\ subs = [i \in Followed |-> <<>>]
  /\ open = {}
  /\ got = [c \in Conns |-> 0]
  /\ losses = 0 /\ crashes = 0
-----------------------------------------------------------------------------
(* The leader *)

\* publishProductionRealtime: the GET of this second.
Ask(i) ==
  /\ asked[i] = "idle"
  /\ asked' = [asked EXCEPT ![i] = IF lease.holder = i THEN "mine" ELSE "other"]
  /\ UNCHANGED <<lease, outgoing, frames, online, inbox, delivery, clients, losses, crashes>>

\* queryAndPushRealtime returns some rows.
Push(i) == \E n \in 0 .. 2 : frames + n <= MaxFrames /\ outgoing' = [outgoing EXCEPT ![i] = n]

\* SET XX: it renews whoever's lease is there, and the reply is not looked at.
Renew(i) ==
  /\ asked[i] = "mine"
  /\ asked' = [asked EXCEPT ![i] = "idle"]
  /\ lease' = IF lease = NoLease THEN lease ELSE [holder |-> i, expires |-> TRUE]
  /\ Push(i)
  /\ UNCHANGED <<frames, online, inbox, delivery, clients, losses, crashes>>

\* Mutant: SET NX without PX.
TakeMutant(i) ==
  /\ asked[i] = "other"
  /\ asked' = [asked EXCEPT ![i] = "idle"]
  /\ IF lease = NoLease
     THEN lease' = [holder |-> i, expires |-> FALSE] /\ Push(i)
     ELSE UNCHANGED <<lease, outgoing>>
  /\ UNCHANGED <<frames, online, inbox, delivery, clients, losses, crashes>>

\* SET NX PX 3000: only who sets it pushes.
Take(i) ==
  /\ asked[i] = "other"
  /\ asked' = [asked EXCEPT ![i] = "idle"]
  /\ IF lease = NoLease
     THEN lease' = [holder |-> i, expires |-> TRUE] /\ Push(i)
     ELSE UNCHANGED <<lease, outgoing>>
  /\ UNCHANGED <<frames, online, inbox, delivery, clients, losses, crashes>>

\* Three seconds without a renewal.
LeaseExpires ==
  /\ lease.expires
  /\ lease' = NoLease
  /\ UNCHANGED <<asked, outgoing, frames, online, inbox, delivery, clients, losses, crashes>>

\* PUBLISH, which Redis carries out or not.
Publish(i) ==
  /\ outgoing[i] > 0
  /\ outgoing' = [outgoing EXCEPT ![i] = @ - 1]
  /\ \/ /\ frames < MaxFrames
        /\ frames' = frames + 1
        /\ inbox' = [j \in Followed |-> IF j \in online THEN Append(inbox[j], frames + 1) ELSE inbox[j]]
        /\ UNCHANGED losses
     \/ /\ losses < MaxLosses
        /\ losses' = losses + 1
        /\ UNCHANGED <<frames, inbox>>
  /\ UNCHANGED <<leadership, online, delivery, clients, crashes>>
-----------------------------------------------------------------------------
(* The reader and the timer of an instance *)

\* redisSubscribeLoop connects, 5 s after it lost the connection.
Connect(i) ==
  /\ i \notin online
  /\ online' = online \cup {i}
  /\ UNCHANGED <<leadership, outgoing, frames, inbox, delivery, clients, losses, crashes>>

Disconnect(i) ==
  /\ i \in online
  /\ losses < MaxLosses
  /\ losses' = losses + 1
  /\ online' = online \ {i}
  /\ inbox' = [inbox EXCEPT ![i] = <<>>]
  /\ UNCHANGED <<leadership, outgoing, frames, delivery, clients, crashes>>

\* Only the latest frame of the channel is kept.
Receive(i) ==
  /\ inbox[i] # <<>>
  /\ pending' = [pending EXCEPT ![i] = Head(inbox[i])]
  /\ inbox' = [inbox EXCEPT ![i] = Tail(@)]
  /\ UNCHANGED <<leadership, outgoing, frames, online, batch, got, clients, losses, crashes>>

\* drainPending swaps the frames out under the lock,
Drain(i) ==
  /\ batch[i].stage = "idle"
  /\ pending[i] # 0
  /\ batch' = [batch EXCEPT ![i] = [frame |-> pending[i], stage |-> "swapped", left |-> {}]]
  /\ pending' = [pending EXCEPT ![i] = 0]
  /\ UNCHANGED <<leadership, outgoing, frames, online, inbox, got, clients, losses, crashes>>

\* Mutant: the frames are cleared only after the subscribers were copied.
SnapshotMutant(i) ==
  /\ batch[i].stage = "swapped"
  /\ batch' = [batch EXCEPT ![i] = IF subs[i] = <<>> THEN NoBatch
                                   ELSE [@ EXCEPT !.stage = "sending", !.left = ToSet(subs[i])]]
  /\ pending' = [pending EXCEPT ![i] = 0]
  /\ UNCHANGED <<leadership, outgoing, frames, online, inbox, got, clients, losses, crashes>>

\* copies the subscribers under the lock,
Snapshot(i) ==
  /\ batch[i].stage = "swapped"
  /\ batch' = [batch EXCEPT ![i] = IF subs[i] = <<>> THEN NoBatch
                                   ELSE [@ EXCEPT !.stage = "sending", !.left = ToSet(subs[i])]]
  /\ UNCHANGED <<leadership, outgoing, frames, online, inbox, pending, got, clients, losses, crashes>>

\* and sends to those still connected.
Send(i, c) ==
  /\ batch[i].stage = "sending" /\ c \in batch[i].left
  /\ got' = IF c \in Here(i) THEN [got EXCEPT ![c] = batch[i].frame] ELSE got
  /\ batch' = [batch EXCEPT ![i] = IF @.left = {c} THEN NoBatch
                                   ELSE [@ EXCEPT !.left = batch[i].left \ {c}]]
  /\ UNCHANGED <<leadership, outgoing, frames, online, inbox, pending, clients, losses, crashes>>
-----------------------------------------------------------------------------
(* Connections *)

handleNewConnection(i, c) ==
  /\ \A o \in open : o.c # c
  /\ got[c] = 0
  /\ open' = open \cup {[c |-> c, i |-> i]}
  /\ UNCHANGED <<leadership, outgoing, frames, online, inbox, delivery, subs, losses, crashes>>

\* A full channel drops the subscriber that has been there longest.
subscribe(i, c) ==
  /\ c \in Here(i)
  /\ c \notin ToSet(subs[i])
  /\ subs' = [subs EXCEPT ![i] =
       Append(IF Len(@) >= kMaxSubsPerChannel THEN Tail(@) ELSE @, c)]
  /\ UNCHANGED <<leadership, outgoing, frames, online, inbox, delivery, open, losses, crashes>>

\* unsubscribeAll.
handleConnectionClosed(i, c) ==
  /\ c \in Here(i)
  /\ open' = open \ {[c |-> c, i |-> i]}
  /\ subs' = [subs EXCEPT ![i] = Remove(@, c)]
  /\ UNCHANGED <<leadership, outgoing, frames, online, inbox, delivery, losses, crashes>>

\* The process dies and starts again, under another kInstanceId.
Restart(i) ==
  /\ crashes < MaxCrashes
  /\ crashes' = crashes + 1
  /\ lease' = IF lease.holder = i THEN [lease EXCEPT !.holder = Gone] ELSE lease
  /\ asked' = [asked EXCEPT ![i] = "idle"]
  /\ outgoing' = [outgoing EXCEPT ![i] = 0]
  /\ online' = online \ {i}
  /\ inbox' = [j \in Followed |-> IF j = i THEN <<>> ELSE inbox[j]]
  /\ pending' = [j \in Followed |-> IF j = i THEN 0 ELSE pending[j]]
  /\ batch' = [j \in Followed |-> IF j = i THEN NoBatch ELSE batch[j]]
  /\ subs' = [j \in Followed |-> IF j = i THEN <<>> ELSE subs[j]]
  /\ open' = {o \in open : o.i # i}
  /\ UNCHANGED <<frames, got, losses>>
-----------------------------------------------------------------------------
Sends(i) == Drain(i) \/ Snapshot(i) \/ \E c \in Conns : Send(i, c)

PushNext ==
  \/ LeaseExpires
  \/ \E i \in Instances :
       \/ Ask(i) \/ Renew(i) \/ Take(i) \/ Publish(i)
       \/ Restart(i)
  \/ \E i \in Followed :
       \/ Connect(i) \/ Disconnect(i) \/ Receive(i)
       \/ Sends(i)
       \/ \E c \in Conns :
            handleNewConnection(i, c) \/ subscribe(i, c) \/ handleConnectionClosed(i, c)

PushSpec == PushInit /\ [][PushNext]_pushVars

\* Timers fire and Redis answers; the lease runs out when nobody renews it.
FairSpec ==
  /\ PushSpec
  /\ WF_pushVars(LeaseExpires)
  /\ \A i \in Instances : WF_pushVars(Ask(i)) /\ WF_pushVars(Renew(i) \/ Take(i))
  /\ \A i \in Followed : WF_pushVars(Sends(i))
-----------------------------------------------------------------------------
(* Properties *)

Pushes == \E i \in Instances :
            asked[i] = "mine" \/ (asked[i] = "other" /\ lease = NoLease)

\* WsBroadcastManager.cc:143-182: the instances together never stop pushing,
\* whichever of them dies while it is leader.
SomebodyLeads == []<>Pushes

\* WsBroadcastManager.cc:50-74: the latest frame that reached an instance, or a
\* later one, is sent to each of its subscribers that stays one.
LatestIsSent ==
  \A i \in Followed, c \in Conns, f \in 1 .. MaxFrames :
    (pending[i] = f /\ c \in ToSet(subs[i])) ~> (got[c] >= f \/ c \notin ToSet(subs[i]))
=============================================================================
