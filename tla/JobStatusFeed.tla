---------------------------- MODULE JobStatusFeed ----------------------------
(***************************************************************************)
(* The WebSocket feed of job statuses                                      *)
(* (backend/src/websocket/job-status-websocket.ts) on top of the jobs it   *)
(* reports: events that the API and the workers publish go through Redis   *)
(* Pub/Sub (backend/src/jobs/status-events.ts) to the subscriber of the    *)
(* API process, which sends them to the sockets in the room of their job.  *)
(* A socket that connects is first put in the room and is then sent a      *)
(* snapshot of the row, which is read meanwhile.                           *)
(*                                                                         *)
(* Pub/Sub delivers at most once: what is published while the subscriber   *)
(* is cut off is lost.                                                     *)
(***************************************************************************)
EXTENDS OptimizationJobs, Sequences

CONSTANTS
    Sockets,    \* WebSocket connections that clients may open
    NoSocket    \* no room

ASSUME SocketsAssumption == NoSocket \notin Sockets

VARIABLES
    rooms,      \* rooms[j]: the Set that the map holds for j, named after the
                \* socket that made it, or NoSocket
    members,    \* members[r]: the sockets in the Set made by socket r
    socket,     \* socket[s]: the connection and the read of its snapshot
    heard,      \* heard[s]: what the client was last sent
    subscriber, \* the Redis subscription: "starting", "up" or "lost"
    channel     \* events published and not yet handled by the subscriber

feedVars == <<rooms, members, socket, heard, subscriber, channel>>
allVars == <<row, routes, cached, api, queue, worker, redis, faultsLeft,
             rooms, members, socket, heard, subscriber, channel>>

NoEvent == [job |-> NoJob, status |-> "absent", route |-> 0, reason |-> "none"]
Events == [job : Jobs \cup {NoJob}, status : Statuses, route : Nat, reason : Reasons]

NewSocket == [state |-> "new", job |-> NoJob, room |-> NoSocket, snapshot |-> "none",
              read |-> NoEvent, gap |-> FALSE]

FeedTypeOK ==
    /\ rooms \in [Jobs -> Sockets \cup {NoSocket}]
    /\ members \in [Sockets -> SUBSET Sockets]
    /\ socket \in [Sockets -> [state : {"new", "open", "closing", "closed"},
                               job : Jobs \cup {NoJob},
                               room : Sockets \cup {NoSocket},
                               snapshot : {"none", "asked", "answered", "failed"},
                               read : Events,
                               gap : BOOLEAN]]
    /\ \A s \in Sockets : socket[s].state # "new" => socket[s].job \in Jobs
    /\ heard \in [Sockets -> [last : Events, ended : BOOLEAN]]
    /\ subscriber \in {"starting", "up", "lost"}
    /\ channel \in Seq(Events)

FeedInit ==
    /\ Init
    /\ rooms = [j \in Jobs |-> NoSocket]
    /\ members = [s \in Sockets |-> {}]
    /\ socket = [s \in Sockets |-> NewSocket]
    /\ heard = [s \in Sockets |-> [last |-> NoEvent, ended |-> FALSE]]
    /\ subscriber = "starting"
    /\ channel = <<>>

Connected(s) == socket[s].state \in {"open", "closing"}

\* socket.send of e to every socket in to: a client keeps the last message
\* and remembers whether it was ever told of the end.
Send(e, to) ==
    heard' = [s \in Sockets |->
                 IF s \in to THEN [last |-> e, ended |-> heard[s].ended \/ e.status \in Terminal]
                             ELSE heard[s]]

-----------------------------------------------------------------------------
(* Connections                                                             *)

Joined(s, j, room) ==
    [NewSocket EXCEPT !.state = "open", !.job = j, !.room = room,
                      !.snapshot = "asked", !.gap = (subscriber = "lost")]

\* The connection handler, up to the call of getJob.  The server listens only
\* after the first subscription.
Connect(s, j) ==
    LET room == IF rooms[j] = NoSocket THEN s ELSE rooms[j] IN
    /\ subscriber # "starting"
    /\ socket[s].state = "new"
    /\ members' = [members EXCEPT ![room] = @ \cup {s}]
    /\ rooms' = [rooms EXCEPT ![j] = room]
    /\ socket' = [socket EXCEPT ![s] = Joined(s, j, room)]
    /\ UNCHANGED <<vars, heard, subscriber, channel>>

\* The database answers getJob, or refuses.  A refused read disturbs nobody
\* else and is not counted as a fault.
ReadSnapshot(s) ==
    LET j == socket[s].job IN
    /\ socket[s].snapshot = "asked"
    /\ \/ socket' = [socket EXCEPT
                 ![s].snapshot = "answered",
                 ![s].read = Event(j, row[j].status, row[j].route, row[j].reason)]
       \/ /\ "dbRefused" \in FaultKinds
          /\ socket' = [socket EXCEPT ![s].snapshot = "failed"]
    /\ UNCHANGED <<vars, rooms, members, heard, subscriber, channel>>

SendSnapshotOfLiveJob(s) ==
    /\ socket[s].snapshot = "answered"
    /\ Send(socket[s].read,
            IF socket[s].read.status \in {"queued", "processing"} /\ socket[s].state = "open"
            THEN {s} ELSE {})
    /\ socket' = [socket EXCEPT ![s].snapshot = "none", ![s].read = NoEvent]
    /\ UNCHANGED <<vars, rooms, members, subscriber, channel>>

\* The then handler: an unknown job and a socket that is not open get nothing.
SendSnapshot(s) ==
    /\ socket[s].snapshot = "answered"
    /\ Send(socket[s].read,
            IF socket[s].read.status # "absent" /\ socket[s].state = "open" THEN {s} ELSE {})
    /\ socket' = [socket EXCEPT ![s].snapshot = "none", ![s].read = NoEvent]
    /\ UNCHANGED <<vars, rooms, members, subscriber, channel>>

\* The catch handler closes the socket with 1011.
SnapshotFailed(s) ==
    /\ socket[s].snapshot = "failed"
    /\ socket' = [socket EXCEPT ![s].snapshot = "none",
                                ![s].state = IF @ = "open" THEN "closing" ELSE @]
    /\ UNCHANGED <<vars, rooms, members, heard, subscriber, channel>>

\* The client leaves or its connection breaks: readyState is no longer OPEN.
ClientLeaves(s) ==
    /\ socket[s].state = "open"
    /\ socket' = [socket EXCEPT ![s].state = "closing"]
    /\ UNCHANGED <<vars, rooms, members, heard, subscriber, channel>>

SocketClosedDropsRoom(s) ==
    LET room == socket[s].room IN
    /\ socket[s].state = "closing"
    /\ members' = [members EXCEPT ![room] = @ \ {s}]
    /\ rooms' = [rooms EXCEPT ![socket[s].job] = NoSocket]
    /\ socket' = [socket EXCEPT ![s].state = "closed"]
    /\ UNCHANGED <<vars, heard, subscriber, channel>>

\* The close handler, with the Set that the connection handler has captured.
SocketClosed(s) ==
    LET room == socket[s].room IN
    /\ socket[s].state = "closing"
    /\ members' = [members EXCEPT ![room] = @ \ {s}]
    /\ rooms' = IF members[room] \ {s} = {}
                THEN [rooms EXCEPT ![socket[s].job] = NoSocket] ELSE rooms
    /\ socket' = [socket EXCEPT ![s].state = "closed"]
    /\ UNCHANGED <<vars, heard, subscriber, channel>>

-----------------------------------------------------------------------------
(* Events                                                                  *)

Published(e) == channel' = IF subscriber = "up" THEN Append(channel, e) ELSE channel

PublishFromApi(j) ==
    /\ AnnounceFromApi(j)
    /\ Published(ApiAnnouncement(j))
    /\ UNCHANGED <<rooms, members, socket, heard, subscriber>>

PublishFromWorker(w) ==
    /\ AnnounceFromWorker(w)
    /\ Published(WorkerAnnouncement(w))
    /\ UNCHANGED <<rooms, members, socket, heard, subscriber>>

RoomOf(j) == IF rooms[j] = NoSocket THEN {} ELSE members[rooms[j]]

\* The listener: every open socket in the room of the job gets the event.
Recipients(e) == {s \in RoomOf(e.job) : socket[s].state = "open"}

Deliver ==
    /\ channel # <<>>
    /\ Send(Head(channel), Recipients(Head(channel)))
    /\ channel' = Tail(channel)
    /\ UNCHANGED <<vars, rooms, members, socket, subscriber>>

\* SUBSCRIBE is sent again by ioredis once it is connected.
Subscribe ==
    /\ redis = "up"
    /\ subscriber # "up"
    /\ subscriber' = "up"
    /\ UNCHANGED <<vars, rooms, members, socket, heard, channel>>

\* What had not reached the subscriber when the connection broke is lost; gap
\* marks the sockets that are connected while there is no subscription.
SubscriptionBreaks ==
    /\ RedisFails
    /\ subscriber' = IF subscriber = "up" THEN "lost" ELSE subscriber
    /\ \E n \in 0 .. Len(channel) : channel' = SubSeq(channel, 1, n)
    /\ socket' = [s \in Sockets |-> IF Connected(s) THEN [socket[s] EXCEPT !.gap = TRUE]
                                                    ELSE socket[s]]
    /\ UNCHANGED <<rooms, members, heard>>

\* The API process dies with all its sockets and its subscription.
ServerCrash ==
    /\ ApiCrash
    /\ rooms' = [j \in Jobs |-> NoSocket]
    /\ members' = [s \in Sockets |-> {}]
    /\ socket' = [s \in Sockets |->
                     IF socket[s].state = "new" THEN socket[s]
                     ELSE [socket[s] EXCEPT !.state = "closed", !.snapshot = "none",
                                            !.read = NoEvent]]
    /\ subscriber' = "starting"
    /\ channel' = <<>>
    /\ UNCHANGED heard

-----------------------------------------------------------------------------
SocketStep(s) ==
    \/ ReadSnapshot(s)
    \/ SendSnapshot(s)
    \/ SnapshotFailed(s)
    \/ SocketClosed(s)

FeedNext ==
    \/ Silent /\ UNCHANGED feedVars
    \/ \E j \in Jobs : PublishFromApi(j)
    \/ \E w \in Workers : PublishFromWorker(w)
    \/ \E s \in Sockets, j \in Jobs : Connect(s, j)
    \/ \E s \in Sockets : SocketStep(s)
    \/ \E s \in Sockets : ClientLeaves(s)
    \/ Deliver
    \/ Subscribe
    \/ SubscriptionBreaks
    \/ ServerCrash

FeedSpec == FeedInit /\ [][FeedNext]_allVars

(***************************************************************************)
(* The event loop of the API handles what has arrived, the API and the     *)
(* workers go on with what they have begun, and Redis and the subscription *)
(* come back.  Clients need neither connect nor leave.                     *)
(***************************************************************************)
FeedFairness ==
    /\ \A s \in Sockets : WF_allVars(SocketStep(s))
    /\ \A j \in Jobs :
           WF_allVars((SilentApiStep(j) /\ UNCHANGED feedVars) \/ PublishFromApi(j))
    /\ \A w \in Workers :
           WF_allVars((SilentWorkerStep(w) /\ UNCHANGED feedVars) \/ PublishFromWorker(w))
    /\ WF_allVars(RedisRecovers /\ UNCHANGED feedVars)
    /\ WF_allVars(Deliver)
    /\ WF_allVars(Subscribe)

FairFeedSpec == FeedSpec /\ FeedFairness

-----------------------------------------------------------------------------
\* Every connected socket is in the Set that the map holds for its job, so that
\* no event can miss it, and the map keeps no Set without members: although
\* each close handler works on the Set it captured when the socket connected.
RoomsAreExact ==
    \A j \in Jobs :
        /\ RoomOf(j) = {s \in Sockets : Connected(s) /\ socket[s].job = j}
        /\ rooms[j] # NoSocket => RoomOf(j) # {}

\* A client that is told of a completed job can fetch the route named in the
\* message: the announcement never runs ahead of the row it is about.
AnnouncedRouteExists ==
    \A s \in Sockets :
        LET e == heard[s].last IN
        e.status = "completed" => e.route \in 1 .. routes[e.job]

\* A client that stays connected is told of the end of its job, whether it
\* ended before, while or after the snapshot was read, unless the subscription
\* was down while it was connected.
EndIsHeard ==
    \A s \in Sockets :
        socket[s].state = "open" /\ row[socket[s].job].status \in Terminal
            ~> heard[s].ended \/ socket[s].state # "open" \/ socket[s].gap

\* When nothing is in progress any more, what an open socket was sent last is
\* what GET /api/jobs/:job_id answers.
QuietFeedIsCurrent ==
    \A s \in Sockets :
        LET j == socket[s].job IN
        /\ socket[s].state = "open" /\ socket[s].snapshot = "none" /\ ~socket[s].gap
        /\ channel = <<>>
        /\ api[j] \in {"accepted", "errored"}
        /\ row[j].status \in Terminal
        /\ \A w \in Workers : worker[w].pc = "idle"
        => heard[s].last.status = row[j].status
=============================================================================
