------------------------ MODULE JobStatusFeedProofs ------------------------
(***************************************************************************)
(* Proofs about JobStatusFeed: to the jobs its steps are steps of          *)
(* OptimizationJobs, so that all that is proved there holds with the feed  *)
(* attached; the rooms hold exactly the connected sockets; and no message  *)
(* names a route that has not been saved.                                  *)
(***************************************************************************)
EXTENDS JobStatusFeed, OptimizationJobsProofs, SequenceTheorems

\* The feed watches the jobs and never disturbs them.
LEMMA FeedStepIsJobStep == [FeedNext]_allVars => [Next]_vars
<1> SUFFICES ASSUME [FeedNext]_allVars PROVE [Next]_vars
  OBVIOUS
<1>1. CASE Silent
  BY <1>1 DEF Next
<1>2. ASSUME NEW j \in Jobs, PublishFromApi(j) PROVE Next
  BY <1>2 DEF PublishFromApi, Next
<1>3. ASSUME NEW w \in Workers, PublishFromWorker(w) PROVE Next
  BY <1>3 DEF PublishFromWorker, Next
<1>4. ASSUME NEW s \in Sockets, NEW j \in Jobs, Connect(s, j) PROVE UNCHANGED vars
  BY <1>4 DEF Connect
<1>5. ASSUME NEW s \in Sockets, SocketStep(s) \/ ClientLeaves(s) PROVE UNCHANGED vars
  BY <1>5 DEF SocketStep, ReadSnapshot, SendSnapshot, SnapshotFailed, SocketClosed,
              ClientLeaves
<1>6. CASE Deliver \/ Subscribe
  BY <1>6 DEF Deliver, Subscribe
<1>7. CASE SubscriptionBreaks
  BY <1>7 DEF SubscriptionBreaks, Next
<1>8. CASE ServerCrash
  BY <1>8 DEF ServerCrash, Next
<1>9. CASE UNCHANGED allVars
  BY <1>9 DEF allVars, vars
<1> QED
  BY <1>1, <1>2, <1>3, <1>4, <1>5, <1>6, <1>7, <1>8, <1>9 DEF FeedNext

\* Whatever is proved of the jobs alone holds with the feed attached.
THEOREM FeedRefinesJobs == FeedSpec => Spec
<1>1. FeedInit => Init
  BY DEF FeedInit
<1> QED
  BY <1>1, FeedStepIsJobStep, PTL DEF FeedSpec, Spec

-----------------------------------------------------------------------------
(* Type correctness                                                        *)

SocketType == [state : {"new", "open", "closing", "closed"},
               job : Jobs \cup {NoJob},
               room : Sockets \cup {NoSocket},
               snapshot : {"none", "asked", "answered", "failed"},
               read : Events,
               gap : BOOLEAN]
HeardType == [last : Events, ended : BOOLEAN]

\* What is published or read is an event of a job.
LEMMA EventTypes ==
    ASSUME TypeOK
    PROVE  /\ \A j \in Jobs : ApiAnnouncement(j) \in Events
           /\ \A w \in Workers :
                 worker[w].pc \in {"sayProcessing", "sayCompleted", "sayFailed", "sayQueued"}
                     => WorkerAnnouncement(w) \in Events
           /\ \A j \in Jobs : Event(j, row[j].status, row[j].route, row[j].reason) \in Events
           /\ NoEvent \in Events
<1>1. \A j \in Jobs : ApiAnnouncement(j) \in Events
  BY DEF ApiAnnouncement, Event, Events, Statuses, Reasons
<1>2. ASSUME NEW w \in Workers,
             worker[w].pc \in {"sayProcessing", "sayCompleted", "sayFailed", "sayQueued"}
      PROVE  WorkerAnnouncement(w) \in Events
  <2>1. worker[w].job \in Jobs /\ worker[w].route \in Nat
    BY <1>2 DEF TypeOK
  <2> QED
    BY <1>2, <2>1 DEF WorkerAnnouncement, Event, Events, Statuses, Reasons
<1>3. \A j \in Jobs : Event(j, row[j].status, row[j].route, row[j].reason) \in Events
  BY DEF TypeOK, Event, Events
<1>4. NoEvent \in Events
  BY DEF NoEvent, Events, Statuses, Reasons
<1> QED
  BY <1>1, <1>2, <1>3, <1>4

LEMMA SendTypes ==
    ASSUME heard \in [Sockets -> HeardType], NEW e \in Events, NEW to, Send(e, to)
    PROVE  heard' \in [Sockets -> HeardType]
<1>1. ASSUME NEW s \in Sockets
      PROVE  [last |-> e, ended |-> heard[s].ended \/ e.status \in Terminal] \in HeardType
  BY DEF HeardType
<1>2. \A s \in Sockets : heard[s] \in HeardType
  OBVIOUS
<1> QED
  BY <1>1, <1>2 DEF Send

\* The socket s changes to a well-typed record.
LEMMA SocketTypes ==
    ASSUME socket \in [Sockets -> SocketType], NEW s \in Sockets,
           NEW x \in {"new", "open", "closing", "closed"},
           NEW y \in {"none", "asked", "answered", "failed"},
           NEW e \in Events
    PROVE  /\ [socket EXCEPT ![s].snapshot = y] \in [Sockets -> SocketType]
           /\ [socket EXCEPT ![s].state = x] \in [Sockets -> SocketType]
           /\ [socket EXCEPT ![s].snapshot = y, ![s].read = e] \in [Sockets -> SocketType]
           /\ [socket EXCEPT ![s].snapshot = y, ![s].state = x] \in [Sockets -> SocketType]
<1>0. socket[s] \in SocketType
  OBVIOUS
<1>1. [socket[s] EXCEPT !.snapshot = y] \in SocketType
  BY <1>0 DEF SocketType
<1>2. [socket[s] EXCEPT !.state = x] \in SocketType
  BY <1>0 DEF SocketType
<1>3. [socket[s] EXCEPT !.snapshot = y, !.read = e] \in SocketType
  BY <1>0 DEF SocketType
<1>4. [socket[s] EXCEPT !.snapshot = y, !.state = x] \in SocketType
  BY <1>0 DEF SocketType
<1> QED
  BY <1>1, <1>2, <1>3, <1>4

\* Also needed: nothing is read for a socket that has not connected.
SocketsOK ==
    /\ socket \in [Sockets -> SocketType]
    /\ \A s \in Sockets : IF socket[s].state = "new" THEN socket[s].snapshot = "none"
                                                    ELSE socket[s].job \in Jobs

FeedTypeInv ==
    /\ TypeOK
    /\ rooms \in [Jobs -> Sockets \cup {NoSocket}]
    /\ members \in [Sockets -> SUBSET Sockets]
    /\ SocketsOK
    /\ heard \in [Sockets -> HeardType]
    /\ subscriber \in {"starting", "up", "lost"}
    /\ channel \in Seq(Events)

LEMMA FeedTypeInit == FeedInit => FeedTypeInv
<1> SUFFICES ASSUME FeedInit PROVE FeedTypeInv
  OBVIOUS
<1>1. NoEvent \in Events
  BY DEF NoEvent, Events, Statuses, Reasons
<1>2. NewSocket \in SocketType
  BY <1>1 DEF NewSocket, SocketType
<1>3. SocketsOK
  BY <1>2 DEF FeedInit, SocketsOK, NewSocket
<1> QED
  BY <1>1, <1>3, TypeInit DEF FeedInit, FeedTypeInv, HeardType

\* The steps on sockets
LEMMA SocketsStep ==
    ASSUME FeedTypeInv, [FeedNext]_allVars
    PROVE  SocketsOK'
<1>0. /\ socket \in [Sockets -> SocketType]
      /\ \A s \in Sockets : IF socket[s].state = "new" THEN socket[s].snapshot = "none"
                                                      ELSE socket[s].job \in Jobs
      /\ rooms \in [Jobs -> Sockets \cup {NoSocket}]
      /\ NoEvent \in Events
  BY EventTypes DEF FeedTypeInv, SocketsOK
<1>1. CASE UNCHANGED socket
  BY <1>0, <1>1 DEF SocketsOK
<1>2. ASSUME NEW s \in Sockets, NEW j \in Jobs, Connect(s, j) PROVE SocketsOK'
  <2> DEFINE room == IF rooms[j] = NoSocket THEN s ELSE rooms[j]
  <2>1. room \in Sockets
    BY <1>0
  <2>2. /\ Joined(s, j, room) \in SocketType
        /\ Joined(s, j, room).job = j /\ Joined(s, j, room).state = "open"
    <3> DEFINE gap == subscriber = "lost"
    <3>1. gap \in BOOLEAN
      OBVIOUS
    <3>2. Joined(s, j, room) = [NewSocket EXCEPT !.state = "open", !.job = j, !.room = room,
                                                 !.snapshot = "asked", !.gap = gap]
      BY DEF Joined
    <3> HIDE DEF gap, room
    <3>3. Joined(s, j, room) = [state |-> "open", job |-> j, room |-> room,
                                snapshot |-> "asked", read |-> NoEvent, gap |-> gap]
      BY <3>2 DEF NewSocket
    <3> QED
      BY <1>0, <2>1, <3>1, <3>3 DEF SocketType
  <2>3. socket' = [socket EXCEPT ![s] = Joined(s, j, room)]
    BY <1>2 DEF Connect
  <2> HIDE DEF room
  <2> QED
    BY <1>0, <2>2, <2>3 DEF SocketsOK
<1>3. ASSUME NEW s \in Sockets, NEW x \in SocketType, socket' = [socket EXCEPT ![s] = x],
             x.state # "new", x.job \in Jobs
      PROVE  SocketsOK'
  BY <1>0, <1>3 DEF SocketsOK
<1>4. ASSUME NEW s \in Sockets, socket[s].state # "new" \/ socket[s].snapshot # "none",
             NEW x \in {"open", "closing", "closed"},
             NEW y \in {"none", "asked", "answered", "failed"}, NEW e \in Events,
             \/ socket' = [socket EXCEPT ![s].snapshot = y]
             \/ socket' = [socket EXCEPT ![s].state = x]
             \/ socket' = [socket EXCEPT ![s].snapshot = y, ![s].read = e]
             \/ socket' = [socket EXCEPT ![s].snapshot = y, ![s].state = x]
      PROVE  SocketsOK'
  <2>1. socket' \in [Sockets -> SocketType]
    <3>1. /\ socket \in [Sockets -> SocketType]
          /\ s \in Sockets
          /\ x \in {"new", "open", "closing", "closed"}
          /\ y \in {"none", "asked", "answered", "failed"}
          /\ e \in Events
      BY <1>0
    <3>2. /\ [socket EXCEPT ![s].snapshot = y] \in [Sockets -> SocketType]
          /\ [socket EXCEPT ![s].state = x] \in [Sockets -> SocketType]
          /\ [socket EXCEPT ![s].snapshot = y, ![s].read = e] \in [Sockets -> SocketType]
          /\ [socket EXCEPT ![s].snapshot = y, ![s].state = x] \in [Sockets -> SocketType]
      BY <3>1, SocketTypes, Zenon
    <3> QED
      BY <1>4, <3>2
  <2>2. \A q \in Sockets \ {s} : socket'[q] = socket[q]
    BY <1>0, <1>4
  <2>3. socket[s].state # "new" /\ socket[s].job \in Jobs
    BY <1>0, <1>4
  <2>4. socket'[s].state # "new" /\ socket'[s].job \in Jobs
    <3>1. socket[s] \in SocketType
      BY <1>0
    <3> QED
      BY <1>0, <1>4, <2>3, <3>1 DEF SocketType
  <2> QED
    BY <1>0, <2>1, <2>2, <2>4 DEF SocketsOK
<1>5. ASSUME NEW s \in Sockets, ReadSnapshot(s) PROVE SocketsOK'
  <2>1. socket[s].snapshot = "asked" /\ socket[s].state # "new"
    BY <1>0, <1>5 DEF ReadSnapshot
  <2>2. Event(socket[s].job, row[socket[s].job].status, row[socket[s].job].route,
              row[socket[s].job].reason) \in Events
    BY <1>0, <2>1, EventTypes DEF FeedTypeInv
  <2> QED
    BY <1>4, <1>5, <1>0, <2>1, <2>2 DEF ReadSnapshot
<1>6. ASSUME NEW s \in Sockets, SendSnapshot(s) PROVE SocketsOK'
  <2>1. socket' = [socket EXCEPT ![s].snapshot = "none", ![s].read = NoEvent]
    BY <1>6 DEF SendSnapshot
  <2>2. socket[s].snapshot # "none"
    BY <1>6 DEF SendSnapshot
  <2> QED
    BY <1>0, <1>4, <2>1, <2>2
<1>7. ASSUME NEW s \in Sockets, SnapshotFailed(s) PROVE SocketsOK'
  <2>1. socket[s].snapshot = "failed" /\ socket[s].state # "new"
    BY <1>0, <1>7 DEF SnapshotFailed
  <2>2. PICK x \in {"open", "closing", "closed"} :
            socket' = [socket EXCEPT ![s].snapshot = "none", ![s].state = x]
    <3>1. socket[s].state \in {"open", "closing", "closed"}
      BY <1>0, <2>1 DEF SocketType
    <3> QED
      BY <1>7, <3>1 DEF SnapshotFailed
  <2> QED
    BY <1>0, <1>4, <2>1, <2>2
<1>8. ASSUME NEW s \in Sockets, ClientLeaves(s) \/ SocketClosed(s) PROVE SocketsOK'
  <2>1. CASE ClientLeaves(s)
    BY <1>0, <1>4, <2>1 DEF ClientLeaves
  <2>2. CASE SocketClosed(s)
    BY <1>0, <1>4, <2>2 DEF SocketClosed
  <2> QED
    BY <1>8, <2>1, <2>2
<1>9. CASE SubscriptionBreaks
  <2>1. ASSUME NEW s \in Sockets
        PROVE  [socket[s] EXCEPT !.gap = TRUE] \in SocketType
    BY <1>0 DEF SocketType
  <2>2. socket' = [s \in Sockets |-> IF Connected(s) THEN [socket[s] EXCEPT !.gap = TRUE]
                                                     ELSE socket[s]]
    BY <1>9 DEF SubscriptionBreaks
  <2>3. socket' \in [Sockets -> SocketType]
    BY <1>0, <2>1, <2>2
  <2>4. \A s \in Sockets : IF socket'[s].state = "new" THEN socket'[s].snapshot = "none"
                                                    ELSE socket'[s].job \in Jobs
    BY <1>0, <2>2 DEF SocketType
  <2> QED
    BY <2>3, <2>4 DEF SocketsOK
<1>10. CASE ServerCrash
  <2>1. ASSUME NEW s \in Sockets
        PROVE  [socket[s] EXCEPT !.state = "closed", !.snapshot = "none",
                                 !.read = NoEvent] \in SocketType
    BY <1>0 DEF SocketType
  <2>2. socket' = [s \in Sockets |->
                     IF socket[s].state = "new" THEN socket[s]
                     ELSE [socket[s] EXCEPT !.state = "closed", !.snapshot = "none",
                                            !.read = NoEvent]]
    BY <1>10 DEF ServerCrash
  <2>3. socket' \in [Sockets -> SocketType]
    BY <1>0, <2>1, <2>2
  <2>4. \A s \in Sockets : IF socket'[s].state = "new" THEN socket'[s].snapshot = "none"
                                                    ELSE socket'[s].job \in Jobs
    BY <1>0, <2>2 DEF SocketType
  <2> QED
    BY <2>3, <2>4 DEF SocketsOK
<1> QED
  <2>1. CASE UNCHANGED allVars
    BY <1>1, <2>1 DEF allVars
  <2>2. CASE Silent /\ UNCHANGED feedVars
    BY <1>1, <2>2 DEF feedVars
  <2>3. CASE \/ \E j \in Jobs : PublishFromApi(j)
             \/ \E w \in Workers : PublishFromWorker(w)
             \/ Deliver
             \/ Subscribe
    BY <1>1, <2>3 DEF PublishFromApi, PublishFromWorker, Deliver, Subscribe
  <2> QED
    BY <1>2, <1>5, <1>6, <1>7, <1>8, <1>9, <1>10, <2>1, <2>2, <2>3 DEF FeedNext, SocketStep

\* The channel: what is published or cut off leaves a sequence of events.
LEMMA ChannelTypes ==
    ASSUME channel \in Seq(Events)
    PROVE  /\ \A e \in Events : Published(e) => channel' \in Seq(Events)
           /\ \A n \in 0 .. Len(channel) : SubSeq(channel, 1, n) \in Seq(Events)
           /\ channel # <<>> => Head(channel) \in Events /\ Tail(channel) \in Seq(Events)
<1>1. \A e \in Events : Published(e) => channel' \in Seq(Events)
  BY DEF Published
<1>2. ASSUME NEW n \in 0 .. Len(channel)
      PROVE  SubSeq(channel, 1, n) \in Seq(Events)
  <2>1. /\ Len(channel) \in Nat
        /\ \A i \in 1 .. Len(channel) : channel[i] \in Events
    OBVIOUS
  <2>2. \A i \in 1 .. n : channel[i] \in Events
    BY <1>2, <2>1
  <2> QED
    BY <2>1, <2>2, SubSeqProperties
<1>3. channel # <<>> => Head(channel) \in Events /\ Tail(channel) \in Seq(Events)
  OBVIOUS
<1> QED
  BY <1>1, <1>2, <1>3

LEMMA FeedTypeStep == FeedTypeInv /\ [FeedNext]_allVars => FeedTypeInv'
<1> SUFFICES ASSUME FeedTypeInv, [FeedNext]_allVars PROVE FeedTypeInv'
  OBVIOUS
<1>0. /\ TypeOK
      /\ rooms \in [Jobs -> Sockets \cup {NoSocket}]
      /\ members \in [Sockets -> SUBSET Sockets]
      /\ socket \in [Sockets -> SocketType]
      /\ heard \in [Sockets -> HeardType]
      /\ subscriber \in {"starting", "up", "lost"}
      /\ channel \in Seq(Events)
  BY DEF FeedTypeInv, SocketsOK
<1>1. TypeOK' /\ SocketsOK'
  BY <1>0, FeedStepIsJobStep, TypeStep, SocketsStep
<1>2. CASE UNCHANGED <<rooms, members, heard, subscriber, channel>>
  BY <1>0, <1>1, <1>2 DEF FeedTypeInv
<1>3. ASSUME NEW j \in Jobs, PublishFromApi(j) PROVE FeedTypeInv'
  <2>1. channel' \in Seq(Events)
    BY <1>0, <1>3, EventTypes, ChannelTypes DEF PublishFromApi
  <2> QED
    BY <1>0, <1>1, <1>3, <2>1 DEF PublishFromApi, FeedTypeInv
<1>4. ASSUME NEW w \in Workers, PublishFromWorker(w) PROVE FeedTypeInv'
  <2>1. WorkerAnnouncement(w) \in Events
    BY <1>0, <1>4, EventTypes DEF PublishFromWorker, AnnounceFromWorker
  <2>2. channel' \in Seq(Events)
    BY <1>0, <1>4, <2>1, ChannelTypes DEF PublishFromWorker
  <2> QED
    BY <1>0, <1>1, <1>4, <2>2 DEF PublishFromWorker, FeedTypeInv
<1>5. ASSUME NEW s \in Sockets, NEW j \in Jobs, Connect(s, j) PROVE FeedTypeInv'
  <2>1. rooms' \in [Jobs -> Sockets \cup {NoSocket}] /\ members' \in [Sockets -> SUBSET Sockets]
    BY <1>0, <1>5 DEF Connect
  <2> QED
    BY <1>0, <1>1, <1>5, <2>1 DEF Connect, FeedTypeInv
<1>6. ASSUME NEW s \in Sockets, SendSnapshot(s) PROVE FeedTypeInv'
  <2>1. socket[s].read \in Events
    BY <1>0 DEF SocketType
  <2>2. heard' \in [Sockets -> HeardType]
    <3>1. PICK to : Send(socket[s].read, to)
      BY <1>6 DEF SendSnapshot
    <3> QED
      BY <1>0, <2>1, <3>1, SendTypes
  <2> QED
    BY <1>0, <1>1, <1>6, <2>2 DEF SendSnapshot, FeedTypeInv
<1>7. ASSUME NEW s \in Sockets, ReadSnapshot(s) \/ SnapshotFailed(s) \/ ClientLeaves(s)
      PROVE  FeedTypeInv'
  BY <1>2, <1>7 DEF ReadSnapshot, SnapshotFailed, ClientLeaves
<1>8. ASSUME NEW s \in Sockets, SocketClosed(s) PROVE FeedTypeInv'
  <2>1. rooms' \in [Jobs -> Sockets \cup {NoSocket}] /\ members' \in [Sockets -> SUBSET Sockets]
    BY <1>0, <1>8 DEF SocketClosed
  <2> QED
    BY <1>0, <1>1, <1>8, <2>1 DEF SocketClosed, FeedTypeInv
<1>9. CASE Deliver
  <2>1. Head(channel) \in Events /\ channel' \in Seq(Events)
    BY <1>0, <1>9, ChannelTypes DEF Deliver
  <2>2. heard' \in [Sockets -> HeardType]
    BY <1>0, <1>9, <2>1, SendTypes DEF Deliver
  <2> QED
    BY <1>0, <1>1, <1>9, <2>1, <2>2 DEF Deliver, FeedTypeInv
<1>10. CASE Subscribe
  BY <1>0, <1>1, <1>10 DEF Subscribe, FeedTypeInv
<1>11. CASE SubscriptionBreaks
  <2>1. channel' \in Seq(Events)
    BY <1>0, <1>11, ChannelTypes DEF SubscriptionBreaks
  <2>2. subscriber' \in {"starting", "up", "lost"}
    BY <1>0, <1>11 DEF SubscriptionBreaks
  <2> QED
    BY <1>0, <1>1, <1>11, <2>1, <2>2 DEF SubscriptionBreaks, FeedTypeInv
<1>12. CASE ServerCrash
  <2>1. /\ rooms' = [j \in Jobs |-> NoSocket]
        /\ members' = [s \in Sockets |-> {}]
        /\ subscriber' = "starting" /\ channel' = <<>> /\ heard' = heard
    BY <1>12 DEF ServerCrash
  <2> QED
    BY <1>0, <1>1, <2>1 DEF FeedTypeInv
<1>13. CASE Silent /\ UNCHANGED feedVars
  BY <1>2, <1>13 DEF feedVars
<1>14. CASE UNCHANGED allVars
  BY <1>2, <1>14 DEF allVars
<1> QED
  BY <1>3, <1>4, <1>5, <1>6, <1>7, <1>8, <1>9, <1>10, <1>11, <1>12, <1>13, <1>14
     DEF FeedNext, SocketStep

\* The feed is type-correct for all sets of jobs, workers and sockets.
THEOREM FeedTypes == FeedSpec => []FeedTypeOK
<1>1. FeedTypeInv => FeedTypeOK
  <2> SUFFICES ASSUME FeedTypeInv PROVE FeedTypeOK
    OBVIOUS
  <2>1. \A s \in Sockets : socket[s].state # "new" => socket[s].job \in Jobs
    BY DEF FeedTypeInv, SocketsOK
  <2>2. socket \in [Sockets -> SocketType] /\ heard \in [Sockets -> HeardType]
    BY DEF FeedTypeInv, SocketsOK
  <2> QED
    BY <2>1, <2>2, Zenon DEF FeedTypeInv, SocketType, HeardType, FeedTypeOK
<1> QED
  BY <1>1, FeedTypeInit, FeedTypeStep, PTL DEF FeedSpec

-----------------------------------------------------------------------------
(* The rooms                                                               *)

\* A connected socket has captured the Set that the map still holds for its
\* job, and is in it.
CapturedIsHeld ==
    \A s \in Sockets : Connected(s) =>
        /\ rooms[socket[s].job] = socket[s].room
        /\ socket[s].room \in Sockets
        /\ s \in members[socket[s].room]

\* Only connected sockets are in a Set, each in the one it has captured.
MembersAreConnected ==
    \A r \in Sockets : \A s \in members[r] : Connected(s) /\ socket[s].room = r

\* A Set that the map holds serves one job, and has members.
HeldServesItsJob ==
    \A j \in Jobs : rooms[j] # NoSocket =>
        /\ members[rooms[j]] # {}
        /\ \A s \in members[rooms[j]] : socket[s].job = j

\* No Set is named after a socket that has not connected.
NewSocketsAreUnknown ==
    \A s \in Sockets : socket[s].state = "new" =>
        members[s] = {} /\ \A j \in Jobs : rooms[j] # s

RoomInv ==
    /\ CapturedIsHeld
    /\ MembersAreConnected
    /\ HeldServesItsJob
    /\ NewSocketsAreUnknown

\* To the rooms a socket is whether it is new or connected, to which job, and
\* the Set it has captured.
SameConnections ==
    \A s \in Sockets :
        /\ socket'[s].state = "new" <=> socket[s].state = "new"
        /\ Connected(s)' <=> Connected(s)
        /\ socket'[s].job = socket[s].job
        /\ socket'[s].room = socket[s].room

LEMMA RoomFrame ==
    ASSUME FeedTypeInv, RoomInv, SameConnections, UNCHANGED <<rooms, members>>
    PROVE  RoomInv'
<1>0. members \in [Sockets -> SUBSET Sockets]
  BY DEF FeedTypeInv
<1>1. CapturedIsHeld'
  BY DEF RoomInv, SameConnections, CapturedIsHeld
<1>2. MembersAreConnected'
  BY <1>0 DEF RoomInv, SameConnections, MembersAreConnected
<1>3. HeldServesItsJob'
  <2>1. \A j \in Jobs : rooms[j] # NoSocket => members[rooms[j]] \subseteq Sockets
    BY <1>0 DEF FeedTypeInv
  <2> QED
    BY <2>1 DEF RoomInv, SameConnections, HeldServesItsJob
<1>4. NewSocketsAreUnknown'
  BY DEF RoomInv, SameConnections, NewSocketsAreUnknown
<1> QED
  BY <1>1, <1>2, <1>3, <1>4 DEF RoomInv

\* Reading, sending, leaving and losing the subscription move no socket.
LEMMA QuietConnections ==
    ASSUME FeedTypeInv
    PROVE  /\ UNCHANGED socket => SameConnections
           /\ \A s \in Sockets : ReadSnapshot(s) => SameConnections
           /\ \A s \in Sockets : SendSnapshot(s) => SameConnections
           /\ \A s \in Sockets : SnapshotFailed(s) => SameConnections
           /\ \A s \in Sockets : ClientLeaves(s) => SameConnections
           /\ SubscriptionBreaks => SameConnections
<1>0. socket \in [Sockets -> SocketType] /\ NoEvent \in Events
  BY EventTypes DEF FeedTypeInv, SocketsOK
<1>1. UNCHANGED socket => SameConnections
  BY DEF SameConnections, Connected
<1>2. ASSUME NEW s \in Sockets, ReadSnapshot(s) PROVE SameConnections
  BY <1>0, <1>2 DEF ReadSnapshot, SameConnections, Connected, SocketType
<1>3. ASSUME NEW s \in Sockets, SendSnapshot(s) PROVE SameConnections
  BY <1>0, <1>3 DEF SendSnapshot, SameConnections, Connected, SocketType
<1>4. ASSUME NEW s \in Sockets, SnapshotFailed(s) PROVE SameConnections
  BY <1>0, <1>4 DEF SnapshotFailed, SameConnections, Connected, SocketType
<1>5. ASSUME NEW s \in Sockets, ClientLeaves(s) PROVE SameConnections
  BY <1>0, <1>5 DEF ClientLeaves, SameConnections, Connected, SocketType
<1>6. ASSUME SubscriptionBreaks PROVE SameConnections
  <2>1. socket' = [s \in Sockets |-> IF Connected(s) THEN [socket[s] EXCEPT !.gap = TRUE]
                                                     ELSE socket[s]]
    BY <1>6 DEF SubscriptionBreaks
  <2> QED
    BY <1>0, <2>1 DEF SameConnections, Connected, SocketType
<1> QED
  BY <1>1, <1>2, <1>3, <1>4, <1>5, <1>6

\* A connection enters the Set of its job, or a new one of its own.
LEMMA ConnectRooms ==
    ASSUME FeedTypeInv, RoomInv, NEW s \in Sockets, NEW j \in Jobs, Connect(s, j)
    PROVE  RoomInv'
<1> DEFINE room == IF rooms[j] = NoSocket THEN s ELSE rooms[j]
<1>0. /\ rooms \in [Jobs -> Sockets \cup {NoSocket}]
      /\ members \in [Sockets -> SUBSET Sockets]
      /\ socket \in [Sockets -> SocketType]
      /\ \A q \in Sockets : Connected(q) => socket[q].job \in Jobs
  BY DEF FeedTypeInv, SocketsOK, Connected
<1>1. /\ room \in Sockets
      /\ rooms[j] # NoSocket => room = rooms[j]
      /\ rooms[j] = NoSocket => room = s
  BY <1>0
<1>2. socket[s].state = "new" /\ ~Connected(s) /\ members[s] = {}
      /\ \A i \in Jobs : rooms[i] # s
  BY DEF Connect, Connected, RoomInv, NewSocketsAreUnknown
<1>3. /\ members' = [members EXCEPT ![room] = @ \cup {s}]
      /\ rooms' = [rooms EXCEPT ![j] = room]
      /\ socket' = [socket EXCEPT ![s] = Joined(s, j, room)]
  BY DEF Connect
<1> HIDE DEF room
<1>4. /\ socket'[s].state = "open" /\ socket'[s].job = j /\ socket'[s].room = room
      /\ \A q \in Sockets \ {s} : socket'[q] = socket[q]
  BY <1>0, <1>3 DEF Joined, NewSocket
<1>5. /\ Connected(s)'
      /\ \A q \in Sockets \ {s} : Connected(q)' <=> Connected(q)
  BY <1>4 DEF Connected
<1>6. /\ rooms'[j] = room /\ \A i \in Jobs \ {j} : rooms'[i] = rooms[i]
      /\ members'[room] = members[room] \cup {s}
      /\ \A r \in Sockets \ {room} : members'[r] = members[r]
  BY <1>0, <1>1, <1>3
<1>7. CapturedIsHeld'
  <2>1. ASSUME NEW q \in Sockets \ {s}, Connected(q)
        PROVE  rooms'[socket[q].job] = socket[q].room /\ q \in members'[socket[q].room]
    <3>1. /\ rooms[socket[q].job] = socket[q].room /\ socket[q].room \in Sockets
          /\ q \in members[socket[q].room] /\ socket[q].job \in Jobs
      BY <1>0, <2>1 DEF RoomInv, CapturedIsHeld
    <3>2. socket[q].job = j => room = socket[q].room
      BY <1>1, <3>1, SocketsAssumption
    <3> QED
      BY <1>6, <3>1, <3>2
  <2>2. ASSUME NEW q \in Sockets \ {s}, Connected(q) PROVE socket[q].room \in Sockets
    BY <2>2 DEF RoomInv, CapturedIsHeld
  <2>3. rooms'[j] = room /\ s \in members'[room]
    BY <1>6
  <2> QED
    BY <1>1, <1>4, <1>5, <2>1, <2>2, <2>3 DEF CapturedIsHeld
<1>8. MembersAreConnected'
  <2>1. \A r \in Sockets : s \notin members[r]
    BY <1>2 DEF RoomInv, MembersAreConnected
  <2>2. ASSUME NEW r \in Sockets, NEW q \in members'[r], q # s
        PROVE  Connected(q)' /\ socket'[q].room = r
    <3>1. q \in members[r] /\ q \in Sockets
      BY <1>0, <1>6, <2>2
    <3> QED
      BY <1>4, <1>5, <2>2, <3>1 DEF RoomInv, MembersAreConnected
  <2>3. \A r \in Sockets : s \in members'[r] => r = room
    BY <1>6, <2>1
  <2> QED
    BY <1>4, <1>5, <2>2, <2>3 DEF MembersAreConnected
<1>9. HeldServesItsJob'
  <2>1. members'[room] # {}
    BY <1>6
  <2>2. ASSUME NEW q \in members'[room] PROVE socket'[q].job = j
    <3>1. CASE q = s
      BY <1>4, <3>1
    <3>2. CASE q # s
      <4>1. q \in members[room] /\ q \in Sockets
        BY <1>0, <1>1, <1>6, <2>2, <3>2
      <4>2. rooms[j] # NoSocket /\ room = rooms[j]
        BY <1>1, <1>2, <4>1
      <4> QED
        BY <1>4, <3>2, <4>1, <4>2 DEF RoomInv, HeldServesItsJob
    <3> QED
      BY <3>1, <3>2
  <2>3. ASSUME NEW i \in Jobs \ {j}, rooms'[i] # NoSocket
        PROVE  members'[rooms'[i]] # {} /\ \A q \in members'[rooms'[i]] : socket'[q].job = i
    <3>1. /\ rooms'[i] = rooms[i] /\ rooms[i] # NoSocket /\ rooms[i] \in Sockets
          /\ members[rooms[i]] # {} /\ \A q \in members[rooms[i]] : socket[q].job = i
      BY <1>0, <1>6, <2>3 DEF RoomInv, HeldServesItsJob
    <3>2. rooms[i] # room
      <4>1. CASE rooms[j] = NoSocket
        BY <1>1, <1>2, <4>1
      <4>2. CASE rooms[j] # NoSocket
        BY <1>1, <3>1, <4>2 DEF RoomInv, HeldServesItsJob
      <4> QED
        BY <4>1, <4>2
    <3>3. members'[rooms[i]] = members[rooms[i]]
      BY <1>6, <3>1, <3>2
    <3>4. s \notin members[rooms[i]] /\ members[rooms[i]] \subseteq Sockets
      BY <1>0, <1>2, <3>1 DEF RoomInv, MembersAreConnected
    <3> QED
      BY <1>4, <3>1, <3>3, <3>4
  <2> QED
    BY <1>6, <2>1, <2>2, <2>3 DEF HeldServesItsJob
<1>10. NewSocketsAreUnknown'
  <2>1. ASSUME NEW q \in Sockets, socket'[q].state = "new"
        PROVE  members'[q] = {} /\ \A i \in Jobs : rooms'[i] # q
    <3>1. q # s /\ socket[q].state = "new"
      BY <1>4, <2>1
    <3>2. members[q] = {} /\ \A i \in Jobs : rooms[i] # q
      BY <3>1 DEF RoomInv, NewSocketsAreUnknown
    <3>3. q # room
      BY <1>1, <3>1, <3>2
    <3> QED
      BY <1>6, <3>2, <3>3
  <2> QED
    BY <2>1 DEF NewSocketsAreUnknown
<1> QED
  BY <1>7, <1>8, <1>9, <1>10 DEF RoomInv

\* A close handler works on the Set it has captured, which is the one the map
\* holds: it can drop that Set only when nobody else is in it.
LEMMA CloseRooms ==
    ASSUME FeedTypeInv, RoomInv, NEW s \in Sockets, SocketClosed(s)
    PROVE  RoomInv'
<1> DEFINE room == socket[s].room
           j == socket[s].job
<1>0. /\ rooms \in [Jobs -> Sockets \cup {NoSocket}]
      /\ members \in [Sockets -> SUBSET Sockets]
      /\ socket \in [Sockets -> SocketType]
      /\ \A q \in Sockets : Connected(q) => socket[q].job \in Jobs
  BY DEF FeedTypeInv, SocketsOK, Connected
<1>1. Connected(s)
  BY DEF SocketClosed, Connected
<1>2. room \in Sockets /\ j \in Jobs /\ rooms[j] = room /\ s \in members[room]
  BY <1>0, <1>1 DEF RoomInv, CapturedIsHeld
<1>3. /\ members' = [members EXCEPT ![room] = @ \ {s}]
      /\ rooms' = IF members[room] \ {s} = {} THEN [rooms EXCEPT ![j] = NoSocket] ELSE rooms
      /\ socket' = [socket EXCEPT ![s].state = "closed"]
  BY DEF SocketClosed
<1>4. /\ socket'[s].state = "closed"
      /\ \A q \in Sockets \ {s} : socket'[q] = socket[q]
  BY <1>0, <1>3 DEF SocketType
<1>5. /\ ~Connected(s)'
      /\ \A q \in Sockets \ {s} : Connected(q)' <=> Connected(q)
  BY <1>4 DEF Connected
<1>6. /\ rooms'[j] = IF members[room] \ {s} = {} THEN NoSocket ELSE room
      /\ \A i \in Jobs \ {j} : rooms'[i] = rooms[i]
      /\ members'[room] = members[room] \ {s}
      /\ \A r \in Sockets \ {room} : members'[r] = members[r]
  BY <1>0, <1>2, <1>3
<1> HIDE DEF room, j
<1>7. CapturedIsHeld'
  <2>1. ASSUME NEW q \in Sockets \ {s}, Connected(q)
        PROVE  /\ rooms'[socket[q].job] = socket[q].room /\ socket[q].room \in Sockets
               /\ q \in members'[socket[q].room]
    <3>1. /\ rooms[socket[q].job] = socket[q].room /\ socket[q].room \in Sockets
          /\ q \in members[socket[q].room] /\ socket[q].job \in Jobs
      BY <1>0, <2>1 DEF RoomInv, CapturedIsHeld
    <3>2. q \in members'[socket[q].room]
      BY <1>6, <2>1, <3>1
    <3>3. CASE socket[q].job = j
      <4>1. socket[q].room = room
        BY <1>2, <3>1, <3>3
      <4>2. members[room] \ {s} # {}
        BY <3>1, <4>1, <2>1
      <4> QED
        BY <1>6, <3>1, <3>2, <3>3, <4>1, <4>2
    <3>4. CASE socket[q].job # j
      BY <1>6, <3>1, <3>2, <3>4
    <3> QED
      BY <3>3, <3>4
  <2> QED
    BY <1>4, <1>5, <2>1 DEF CapturedIsHeld
<1>8. MembersAreConnected'
  <2>1. ASSUME NEW r \in Sockets, NEW q \in members'[r]
        PROVE  Connected(q)' /\ socket'[q].room = r
    <3>1. q \in members[r] /\ q \in Sockets
      BY <1>0, <1>6, <2>1
    <3>2. Connected(q) /\ socket[q].room = r
      BY <3>1 DEF RoomInv, MembersAreConnected
    <3>3. q # s
      <4>1. CASE r = room
        BY <1>6, <2>1, <4>1
      <4>2. CASE r # room
        BY <3>2, <4>2 DEF room
      <4> QED
        BY <4>1, <4>2
    <3> QED
      BY <1>4, <1>5, <3>1, <3>2, <3>3
  <2> QED
    BY <2>1 DEF MembersAreConnected
<1>9. HeldServesItsJob'
  <2>1. ASSUME NEW i \in Jobs, rooms'[i] # NoSocket
        PROVE  members'[rooms'[i]] # {} /\ \A q \in members'[rooms'[i]] : socket'[q].job = i
    <3>1. rooms'[i] = rooms[i]
      BY <1>2, <1>6, <2>1
    <3>2. /\ rooms[i] \in Sockets
          /\ members[rooms[i]] # {} /\ \A q \in members[rooms[i]] : socket[q].job = i
      BY <1>0, <2>1, <3>1 DEF RoomInv, HeldServesItsJob
    <3>3. members'[rooms[i]] # {}
      <4>1. CASE i = j
        BY <1>2, <1>6, <2>1, <4>1
      <4>2. CASE i # j
        <5>1. rooms[i] # room
          BY <1>2, <3>2, <4>2 DEF j
        <5> QED
          BY <1>6, <3>2, <5>1
      <4> QED
        BY <4>1, <4>2
    <3>4. ASSUME NEW q \in members'[rooms[i]] PROVE socket'[q].job = i
      <4>1. q \in members[rooms[i]] /\ q \in Sockets
        BY <1>0, <1>6, <3>2, <3>4
      <4>2. socket'[q].job = socket[q].job
        BY <1>0, <1>3, <4>1 DEF SocketType
      <4> QED
        BY <3>2, <4>1, <4>2
    <3> QED
      BY <3>1, <3>3, <3>4
  <2> QED
    BY <2>1 DEF HeldServesItsJob
<1>10. NewSocketsAreUnknown'
  <2>1. ASSUME NEW q \in Sockets, socket'[q].state = "new"
        PROVE  members'[q] = {} /\ \A i \in Jobs : rooms'[i] # q
    <3>1. q # s /\ socket[q].state = "new"
      BY <1>4, <2>1
    <3>2. members[q] = {} /\ \A i \in Jobs : rooms[i] # q
      BY <3>1 DEF RoomInv, NewSocketsAreUnknown
    <3>3. \A i \in Jobs : rooms'[i] \in {rooms[i], NoSocket}
      BY <1>2, <1>6
    <3> QED
      BY <1>2, <1>6, <3>2, <3>3, SocketsAssumption
  <2> QED
    BY <2>1 DEF NewSocketsAreUnknown
<1> QED
  BY <1>7, <1>8, <1>9, <1>10 DEF RoomInv

LEMMA RoomInvStep == FeedTypeInv /\ RoomInv /\ [FeedNext]_allVars => RoomInv'
<1> SUFFICES ASSUME FeedTypeInv, RoomInv, [FeedNext]_allVars PROVE RoomInv'
  OBVIOUS
<1>1. CASE UNCHANGED <<rooms, members, socket>>
  BY <1>1, QuietConnections, RoomFrame
<1>2. ASSUME NEW s \in Sockets,
             ReadSnapshot(s) \/ SendSnapshot(s) \/ SnapshotFailed(s) \/ ClientLeaves(s)
      PROVE  RoomInv'
  <2>1. SameConnections
    BY <1>2, QuietConnections
  <2>2. UNCHANGED <<rooms, members>>
    BY <1>2 DEF ReadSnapshot, SendSnapshot, SnapshotFailed, ClientLeaves
  <2> QED
    BY <2>1, <2>2, RoomFrame
<1>3. CASE SubscriptionBreaks
  <2>1. SameConnections
    BY <1>3, QuietConnections
  <2>2. UNCHANGED <<rooms, members>>
    BY <1>3 DEF SubscriptionBreaks
  <2> QED
    BY <2>1, <2>2, RoomFrame
<1>4. CASE ServerCrash
  <2>0. socket \in [Sockets -> SocketType]
    BY DEF FeedTypeInv, SocketsOK
  <2>1. /\ rooms' = [j \in Jobs |-> NoSocket]
        /\ members' = [s \in Sockets |-> {}]
        /\ socket' = [s \in Sockets |->
                     IF socket[s].state = "new" THEN socket[s]
                     ELSE [socket[s] EXCEPT !.state = "closed", !.snapshot = "none",
                                            !.read = NoEvent]]
    BY <1>4 DEF ServerCrash
  <2>2. \A s \in Sockets : ~Connected(s)'
    BY <2>0, <2>1 DEF Connected, SocketType
  <2> QED
    BY <2>1, <2>2, SocketsAssumption
       DEF RoomInv, CapturedIsHeld, MembersAreConnected, HeldServesItsJob, NewSocketsAreUnknown
<1>5. CASE Silent /\ UNCHANGED feedVars
  BY <1>1, <1>5 DEF feedVars
<1>6. CASE UNCHANGED allVars
  BY <1>1, <1>6 DEF allVars
<1>7. CASE \/ \E j \in Jobs : PublishFromApi(j)
           \/ \E w \in Workers : PublishFromWorker(w)
           \/ Deliver
           \/ Subscribe
  BY <1>1, <1>7 DEF PublishFromApi, PublishFromWorker, Deliver, Subscribe
<1> QED
  BY <1>2, <1>3, <1>4, <1>5, <1>6, <1>7, ConnectRooms, CloseRooms DEF FeedNext, SocketStep

\* Although every close handler works on the Set that it captured when its
\* socket connected, the Set that the map holds for a job has exactly the
\* connected sockets of that job, and is dropped with the last of them.
THEOREM RoomsNeverLeak == FeedSpec => []RoomsAreExact
<1>1. FeedInit => RoomInv
  BY SocketsAssumption
     DEF FeedInit, RoomInv, CapturedIsHeld, MembersAreConnected, HeldServesItsJob,
         NewSocketsAreUnknown, NewSocket, Connected
<1>2. FeedTypeInv /\ RoomInv => RoomsAreExact
  <2> SUFFICES ASSUME FeedTypeInv, RoomInv, NEW j \in Jobs
               PROVE  /\ RoomOf(j) = {s \in Sockets : Connected(s) /\ socket[s].job = j}
                      /\ rooms[j] # NoSocket => RoomOf(j) # {}
    BY DEF RoomsAreExact
  <2>0. /\ rooms[j] \in Sockets \cup {NoSocket}
        /\ members \in [Sockets -> SUBSET Sockets]
    BY DEF FeedTypeInv
  <2>1. ASSUME NEW s \in RoomOf(j) PROVE s \in Sockets /\ Connected(s) /\ socket[s].job = j
    BY <2>0, <2>1 DEF RoomOf, RoomInv, MembersAreConnected, HeldServesItsJob
  <2>2. ASSUME NEW s \in Sockets, Connected(s), socket[s].job = j PROVE s \in RoomOf(j)
    BY <2>0, <2>2, SocketsAssumption DEF RoomOf, RoomInv, CapturedIsHeld
  <2>3. rooms[j] # NoSocket => RoomOf(j) # {}
    BY DEF RoomOf, RoomInv, HeldServesItsJob
  <2> QED
    BY <2>1, <2>2, <2>3
<1> QED
  BY <1>1, <1>2, FeedTypeInit, FeedTypeStep, RoomInvStep, PTL DEF FeedSpec

-----------------------------------------------------------------------------
(* Announcements                                                           *)

\* The route that e names, if it names one, is among the saved ones.
NamesSavedRoute(e, saved) ==
    e.status = "completed" => e.job \in Jobs /\ e.route \in 1 .. saved[e.job]

\* A worker that will still announce a route has saved it.
WorkersHoldSavedRoutes ==
    \A w \in Workers :
        worker[w].pc \in {"cache", "sayCompleted"} =>
            worker[w].route \in 1 .. routes[worker[w].job]

\* Wherever an event is: with the client, in the channel or read for a socket.
EventsNameSavedRoutes ==
    /\ \A s \in Sockets : NamesSavedRoute(heard[s].last, routes)
    /\ \A i \in 1 .. Len(channel) : NamesSavedRoute(channel[i], routes)
    /\ \A s \in Sockets : NamesSavedRoute(socket[s].read, routes)

\* No step of the jobs takes a route away.
LEMMA RoutesNeverDecrease ==
    ASSUME TypeOK, [Next]_vars
    PROVE  \A j \in Jobs : routes'[j] \in Nat /\ routes[j] <= routes'[j]
<1>0. routes \in [Jobs -> Nat]
  BY DEF TypeOK
<1>1. CASE UNCHANGED routes
  BY <1>0, <1>1
<1>2. ASSUME NEW w \in Workers, NEW o \in DbOutcomes, CompleteJob(w, o)
      PROVE  \A j \in Jobs : routes'[j] \in Nat /\ routes[j] <= routes'[j]
  BY <1>0, <1>2 DEF CompleteJob
<1>3. CASE \E w \in Workers, o \in DbOutcomes : CompleteJob(w, o)
  BY <1>2, <1>3
<1>4. CASE \/ \E j \in Jobs, o \in DbOutcomes : CreateJob(j, o) \/ FailEnqueue(j, o)
           \/ \E j \in Jobs : QueueAdd(j) \/ QueueAddRefused(j) \/ AnnounceFromApi(j)
           \/ \E w \in Workers, j \in Jobs : Fetch(w, j)
  BY <1>1, <1>4
     DEF CreateJob, FailEnqueue, QueueAdd, QueueAddRefused, AnnounceFromApi, Fetch
<1>5. CASE \/ \E w \in Workers, o \in DbOutcomes : MarkProcessing(w, o) \/ RecordFailure(w, o)
           \/ \E w \in Workers : \/ Compute(w) \/ CacheResult(w) \/ Acknowledge(w)
                                 \/ Reject(w) \/ AnnounceFromWorker(w)
  BY <1>1, <1>5
     DEF MarkProcessing, RecordFailure, Compute, CacheResult, Acknowledge, Reject,
         AnnounceFromWorker
<1>6. CASE \/ \E j \in Jobs : BackoffElapsed(j) \/ StalledCheck(j)
           \/ \E w \in Workers : LockExpires(w) \/ WorkerCrash(w)
           \/ RedisFails \/ RedisRecovers \/ ApiCrash
  BY <1>1, <1>6
     DEF BackoffElapsed, StalledCheck, LockExpires, WorkerCrash, RedisFails, RedisRecovers,
         ApiCrash
<1>7. CASE UNCHANGED vars
  BY <1>1, <1>7 DEF vars
<1> QED
  BY <1>3, <1>4, <1>5, <1>6, <1>7 DEF Next, Silent, SilentApiStep, SilentWorkerStep

LEMMA SavedStaysSaved ==
    ASSUME TypeOK, [Next]_vars
    PROVE  \A e \in Events : NamesSavedRoute(e, routes) => NamesSavedRoute(e, routes')
<1>1. \A j \in Jobs : /\ routes[j] \in Nat /\ routes'[j] \in Nat
                      /\ routes[j] <= routes'[j]
  BY RoutesNeverDecrease DEF TypeOK
<1> QED
  BY <1>1 DEF NamesSavedRoute, Events

\* A worker comes to a route by completing its job, and keeps it.
LEMMA RouteHolders ==
    ASSUME TypeOK, [Next]_vars, NEW w \in Workers,
           worker'[w].pc \in {"cache", "sayCompleted"}
    PROVE  /\ worker'[w].job = worker[w].job
           /\ \/ /\ worker[w].pc \in {"cache", "sayCompleted"}
                 /\ worker'[w].route = worker[w].route
              \/ /\ worker[w].pc = "complete"
                 /\ worker'[w].route = routes[worker[w].job] + 1
                 /\ routes'[worker[w].job] = routes[worker[w].job] + 1
<1> DEFINE Goal == /\ worker'[w].job = worker[w].job
                   /\ \/ /\ worker[w].pc \in {"cache", "sayCompleted"}
                         /\ worker'[w].route = worker[w].route
                      \/ /\ worker[w].pc = "complete"
                         /\ worker'[w].route = routes[worker[w].job] + 1
                         /\ routes'[worker[w].job] = routes[worker[w].job] + 1
<1>0. /\ worker \in [Workers -> [pc : WorkerSteps, job : Jobs \cup {NoJob},
                                 made : Nat, route : Nat]]
      /\ \A v \in Workers : worker[v].pc # "idle" => worker[v].job \in Jobs
      /\ routes \in [Jobs -> Nat]
  BY DEF TypeOK
<1>1. CASE worker'[w] = worker[w]
  BY <1>1
<1>2. CASE UNCHANGED worker
  BY <1>1, <1>2
<1>3. ASSUME NEW v \in Workers, NEW o \in DbOutcomes, CompleteJob(v, o) PROVE Goal
  <2>1. CASE v # w
    BY <1>0, <1>1, <1>3, <2>1 DEF CompleteJob
  <2>2. CASE v = w
    <3>1. o = "ok"
      BY <1>0, <1>3, <2>2 DEF CompleteJob
    <3> QED
      BY <1>0, <1>3, <2>2, <3>1 DEF CompleteJob
  <2> QED
    BY <2>1, <2>2
<1>4. ASSUME NEW v \in Workers, CacheResult(v) PROVE Goal
  BY <1>0, <1>4 DEF CacheResult, WorkerGoto
<1>5. ASSUME NEW v \in Workers, NEW j \in Jobs, Fetch(v, j) PROVE Goal
  BY <1>0, <1>1, <1>5 DEF Fetch
<1>6. ASSUME NEW v \in Workers, NEW o \in DbOutcomes, MarkProcessing(v, o) PROVE Goal
  BY <1>0, <1>1, <1>6 DEF MarkProcessing, Proceed, WorkerGoto
<1>7. ASSUME NEW v \in Workers, NEW o \in DbOutcomes, RecordFailure(v, o) PROVE Goal
  BY <1>0, <1>1, <1>7 DEF RecordFailure, WorkerGoto
<1>8. ASSUME NEW v \in Workers, Compute(v) PROVE Goal
  BY <1>0, <1>1, <1>8 DEF Compute, WorkerGoto
<1>9. ASSUME NEW v \in Workers, AnnounceFromWorker(v) PROVE Goal
  BY <1>0, <1>1, <1>9 DEF AnnounceFromWorker, WorkerGoto
<1>10. ASSUME NEW v \in Workers, Acknowledge(v) \/ Reject(v) \/ WorkerCrash(v) PROVE Goal
  <2>1. worker' = [worker EXCEPT ![v] = IdleWorker]
    BY <1>10 DEF Acknowledge, Reject, WorkerCrash
  <2> QED
    BY <1>0, <1>1, <2>1 DEF IdleWorker
<1>11. CASE \/ \E j \in Jobs, o \in DbOutcomes : CreateJob(j, o) \/ FailEnqueue(j, o)
            \/ \E j \in Jobs : \/ QueueAdd(j) \/ QueueAddRefused(j) \/ AnnounceFromApi(j)
                               \/ BackoffElapsed(j) \/ StalledCheck(j)
            \/ \E v \in Workers : LockExpires(v)
            \/ RedisFails \/ RedisRecovers \/ ApiCrash \/ UNCHANGED vars
  BY <1>2, <1>11
     DEF CreateJob, FailEnqueue, QueueAdd, QueueAddRefused, AnnounceFromApi, BackoffElapsed,
         StalledCheck, LockExpires, RedisFails, RedisRecovers, ApiCrash, vars
<1> QED
  BY <1>3, <1>4, <1>5, <1>6, <1>7, <1>8, <1>9, <1>10, <1>11
     DEF Next, Silent, SilentApiStep, SilentWorkerStep

LEMMA HoldersStep ==
    ASSUME TypeOK, WorkersHoldSavedRoutes, [Next]_vars
    PROVE  WorkersHoldSavedRoutes'
<1>1. \A j \in Jobs : /\ routes[j] \in Nat /\ routes'[j] \in Nat
                      /\ routes[j] <= routes'[j]
  BY RoutesNeverDecrease DEF TypeOK
<1>2. \A w \in Workers : worker[w].pc # "idle" => worker[w].job \in Jobs
  BY DEF TypeOK
<1>3. ASSUME NEW w \in Workers, worker'[w].pc \in {"cache", "sayCompleted"}
      PROVE  worker'[w].route \in 1 .. routes'[worker'[w].job]
  <2>1. /\ worker'[w].job = worker[w].job
        /\ \/ /\ worker[w].pc \in {"cache", "sayCompleted"}
              /\ worker'[w].route = worker[w].route
           \/ /\ worker[w].pc = "complete"
              /\ worker'[w].route = routes[worker[w].job] + 1
              /\ routes'[worker[w].job] = routes[worker[w].job] + 1
    BY <1>3, RouteHolders
  <2>2. worker[w].job \in Jobs
    BY <1>2, <2>1
  <2>3. CASE worker[w].pc \in {"cache", "sayCompleted"} /\ worker'[w].route = worker[w].route
    <3>1. worker[w].route \in 1 .. routes[worker[w].job]
      BY <2>3 DEF WorkersHoldSavedRoutes
    <3> QED
      BY <1>1, <2>1, <2>2, <2>3, <3>1
  <2>4. CASE /\ worker'[w].route = routes[worker[w].job] + 1
             /\ routes'[worker[w].job] = routes[worker[w].job] + 1
    BY <1>1, <2>1, <2>2, <2>4
  <2> QED
    BY <2>1, <2>3, <2>4
<1> QED
  BY <1>3 DEF WorkersHoldSavedRoutes

\* Whatever is about to be published or read names a saved route.
LEMMA SourcesNameSavedRoutes ==
    ASSUME TypeOK, ResultIntegrity, WorkersHoldSavedRoutes
    PROVE  /\ \A j \in Jobs : NamesSavedRoute(ApiAnnouncement(j), routes)
           /\ \A w \in Workers :
                 worker[w].pc \in {"sayProcessing", "sayCompleted", "sayFailed", "sayQueued"}
                     => NamesSavedRoute(WorkerAnnouncement(w), routes)
           /\ \A j \in Jobs : NamesSavedRoute(Event(j, row[j].status, row[j].route,
                                                    row[j].reason), routes)
<1>1. \A j \in Jobs : NamesSavedRoute(ApiAnnouncement(j), routes)
  BY DEF ApiAnnouncement, Event, NamesSavedRoute
<1>2. ASSUME NEW w \in Workers,
             worker[w].pc \in {"sayProcessing", "sayCompleted", "sayFailed", "sayQueued"}
      PROVE  NamesSavedRoute(WorkerAnnouncement(w), routes)
  <2>1. CASE worker[w].pc = "sayCompleted"
    <3>1. worker[w].job \in Jobs /\ worker[w].route \in 1 .. routes[worker[w].job]
      BY <2>1 DEF TypeOK, WorkersHoldSavedRoutes
    <3>2. WorkerAnnouncement(w) = Event(worker[w].job, "completed", worker[w].route, "none")
      BY <2>1 DEF WorkerAnnouncement
    <3> QED
      BY <3>1, <3>2 DEF Event, NamesSavedRoute
  <2>2. CASE worker[w].pc # "sayCompleted"
    BY <1>2, <2>2 DEF WorkerAnnouncement, Event, NamesSavedRoute
  <2> QED
    BY <2>1, <2>2
<1>3. \A j \in Jobs : NamesSavedRoute(Event(j, row[j].status, row[j].route,
                                            row[j].reason), routes)
  BY DEF TypeOK, ResultIntegrity, Event, NamesSavedRoute
<1> QED
  BY <1>1, <1>2, <1>3

AnnouncementInv ==
    /\ FeedTypeInv
    /\ IntegrityInv
    /\ WorkersHoldSavedRoutes
    /\ EventsNameSavedRoutes

\* What the three places hold stays good, and only good events enter them.
LEMMA EventsStep ==
    ASSUME AnnouncementInv, [FeedNext]_allVars
    PROVE  EventsNameSavedRoutes'
<1>0. /\ TypeOK /\ [Next]_vars
      /\ socket \in [Sockets -> SocketType]
      /\ heard \in [Sockets -> HeardType]
      /\ channel \in Seq(Events)
  BY FeedStepIsJobStep DEF AnnouncementInv, FeedTypeInv, SocketsOK
<1>1. \A e \in Events : NamesSavedRoute(e, routes) => NamesSavedRoute(e, routes')
  BY <1>0, SavedStaysSaved
<1>2. /\ \A s \in Sockets : heard[s].last \in Events /\ socket[s].read \in Events
      /\ \A i \in 1 .. Len(channel) : channel[i] \in Events
  BY <1>0 DEF SocketType, HeardType
<1>3. /\ \A s \in Sockets : NamesSavedRoute(heard[s].last, routes')
      /\ \A i \in 1 .. Len(channel) : NamesSavedRoute(channel[i], routes')
      /\ \A s \in Sockets : NamesSavedRoute(socket[s].read, routes')
  BY <1>1, <1>2 DEF AnnouncementInv, EventsNameSavedRoutes
<1>4. NoEvent \in Events /\ NamesSavedRoute(NoEvent, routes')
  BY <1>0, EventTypes DEF NoEvent, NamesSavedRoute
<1>5. ASSUME NEW e \in Events, NamesSavedRoute(e, routes'), NEW to, Send(e, to)
      PROVE  \A s \in Sockets : NamesSavedRoute(heard'[s].last, routes')
  BY <1>3, <1>5 DEF Send
<1>6. ASSUME NEW e \in Events, NamesSavedRoute(e, routes), Published(e)
      PROVE  \A i \in 1 .. Len(channel') : NamesSavedRoute(channel'[i], routes')
  <2>1. NamesSavedRoute(e, routes')
    BY <1>1, <1>6
  <2>2. CASE channel' = channel
    BY <1>3, <2>2
  <2>3. CASE channel' = Append(channel, e)
    <3>1. /\ Len(channel') = Len(channel) + 1
          /\ \A i \in 1 .. Len(channel) : channel'[i] = channel[i]
          /\ channel'[Len(channel) + 1] = e
      BY <1>0, <2>3
    <3>2. \A i \in 1 .. Len(channel') : i \in 1 .. Len(channel) \/ i = Len(channel) + 1
      BY <1>0, <3>1
    <3> QED
      BY <1>3, <2>1, <3>1, <3>2
  <2> QED
    BY <1>6, <2>2, <2>3 DEF Published
<1>7. CASE UNCHANGED <<heard, channel, socket>>
  BY <1>3, <1>7 DEF EventsNameSavedRoutes
<1>8. ASSUME NEW j \in Jobs, PublishFromApi(j) PROVE EventsNameSavedRoutes'
  <2>1. ApiAnnouncement(j) \in Events /\ NamesSavedRoute(ApiAnnouncement(j), routes)
    BY <1>0, EventTypes, SourcesNameSavedRoutes DEF AnnouncementInv, IntegrityInv
  <2>2. \A i \in 1 .. Len(channel') : NamesSavedRoute(channel'[i], routes')
    BY <1>6, <1>8, <2>1 DEF PublishFromApi
  <2> QED
    BY <1>3, <1>8, <2>2 DEF PublishFromApi, EventsNameSavedRoutes
<1>9. ASSUME NEW w \in Workers, PublishFromWorker(w) PROVE EventsNameSavedRoutes'
  <2>1. worker[w].pc \in {"sayProcessing", "sayCompleted", "sayFailed", "sayQueued"}
    BY <1>9 DEF PublishFromWorker, AnnounceFromWorker
  <2>2. WorkerAnnouncement(w) \in Events /\ NamesSavedRoute(WorkerAnnouncement(w), routes)
    BY <1>0, <2>1, EventTypes, SourcesNameSavedRoutes DEF AnnouncementInv, IntegrityInv
  <2>3. \A i \in 1 .. Len(channel') : NamesSavedRoute(channel'[i], routes')
    BY <1>6, <1>9, <2>2 DEF PublishFromWorker
  <2> QED
    BY <1>3, <1>9, <2>3 DEF PublishFromWorker, EventsNameSavedRoutes
<1>10. ASSUME NEW s \in Sockets, NEW j \in Jobs, Connect(s, j) PROVE EventsNameSavedRoutes'
  <2>1. \A q \in Sockets : socket'[q].read \in {socket[q].read, NoEvent}
    BY <1>0, <1>10 DEF Connect, Joined, NewSocket
  <2> QED
    BY <1>3, <1>4, <1>10, <2>1 DEF Connect, EventsNameSavedRoutes
<1>11. ASSUME NEW s \in Sockets, ReadSnapshot(s) PROVE EventsNameSavedRoutes'
  <2> DEFINE j == socket[s].job
             e == Event(j, row[j].status, row[j].route, row[j].reason)
  <2>1. j \in Jobs
    BY <1>0, <1>11 DEF ReadSnapshot, AnnouncementInv, FeedTypeInv, SocketsOK
  <2>2. NamesSavedRoute(e, routes')
    BY <1>0, <1>1, <2>1, EventTypes, SourcesNameSavedRoutes DEF AnnouncementInv, IntegrityInv
  <2>3. \A q \in Sockets : socket'[q].read \in {socket[q].read, e}
    BY <1>0, <1>11 DEF ReadSnapshot, SocketType
  <2> HIDE DEF e
  <2> QED
    BY <1>3, <1>11, <2>2, <2>3 DEF ReadSnapshot, EventsNameSavedRoutes
<1>12. ASSUME NEW s \in Sockets, SendSnapshot(s) PROVE EventsNameSavedRoutes'
  <2>1. \A q \in Sockets : NamesSavedRoute(heard'[q].last, routes')
    BY <1>2, <1>3, <1>5, <1>12 DEF SendSnapshot
  <2>2. \A q \in Sockets : socket'[q].read \in {socket[q].read, NoEvent}
    BY <1>0, <1>12 DEF SendSnapshot, SocketType
  <2> QED
    BY <1>3, <1>4, <1>12, <2>1, <2>2 DEF SendSnapshot, EventsNameSavedRoutes
<1>13. ASSUME NEW s \in Sockets, SnapshotFailed(s) \/ ClientLeaves(s) \/ SocketClosed(s)
       PROVE  EventsNameSavedRoutes'
  <2>1. \A q \in Sockets : socket'[q].read = socket[q].read
    <3>1. CASE SnapshotFailed(s)
      BY <1>0, <3>1 DEF SnapshotFailed, SocketType
    <3>2. CASE ClientLeaves(s)
      BY <1>0, <3>2 DEF ClientLeaves, SocketType
    <3>3. CASE SocketClosed(s)
      BY <1>0, <3>3 DEF SocketClosed, SocketType
    <3> QED
      BY <1>13, <3>1, <3>2, <3>3
  <2>2. UNCHANGED <<heard, channel>>
    BY <1>13 DEF SnapshotFailed, ClientLeaves, SocketClosed
  <2> QED
    BY <1>3, <2>1, <2>2 DEF EventsNameSavedRoutes
<1>14. CASE Deliver
  <2>1. Head(channel) \in Events /\ NamesSavedRoute(Head(channel), routes')
    BY <1>0, <1>3, <1>14 DEF Deliver
  <2>2. \A s \in Sockets : NamesSavedRoute(heard'[s].last, routes')
    BY <1>5, <1>14, <2>1 DEF Deliver
  <2>3. /\ Len(channel') \in Nat /\ Len(channel) = Len(channel') + 1
        /\ \A i \in 1 .. Len(channel') : channel'[i] = channel[i + 1]
    BY <1>0, <1>14 DEF Deliver
  <2>4. \A i \in 1 .. Len(channel') : i + 1 \in 1 .. Len(channel)
    BY <2>3
  <2> QED
    BY <1>3, <1>14, <2>2, <2>3, <2>4 DEF Deliver, EventsNameSavedRoutes
<1>15. CASE SubscriptionBreaks
  <2>1. PICK n \in 0 .. Len(channel) : channel' = SubSeq(channel, 1, n)
    BY <1>15 DEF SubscriptionBreaks
  <2>2. /\ Len(channel') = n /\ n \in Nat
        /\ \A i \in 1 .. n : channel'[i] = channel[i] /\ i \in 1 .. Len(channel)
    BY <1>0, <2>1
  <2>3. \A q \in Sockets : socket'[q].read = socket[q].read
    BY <1>0, <1>15 DEF SubscriptionBreaks, SocketType
  <2> QED
    BY <1>3, <1>15, <2>2, <2>3 DEF SubscriptionBreaks, EventsNameSavedRoutes
<1>16. CASE ServerCrash
  <2>1. heard' = heard /\ channel' = <<>>
    BY <1>16 DEF ServerCrash
  <2>2. \A q \in Sockets : socket'[q].read \in {socket[q].read, NoEvent}
    BY <1>0, <1>16 DEF ServerCrash, SocketType
  <2> QED
    BY <1>3, <1>4, <2>1, <2>2 DEF EventsNameSavedRoutes
<1>17. CASE Subscribe
  BY <1>7, <1>17 DEF Subscribe
<1>18. CASE Silent /\ UNCHANGED feedVars
  BY <1>7, <1>18 DEF feedVars
<1>19. CASE UNCHANGED allVars
  BY <1>7, <1>19 DEF allVars
<1> QED
  BY <1>8, <1>9, <1>10, <1>11, <1>12, <1>13, <1>14, <1>15, <1>16, <1>17, <1>18, <1>19
     DEF FeedNext, SocketStep

\* No client is ever told of a route that it could not fetch, whatever is lost
\* or repeated on the way.
THEOREM AnnouncementsAreSound == FeedSpec => []AnnouncedRouteExists
<1>1. FeedInit => AnnouncementInv
  <2>1. Init => ResultIntegrity /\ CachesSavedRoutes
    BY DEF Init, ResultIntegrity, CachesSavedRoutes, NoRow, IdleWorker
  <2>2. FeedInit => WorkersHoldSavedRoutes /\ EventsNameSavedRoutes
    BY DEF FeedInit, Init, WorkersHoldSavedRoutes, EventsNameSavedRoutes, IdleWorker,
           NewSocket, NoEvent, NamesSavedRoute
  <2> QED
    BY <2>1, <2>2, FeedTypeInit, TypeInit DEF AnnouncementInv, IntegrityInv, FeedInit
<1>2. AnnouncementInv /\ [FeedNext]_allVars => AnnouncementInv'
  BY FeedTypeStep, FeedStepIsJobStep, IntegrityInvStep, HoldersStep, EventsStep
     DEF AnnouncementInv, IntegrityInv
<1>3. AnnouncementInv => AnnouncedRouteExists
  BY DEF AnnouncementInv, EventsNameSavedRoutes, NamesSavedRoute, AnnouncedRouteExists
<1> QED
  BY <1>1, <1>2, <1>3, PTL DEF FeedSpec
=============================================================================
