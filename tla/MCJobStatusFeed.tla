--------------------------- MODULE MCJobStatusFeed ---------------------------
(* Small instances of JobStatusFeed for TLC. *)
EXTENDS JobStatusFeed, TLC

FeedFaults == {"dbRefused", "redisDown", "apiCrash"}
RoomFaults == {"dbRefused", "dbReplyLost", "apiCrash"}
NoFaults == {}

SocketSymmetry == Permutations(Sockets)
=============================================================================
