--------------------------- MODULE ThrottledServer ---------------------------
(***************************************************************************)
(* What the geocoder promises to the public services it asks               *)
(* (README.md, "serialized to keep external usage modest"): one request is *)
(* in progress at a time and two of them start at least Interval apart,    *)
(* whatever happens to the requests.                                       *)
(***************************************************************************)
EXTENDS Naturals

CONSTANTS
    Clients,    \* who may be served
    Nobody,     \* no client is being served
    Interval    \* ticks between two starts

VARIABLES
    serving,    \* the client being served, or Nobody
    quiet       \* ticks since the last start, counted up to Interval

Init == serving = Nobody /\ quiet = Interval

Start(c) ==
    /\ serving = Nobody
    /\ quiet = Interval
    /\ serving' = c
    /\ quiet' = 0

Finish ==
    /\ serving # Nobody
    /\ serving' = Nobody
    /\ UNCHANGED quiet

Tick ==
    /\ quiet < Interval
    /\ quiet' = quiet + 1
    /\ UNCHANGED serving

Next == (\E c \in Clients : Start(c)) \/ Finish \/ Tick

Spec == Init /\ [][Next]_<<serving, quiet>>
=============================================================================
