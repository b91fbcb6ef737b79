------------------------------- MODULE MCMsgQuery -------------------------------
(* Small instances of MsgQuery for TLC. *)
EXTENDS MsgQuery, TLC

CONSTANTS alice, bob, face, room, hall, c1, c2, hello, photo, reply

Chats == hello :> room @@ photo :> room @@ reply :> room
Authors == hello :> alice @@ photo :> alice @@ reply :> bob
Times == hello :> 1 @@ photo :> 2 @@ reply :> 2

\* The server's zone is one unit east of Greenwich.
EastOf(t) == t + 1
WestOf(t) == t - 1

Ask(op, u, chat, from, to, n, keyed) ==
    [op |-> op, requester |-> u, chat |-> chat, from |-> from, to |-> to,
     count |-> n, keyed |-> keyed]

AllRequests ==
    {Ask("history", bob, room, 2, 2, 0, {}),
     Ask("recent", Nobody, room, 1, 1, 2, {}),
     Ask("search", Nobody, AnyChat, 1, 1, 0, {hello})}

\* One call asks for a history, and the other for something else.
OneHistory == OpOf(c1) = "history" /\ OpOf(c2) # "history"
=============================================================================
