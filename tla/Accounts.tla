------------------------------- MODULE Accounts -------------------------------
(***************************************************************************)
(* What the other services rely on of the user service: users stay, and    *)
(* the avatar a row names is a file.  Nothing is said of the other fields, *)
(* and nothing keeps an avatar: a setter that read the row before writes   *)
(* it back as it was, and what the file holds may be replaced at any time. *)
(***************************************************************************)
CONSTANTS User, Early,       \* users, and those from before
          Avatar, NoAvatar   \* ids of avatars, and the empty id

VARIABLES users,   \* registered users
          avatar,  \* [User -> Avatar or NoAvatar], the avatar ids of the rows
          files    \* avatars in the file service

absVars == <<users, avatar, files>>

Init ==
    /\ users = Early
    /\ avatar = [u \in User |-> NoAvatar]
    /\ files = {}

Register(u) ==
    /\ u \notin users
    /\ users' = users \cup {u}
    /\ UNCHANGED <<avatar, files>>

\* A put of an avatar: a new file, or a new content under the id of an old
\* one, of which users, avatar ids and files show nothing.
Upload(a) ==
    /\ files' = files \cup {a}
    /\ UNCHANGED <<users, avatar>>

\* A setter writes a whole row, with the avatar it read or uploaded.
WriteRow(u) ==
    /\ u \in users
    /\ \E a \in (files \cup {NoAvatar}) \ {avatar[u]} :
          avatar' = [avatar EXCEPT ![u] = a]
    /\ UNCHANGED <<users, files>>

Next ==
    \/ \E u \in User : Register(u) \/ WriteRow(u)
    \/ \E a \in Avatar : Upload(a)

Spec == Init /\ [][Next]_absVars
=============================================================================
