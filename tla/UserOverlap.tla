------------------------------ MODULE UserOverlap ------------------------------
(***************************************************************************)
(* UserService with a history of which calls were over before which: what  *)
(* logins and setters of one account guarantee when they do not overlap.   *)
(* The history is no part of the code; it only watches.                    *)
(***************************************************************************)
EXTENDS UserService

VARIABLE after  \* [Call -> SUBSET Call], the rivals over when a call began

observedVars == <<vars, after>>

\* Logins, and setters of one user.
Rivals(c, d) ==
    \/ OpOf(c) \in Logins /\ OpOf(d) \in Logins
    \/ /\ OpOf(c) \in Setters /\ OpOf(d) \in Setters
       /\ task[c].user = task[d].user

Over(d) == {c \in Call : Rivals(c, d) /\ ~Running(c)}

Begins(d) == at[d] = 1 /\ at'[d] # 1

Watch ==
    after' = [d \in Call |-> IF Begins(d) THEN Over(d) ELSE after[d]]

ObservedInit == Init /\ after = [c \in Call |-> {}]
ObservedNext == Next /\ Watch
ObservedSpec == ObservedInit /\ [][ObservedNext]_observedVars

-----------------------------------------------------------------------------

\* A user who is logged in is not logged in once more, as long as the second
\* login begins after the answer to the first: the status a login sets last
\* is the one the next login looks for first, and nothing takes it away.
LaterLoginRefused ==
    \A c, d \in Call :
        /\ {OpOf(c), OpOf(d)} \subseteq Logins
        /\ c \in after[d]
        /\ result[c] = "ok" /\ result[d] = "ok"
        => who[c] # who[d]

\* What a setter was called for shows in a row.
Shows(c, row) ==
    IF OpOf(c) = "setAvatar" THEN row.avatar # Null
    ELSE row[FieldOf(OpOf(c))] = task[c].value

OtherSetters(c) ==
    {d \in Call \ {c} : OpOf(d) \in Setters /\ task[d].user = task[c].user}

\* No other setter of the user ran during the call, and none for the same
\* field ran after it.
Undisturbed(c) ==
    \A d \in OtherSetters(c) :
        \/ at[d] = 1
        \/ d \in after[c]
        \/ c \in after[d] /\ OpOf(d) # OpOf(c)

\* A confirmed change stays, if no setter of the user was under way at the
\* same time, however the later setters of other fields overlap each other:
\* all of them read the row when it has the change, and write it back.
UndisturbedChangeStays ==
    \A c \in Call :
        /\ OpOf(c) \in Setters
        /\ result[c] = "ok"
        /\ Undisturbed(c)
        => Shows(c, rows[task[c].user])

-----------------------------------------------------------------------------
(* Why: what the calls know that make the two inductive.                    *)

HistoryOK ==
    /\ after \in [Call -> SUBSET Call]
    /\ \A d \in Call : \A c \in after[d] : ~Running(c)

\* A login that found its user offline began before any login of the user
\* was confirmed.
LoginKnows(c) ==
    /\ Past(c, "status") => who[c] \in online
    /\ result[c] = "ok" => Past(c, "status")
    /\ Past(c, "offline") =>
          \A d \in after[c] :
              OpOf(d) \in Logins /\ result[d] = "ok" => who[d] # who[c]

\* The row of a registration is written once.
RowIsFresh(c) == rows[c] = NoRow \/ Past(c, "insert") \/ ~Running(c)

Done(c) == Past(c, "update") \/ result[c] = "ok"

\* What a change that is done left behind: it shows in the row and in every
\* copy that a setter under way will write back.
ShowsEverywhere(c) ==
    /\ Shows(c, rows[task[c].user])
    /\ \A d \in OtherSetters(c) :
          Running(d) /\ Past(d, "select") => Shows(c, user[d])

SetterKnows(c) ==
    /\ Past(c, "select") => who[c] = task[c].user
    /\ result[c] = "ok" => Past(c, "select")
    /\ Undisturbed(c) =>
          /\ Running(c) /\ Past(c, "select") =>
                /\ Shows(c, user[c])
                /\ OpOf(c) = "setAvatar" /\ user[c].avatar # c
                      => Shows(c, rows[task[c].user])
          /\ Done(c) => ShowsEverywhere(c)

OverlapInv ==
    /\ IInv
    /\ HistoryOK
    /\ \A c \in Call : RowIsFresh(c)
    /\ \A c \in Call : OpOf(c) \in Logins => LoginKnows(c)
    /\ \A c \in Call : OpOf(c) \in Setters => SetterKnows(c)
=============================================================================
