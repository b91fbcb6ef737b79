------------------------------ MODULE MessageLog ------------------------------
(***************************************************************************)
(* What sending a message promises, whatever services it goes through.     *)
(*                                                                         *)
(* A caller hands in a message and gets a verdict.  A message may enter    *)
(* the chat history and the search index unless the verdict is             *)
(* "rejected", it enters each of them at most once, and what is there      *)
(* stays there.  A caller whose connection broke knows nothing             *)
(* ("unknown"): its message may or may not appear.                         *)
(***************************************************************************)
CONSTANT Message

VARIABLES verdict,  \* [Message -> Verdict], what the caller was told
          stored,   \* messages in the chat history
          indexed   \* messages full-text search can find

absVars == <<verdict, stored, indexed>>

Verdict == {"pending", "accepted", "rejected", "unknown"}

Init ==
    /\ verdict = [m \in Message |-> "pending"]
    /\ stored = {}
    /\ indexed = {}

Accept(m) ==
    /\ verdict[m] = "pending"
    /\ verdict' = [verdict EXCEPT ![m] = "accepted"]
    /\ UNCHANGED <<stored, indexed>>

\* Only a message no reader can see may still be refused.
Reject(m) ==
    /\ verdict[m] = "pending"
    /\ m \notin stored \cup indexed
    /\ verdict' = [verdict EXCEPT ![m] = "rejected"]
    /\ UNCHANGED <<stored, indexed>>

\* One crash may leave several callers without an answer.
Abandon(M) ==
    /\ \A m \in M : verdict[m] = "pending"
    /\ verdict' = [m \in Message |->
                     IF m \in M THEN "unknown" ELSE verdict[m]]
    /\ UNCHANGED <<stored, indexed>>

Store(m) ==
    /\ verdict[m] # "rejected"
    /\ m \notin stored
    /\ stored' = stored \cup {m}
    /\ UNCHANGED <<verdict, indexed>>

Index(m) ==
    /\ verdict[m] # "rejected"
    /\ m \notin indexed
    /\ indexed' = indexed \cup {m}
    /\ UNCHANGED <<verdict, stored>>

Next ==
    \/ \E m \in Message : Accept(m) \/ Reject(m) \/ Store(m) \/ Index(m)
    \/ \E M \in SUBSET Message : Abandon(M)

Spec == Init /\ [][Next]_absVars
=============================================================================
