-------------------------------- MODULE Uploads --------------------------------
(***************************************************************************)
(* What the other services rely on of the file service, for files whose id *)
(* it makes up: a file is there all at once, with a content that somebody  *)
(* asked for, and stays as it is.                                          *)
(***************************************************************************)
CONSTANTS FileId,   \* file ids
          Content,  \* what is uploaded
          None      \* no file

VARIABLE shelf      \* [FileId -> Content or None]

Init == shelf = [i \in FileId |-> None]

Upload(i) ==
    /\ shelf[i] = None
    /\ shelf'[i] \in Content
    /\ shelf' = [shelf EXCEPT ![i] = shelf'[i]]

Next == \E i \in FileId : Upload(i)

Spec == Init /\ [][Next]_shelf
=============================================================================
