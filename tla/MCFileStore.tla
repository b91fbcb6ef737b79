------------------------------ MODULE MCFileStore ------------------------------
(* Small instances of FileStore for TLC. *)
EXTENDS FileStore, TLC

CONSTANTS c1, c2, c3, avatar, photo, x, y, z

Old == <<z, z>>
OneFile == [f \in File |-> IF f = avatar THEN Old ELSE NoFile]

Put(items) == [op |-> "put", items |-> items]
Get(names) == [op |-> "get",
               items |-> [i \in DOMAIN names |->
                             [name |-> names[i], content |-> <<>>]]]
Of(name, content) == [name |-> name, content |-> content]

\* Short and long contents, for ids of the client's and of the service's
\* choice, and gets of all of them.
AllRequests ==
    {Put(<<Of(avatar, <<x, y>>)>>), Put(<<Of(avatar, <<y>>)>>),
     Put(<<Of(NoName, <<x, y>>), Of(photo, <<y>>)>>),
     Get(<<avatar>>), Get(<<NoName, <<c1, 1>>>>)}

\* The requests name a file that c1 puts; the other calls are alike.
OtherCalls == Permutations({c2, c3})
=============================================================================
