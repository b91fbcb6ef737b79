------------------------------- MODULE FileStore -------------------------------
(***************************************************************************)
(* The file service: getting and putting one or several files.  Every RPC  *)
(* thread works on the directory with streams of its own, and nothing in   *)
(* the service keeps a reader and the writers of one file apart.           *)
(*                                                                         *)
(* What a file holds is a sequence of blocks.  The kernel runs the writes  *)
(* and truncations of a file one after the other, but a reader sees a      *)
(* write as it proceeds.  A content of one block is taken to be short      *)
(* enough to stay in the stream's buffer until the file is closed.         *)
(***************************************************************************)
EXTENDS Naturals, Sequences

CONSTANTS
    Call,       \* RPC calls
    Name,       \* file ids that clients choose
    Block,      \* pieces of content
    Pad,        \* the zero bytes of std::string::resize
    NoName,     \* the empty file id
    NoFile,     \* what a name leads to that no file has
    Nobody,     \* no call
    MaxItems,   \* bound: files per request
    Requests,   \* what calls may ask for
    Given,      \* [File -> Content or NoFile], the files from before
    Faults,     \* the kinds of failure that may happen
    MaxFaults   \* bound: how many failures happen in one behaviour

\* uuid() names the file after the call that puts it, and the item.
File == Name \cup (Call \X (1..MaxItems))

Content == Seq(Block)

Item == [name : File \cup {NoName}, content : Content]
Request == [op : {"get", "put"}, items : Seq(Item)]

\* open: the file cannot be opened; write: a write of a long content fails
\* half-way; close: a short content cannot be written when the stream is
\* closed; crash: the process dies.
FaultKinds == {"open", "write", "close", "crash"}

ASSUME RequestsAssumption ==
    /\ Requests \subseteq Request
    /\ MaxItems \in Nat
    /\ \A r \in Requests : Len(r.items) <= MaxItems
ASSUME GivenAssumption == Given \in [File -> Content \cup {NoFile}]
ASSUME NamesAssumption ==
    NoName \notin File /\ NoFile \notin Content /\ Nobody \notin Call
ASSUME PadAssumption == Pad \notin Block
ASSUME FaultAssumption == Faults \subseteq FaultKinds /\ MaxFaults \in Nat

VARIABLES
    files,    \* [File -> Content or NoFile]
    writer,   \* [File -> Call or Nobody], whose write the kernel carries out
    result,   \* [Call -> Result]
    before,   \* [Call -> SUBSET Call], those over before it arrived
    item,     \* [Call -> Nat], the item a call works on
    phase,    \* [Call -> {"open", "size", "move"}], how far it is with it
    size,     \* [Call -> Nat], the size a reader measured
    data,     \* [Call -> Seq(Block)], what a reader has of the file
    moved,    \* [Call -> Nat], the blocks a writer has written
    answer,   \* [Call -> Seq(Content)], the contents a get answers with
    faults,   \* failures so far
    task      \* [Call -> Requests], what each call asks for

progress == <<item, phase, size, data, moved, answer>>
vars == <<files, writer, result, before, item, phase, size, data, moved,
          answer, faults, task>>

Result == {"idle", "running", "ok", "error", "lost"}

\* The call has been answered, or died.
Over(c) == result[c] \in {"ok", "error", "lost"}

OpOf(c) == task[c].op
Items(c) == task[c].items
NameOf(c, i) == Items(c)[i].name

\* An empty id is the empty file to a get, and a put makes one up for it.
Id(c, i) == IF NameOf(c, i) = NoName THEN <<c, i>> ELSE NameOf(c, i)

Current(c) == Id(c, item[c])
Wanted(c) == Items(c)[item[c]].content

AtPhase(c, op, step) ==
    /\ result[c] = "running" /\ OpOf(c) = op
    /\ item[c] <= Len(Items(c))
    /\ phase[c] = step

Fault(kind) ==
    /\ kind \in Faults
    /\ faults < MaxFaults
    /\ faults' = faults + 1

Fail(c) ==
    /\ result' = [result EXCEPT ![c] = "error"]
    /\ UNCHANGED progress

Enter(c, step) ==
    /\ phase' = [phase EXCEPT ![c] = step]
    /\ UNCHANGED <<result, item, answer>>

\* The next file of the request.
NextItem(c) ==
    /\ item' = [item EXCEPT ![c] = @ + 1]
    /\ phase' = [phase EXCEPT ![c] = "open"]
    /\ data' = [data EXCEPT ![c] = <<>>]
    /\ moved' = [moved EXCEPT ![c] = 0]
    /\ UNCHANGED <<result, size>>

Deliver(c, content) ==
    /\ answer' = [answer EXCEPT ![c] = Append(@, content)]
    /\ NextItem(c)

Init ==
    /\ files = Given
    /\ writer = [f \in File |-> Nobody]
    /\ result = [c \in Call |-> "idle"]
    /\ before = [c \in Call |-> {}]
    /\ item = [c \in Call |-> 1]
    /\ phase = [c \in Call |-> "open"]
    /\ size = [c \in Call |-> 0]
    /\ data = [c \in Call |-> <<>>]
    /\ moved = [c \in Call |-> 0]
    /\ answer = [c \in Call |-> <<>>]
    /\ faults = 0
    /\ task \in [Call -> Requests]

\* The request arrives.
Arrive(c) ==
    /\ result[c] = "idle"
    /\ result' = [result EXCEPT ![c] = "running"]
    /\ before' = [before EXCEPT ![c] = {d \in Call : Over(d)}]
    /\ UNCHANGED <<files, writer, progress, faults, task>>

\* Every item is done.
Finish(c) ==
    /\ result[c] = "running"
    /\ item[c] > Len(Items(c))
    /\ result' = [result EXCEPT ![c] = "ok"]
    /\ UNCHANGED <<files, writer, before, progress, faults, task>>

-----------------------------------------------------------------------------
(* GetSingleFile, GetMultiFile and readFile.                                *)

OpenToRead(c) ==
    /\ AtPhase(c, "get", "open")
    /\ \/ NameOf(c, item[c]) = NoName /\ Deliver(c, <<>>) /\ UNCHANGED faults
       \/ /\ NameOf(c, item[c]) # NoName
          /\ files[Current(c)] # NoFile
          /\ Enter(c, "size")
          /\ UNCHANGED <<size, data, moved, faults>>
       \/ /\ NameOf(c, item[c]) # NoName
          /\ files[Current(c)] = NoFile
          /\ Fail(c)
          /\ UNCHANGED faults
       \/ NameOf(c, item[c]) # NoName /\ Fault("open") /\ Fail(c)
    /\ UNCHANGED <<files, writer, before, task>>

\* Faulty: the last block is left out.
OneLess(f) == IF files[f] = <<>> THEN 0 ELSE Len(files[f]) - 1

SizeOf(f) == Len(files[f])

\* seekg to the end and back; an empty file is read already.
Measure(c) ==
    /\ AtPhase(c, "get", "size")
    /\ IF SizeOf(Current(c)) = 0
       THEN Deliver(c, <<>>)
       ELSE /\ size' = [size EXCEPT ![c] = SizeOf(Current(c))]
            /\ Enter(c, "move")
            /\ UNCHANGED <<data, moved>>
    /\ UNCHANGED <<files, writer, before, faults, task>>

\* Faulty: a read that comes to an end too early counts as a good one.
PadRest(c) ==
    /\ data' = [data EXCEPT ![c] = Append(@, Pad)]
    /\ UNCHANGED <<result, item, phase, size, moved, answer>>

\* The file is shorter by now: the stream is not good.
EndOfFile(c) == Fail(c)

ReadBlock(c) ==
    /\ AtPhase(c, "get", "move")
    /\ Len(data[c]) < size[c]
    /\ LET next == Len(data[c]) + 1 IN
       IF next <= Len(files[Current(c)])
       THEN /\ data' = [data EXCEPT ![c] = Append(@, files[Current(c)][next])]
            /\ UNCHANGED <<result, item, phase, size, moved, answer>>
       ELSE EndOfFile(c)
    /\ UNCHANGED <<files, writer, before, faults, task>>

EndRead(c) ==
    /\ AtPhase(c, "get", "move")
    /\ Len(data[c]) = size[c]
    /\ Deliver(c, data[c])
    /\ UNCHANGED <<files, writer, before, faults, task>>

-----------------------------------------------------------------------------
(* PutSingleFile, PutMultiFile and writeFile.                               *)

\* Faulty: the old content is not truncated.
KeepOld(f) == IF files[f] = NoFile THEN <<>> ELSE files[f]

Opened(f) == <<>>

\* Faulty: the remaining files are opened before the first is written.
OpenAll(c) ==
    /\ AtPhase(c, "put", "open")
    /\ files' = [f \in File |->
                    IF \E i \in item[c]..Len(Items(c)) : Id(c, i) = f
                    THEN <<>> ELSE files[f]]
    /\ Enter(c, "move")
    /\ UNCHANGED <<size, data, moved, faults, writer, before, task>>

OpenToWrite(c) ==
    /\ AtPhase(c, "put", "open")
    /\ \/ /\ writer[Current(c)] = Nobody
          /\ files' = [files EXCEPT ![Current(c)] = Opened(Current(c))]
          /\ Enter(c, "move")
          /\ UNCHANGED <<size, data, moved, faults>>
       \/ Fault("open") /\ Fail(c) /\ UNCHANGED files
    /\ UNCHANGED <<writer, before, task>>

\* A stream writes at its own position, which may be inside the file.
PutAt(s, p, b) == IF p <= Len(s) THEN [s EXCEPT ![p] = b] ELSE Append(s, b)

WriteBlock(c) ==
    /\ AtPhase(c, "put", "move")
    /\ moved[c] < Len(Wanted(c))
    /\ writer[Current(c)] \in {Nobody, c}
    /\ LET next == moved[c] + 1 IN
       /\ files' = [files EXCEPT ![Current(c)] =
                        PutAt(@, next, Wanted(c)[next])]
       /\ moved' = [moved EXCEPT ![c] = next]
       /\ writer' = [writer EXCEPT ![Current(c)] =
                        IF next = Len(Wanted(c)) THEN Nobody ELSE c]
    /\ UNCHANGED <<result, before, item, phase, size, data, answer, faults,
                   task>>

\* good() is false after the write; what was written stays.
WriteFails(c) ==
    /\ AtPhase(c, "put", "move")
    /\ moved[c] < Len(Wanted(c)) /\ Len(Wanted(c)) > 1
    /\ writer[Current(c)] \in {Nobody, c}
    /\ Fault("write")
    /\ writer' = [writer EXCEPT ![Current(c)] = Nobody]
    /\ Fail(c)
    /\ UNCHANGED <<files, before, task>>

\* A short content is written by close(), whose failure nobody looks at.
CloseFails(c) ==
    /\ AtPhase(c, "put", "move")
    /\ moved[c] = 0 /\ Len(Wanted(c)) = 1
    /\ Fault("close")
    /\ NextItem(c)
    /\ UNCHANGED <<files, writer, before, answer, task>>

\* Faulty: the first block is taken for the whole content.
EndEarly(c) ==
    /\ AtPhase(c, "put", "move")
    /\ moved[c] > 0
    /\ NextItem(c)
    /\ UNCHANGED <<files, writer, before, answer, faults, task>>

EndWrite(c) ==
    /\ AtPhase(c, "put", "move")
    /\ moved[c] = Len(Wanted(c))
    /\ NextItem(c)
    /\ UNCHANGED <<files, writer, before, answer, faults, task>>

-----------------------------------------------------------------------------

\* The process dies with all its calls; what was written is in the files.
Crash ==
    /\ Fault("crash")
    /\ result' = [c \in Call |->
                    IF result[c] = "running" THEN "lost" ELSE result[c]]
    /\ writer' = [f \in File |-> Nobody]
    /\ UNCHANGED <<files, before, progress, task>>

Next ==
    \/ \E c \in Call :
          \/ Arrive(c) \/ Finish(c)
          \/ OpenToRead(c) \/ Measure(c) \/ ReadBlock(c) \/ EndRead(c)
          \/ OpenToWrite(c) \/ WriteBlock(c) \/ EndWrite(c)
          \/ WriteFails(c) \/ CloseFails(c)
    \/ Crash

Spec == Init /\ [][Next]_vars

-----------------------------------------------------------------------------

TypeOK ==
    /\ files \in [File -> Content \cup {NoFile}]
    /\ writer \in [File -> Call \cup {Nobody}]
    /\ result \in [Call -> Result]
    /\ before \in [Call -> SUBSET Call]
    /\ item \in [Call -> 1..(MaxItems + 1)]
    /\ phase \in [Call -> {"open", "size", "move"}]
    /\ size \in [Call -> Nat]
    /\ data \in [Call -> Content]
    /\ moved \in [Call -> Nat]
    /\ answer \in [Call -> Seq(Content)]
    /\ faults \in 0..MaxFaults
    /\ task \in [Call -> Requests]

\* The items that put the file f.
Puts(f) ==
    {p \in Call \X (1..MaxItems) :
        /\ OpOf(p[1]) = "put"
        /\ p[2] <= Len(Items(p[1]))
        /\ Id(p[1], p[2]) = f}

\* The item puts its file, and no other item does.
PutsAlone(c, i) ==
    /\ OpOf(c) = "put" /\ i <= Len(Items(c))
    /\ Puts(Id(c, i)) = {<<c, i>>}

\* The item puts its file, and the last: every other item that puts it is of a
\* call that was over when this one arrived, or that has not arrived yet, or
\* is an earlier one of the same call.
PutsLast(c, i) ==
    /\ OpOf(c) = "put" /\ i <= Len(Items(c))
    /\ result[c] # "idle"
    /\ \A p \in Puts(Id(c, i)) \ {<<c, i>>} :
          \/ p[1] \in before[c]
          \/ p[1] = c /\ p[2] < i
          \/ result[p[1]] = "idle"

\* What a successful write leaves of a content: all of it, or nothing of a
\* short one whose close failed.
Kept(content) ==
    {content} \cup IF "close" \in Faults /\ Len(content) = 1 THEN {<<>>} ELSE {}

\* A file has the content of the last put that was answered, however many
\* puts of it there were before, whole or broken off, and however many other
\* calls and failures there are.  Only a put that overlaps another one of the
\* same file is left out.
ConfirmedIsStored ==
    \A c \in Call, i \in 1..MaxItems :
        /\ result[c] = "ok" /\ PutsLast(c, i)
        => files[Id(c, i)] \in Kept(Items(c)[i].content)

\* Nothing is read that nobody wrote: whatever writers do to the file during
\* the read, each block of the answer was put into that file at that place.
WrittenAt(f, p, b) ==
    \/ Given[f] # NoFile /\ p <= Len(Given[f]) /\ Given[f][p] = b
    \/ \E w \in Puts(f) :
          LET content == Items(w[1])[w[2]].content
          IN  p <= Len(content) /\ content[p] = b

ReadsWhatWasWritten ==
    \A c \in Call :
        \A i \in 1..Len(answer[c]) :
            \A p \in 1..Len(answer[c][i]) :
                WrittenAt(Id(c, i), p, answer[c][i][p])

\* Who asks for a file after a put of it was answered gets what was put, until
\* the next put of the file arrives: an avatar that was replaced is gone, and
\* no earlier content comes back.
ReadsConfirmedPut ==
    \A c, d \in Call, i, j \in 1..MaxItems :
        /\ OpOf(c) = "get" /\ i <= Len(answer[c])
        /\ d \in before[c] /\ result[d] = "ok"
        /\ PutsLast(d, j) /\ NameOf(c, i) = Id(d, j)
        => answer[c][i] \in Kept(Items(d)[j].content)

\* A put of several files that fails or dies on the way, or is on its way,
\* has stored the first ones whole and has not touched the last ones: of at
\* most one file nobody can tell what it holds.
PutsOneAfterAnother ==
    \A c \in Call :
        \E k \in 1..(MaxItems + 1) :
            \A i \in 1..MaxItems :
                PutsAlone(c, i) =>
                    /\ i < k => files[Id(c, i)] \in Kept(Items(c)[i].content)
                    /\ i > k => files[Id(c, i)] = Given[Id(c, i)]

\* Ids that the service makes up.
Made == Call \X (1..MaxItems)

\* The file is put under its new id, by nobody else, and its put is done.
Shelved(f) ==
    LET c == f[1]
        i == f[2]
    IN  item[c] > i /\ Id(c, i) = f /\ PutsAlone(c, i)

\* What puts ask for, and what may be left of it.
WholeContents ==
    UNION {UNION {Kept(r.items[i].content) : i \in 1..Len(r.items)} :
              r \in {q \in Requests : q.op = "put"}}

Shelves == [f \in Made |-> IF Shelved(f) THEN files[f] ELSE NoFile]

Shelf == INSTANCE Uploads WITH
    FileId <- Made, Content <- WholeContents, None <- NoFile, shelf <- Shelves

\* A file whose id the service made up appears whole, in one step of its put,
\* and nothing changes it ever after: not the other files of the request, nor
\* the puts and gets of other calls, nor a crash.
ImplementsUploads == Shelf!Spec

-----------------------------------------------------------------------------
(* The strengthening that makes the above inductive.                        *)

FilesWereWritten ==
    \A f \in File :
        files[f] # NoFile
            => \A p \in 1..Len(files[f]) : WrittenAt(f, p, files[f][p])

BeforeIsOver == \A c \in Call : \A d \in before[c] : Over(d)

Progress(c) ==
    /\ item[c] <= Len(Items(c)) + 1
    /\ result[c] = "idle" =>
          item[c] = 1 /\ phase[c] = "open" /\ answer[c] = <<>>
    /\ result[c] = "ok" => item[c] > Len(Items(c))
    /\ phase[c] # "open" => /\ item[c] <= Len(Items(c))
                            /\ files[Current(c)] # NoFile
    /\ phase[c] # "move" => data[c] = <<>> /\ moved[c] = 0

\* A file that was put before the read began stays as it is until the next
\* put.
ReadsStable(c, d, j) ==
    LET f == Id(d, j) IN
    /\ \A i \in 1..Len(answer[c]) :
          NameOf(c, i) = f => answer[c][i] \in Kept(Items(d)[j].content)
    /\ phase[c] = "move" /\ NameOf(c, item[c]) = f
          => /\ size[c] = Len(files[f])
             /\ \A p \in 1..Len(data[c]) : data[c][p] = files[f][p]

Reading(c) ==
    OpOf(c) = "get" =>
        /\ Len(answer[c]) = item[c] - 1
        /\ phase[c] # "open" => NameOf(c, item[c]) # NoName
        /\ Len(data[c]) <= size[c]
        /\ \A p \in 1..Len(data[c]) : WrittenAt(Current(c), p, data[c][p])
        /\ \A d \in before[c], j \in 1..MaxItems :
              result[d] = "ok" /\ PutsLast(d, j) => ReadsStable(c, d, j)

\* The kernel lets nobody else write in the middle of a write.
Writing(c) ==
    OpOf(c) = "put" =>
        /\ answer[c] = <<>>
        /\ phase[c] # "size"
        /\ phase[c] = "move" => moved[c] <= Len(Wanted(c))
        /\ /\ result[c] = "running" /\ phase[c] = "move"
           /\ 0 < moved[c] /\ moved[c] < Len(Wanted(c))
           => /\ writer[Current(c)] = c
              /\ moved[c] <= Len(files[Current(c)])

StoredSoFar(c, i) ==
    LET content == Items(c)[i].content
        stored == files[Id(c, i)]
    IN  /\ i < item[c] => stored \in Kept(content)
        /\ i = item[c] /\ phase[c] = "move"
              => /\ Len(stored) = moved[c]
                 /\ \A p \in 1..moved[c] : stored[p] = content[p]

\* Only the last put of a file counts for what is in it, and only a file that
\* is put once is as it was before.
FilesInOrder(c, i) ==
    /\ PutsLast(c, i) => StoredSoFar(c, i)
    /\ PutsAlone(c, i) /\ i > item[c] => files[Id(c, i)] = Given[Id(c, i)]

IInv ==
    /\ TypeOK
    /\ FilesWereWritten
    /\ ReadsWhatWasWritten
    /\ BeforeIsOver
    /\ \A c \in Call : Progress(c) /\ Reading(c) /\ Writing(c)
    /\ \A c \in Call, i \in 1..MaxItems : FilesInOrder(c, i)

-----------------------------------------------------------------------------
(* What the service does not achieve.                                       *)

\* With every put answered, a file is what one of them put.
FilesAreWhole ==
    (\A c \in Call : result[c] \in {"idle", "ok"})
        => \A f \in File :
              \/ files[f] = Given[f]
              \/ \E w \in Puts(f) : files[f] = Items(w[1])[w[2]].content
=============================================================================
