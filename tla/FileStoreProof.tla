----------------------------- MODULE FileStoreProof -----------------------------
(***************************************************************************)
(* What the file service keeps, for any requests, any number of calls and  *)
(* any failures.                                                           *)
(***************************************************************************)
EXTENDS FileStore, SequenceTheorems, TLAPS

-----------------------------------------------------------------------------
(* Requests.                                                                *)

\* What a request carries.
LEMMA TaskType ==
    ASSUME TypeOK, NEW c \in Call
    PROVE  /\ OpOf(c) \in {"get", "put"}
           /\ Items(c) \in Seq(Item)
           /\ Len(Items(c)) \in Nat
           /\ Len(Items(c)) <= MaxItems
           /\ MaxItems \in Nat
<1>1. task[c] \in Requests /\ task[c] \in Request
  BY RequestsAssumption DEF TypeOK
<1>2. Items(c) \in Seq(Item) /\ OpOf(c) \in {"get", "put"}
  BY <1>1 DEF Request, Items, OpOf
<1> QED BY <1>1, <1>2, RequestsAssumption DEF Items

\* An item of a request has a name, or gets one, and a content.
LEMMA ItemType ==
    ASSUME TypeOK, NEW c \in Call, NEW i \in 1..Len(Items(c))
    PROVE  /\ i \in 1..MaxItems
           /\ Id(c, i) \in File
           /\ NameOf(c, i) \in File \cup {NoName}
           /\ NameOf(c, i) # NoName => Id(c, i) = NameOf(c, i)
           /\ Items(c)[i].content \in Seq(Block)
           /\ Len(Items(c)[i].content) \in Nat
<1>1. i \in 1..MaxItems
  BY TaskType
<1>2. Items(c)[i] \in Item
  BY TaskType, ElementOfSeq
<1>3. NameOf(c, i) \in File \cup {NoName} /\ Items(c)[i].content \in Seq(Block)
  BY <1>2 DEF Item, NameOf, Content
<1>4. <<c, i>> \in File
  BY <1>1 DEF File
<1> QED BY <1>1, <1>3, <1>4 DEF Id

\* What only depends on the requests stays.
LEMMA TasksStay ==
    ASSUME UNCHANGED task
    PROVE  /\ \A c : OpOf(c)' = OpOf(c) /\ Items(c)' = Items(c)
           /\ \A c, i : Id(c, i)' = Id(c, i) /\ NameOf(c, i)' = NameOf(c, i)
           /\ \A f : Puts(f)' = Puts(f)
           /\ \A c, i : PutsAlone(c, i)' <=> PutsAlone(c, i)
           /\ \A f, p, b : WrittenAt(f, p, b)' <=> WrittenAt(f, p, b)
<1>1. /\ \A c : OpOf(c)' = OpOf(c) /\ Items(c)' = Items(c)
      /\ \A c, i : Id(c, i)' = Id(c, i) /\ NameOf(c, i)' = NameOf(c, i)
  BY DEF OpOf, Items, Id, NameOf
<1>2. \A f : Puts(f)' = Puts(f)
  BY <1>1 DEF Puts
<1>3. \A c, i : PutsAlone(c, i)' <=> PutsAlone(c, i)
  BY <1>1, <1>2 DEF PutsAlone
<1>4. \A f, p, b : WrittenAt(f, p, b)' <=> WrittenAt(f, p, b)
  BY <1>1, <1>2 DEF WrittenAt
<1> QED BY <1>1, <1>2, <1>3, <1>4

\* An item that puts a file alone is the only one a writer of it can be at.
LEMMA OnlyWriter ==
    ASSUME TypeOK, NEW c \in Call, NEW d \in Call, NEW j \in 1..MaxItems,
           OpOf(c) = "put", item[c] <= Len(Items(c)),
           PutsAlone(d, j), Current(c) = Id(d, j)
    PROVE  c = d /\ item[c] = j
<1>1. item[c] \in 1..MaxItems
  BY TaskType DEF TypeOK
<1>2. <<c, item[c]>> \in Puts(Id(d, j))
  BY <1>1 DEF Puts, Current
<1>3. <<c, item[c]>> = <<d, j>>
  BY <1>2 DEF PutsAlone
<1> QED BY <1>3

\* The writer of a file is not past the item that puts it last.
LEMMA LastWriter ==
    ASSUME IInv, NEW c \in Call, NEW d \in Call, NEW j \in 1..MaxItems,
           OpOf(c) = "put", item[c] <= Len(Items(c)), result[c] = "running",
           PutsLast(d, j), Current(c) = Id(d, j)
    PROVE  c = d /\ item[c] <= j
<1>1. item[c] \in 1..MaxItems
  BY TaskType DEF IInv, TypeOK
<1>2. <<c, item[c]>> \in Puts(Id(d, j))
  BY <1>1 DEF Puts, Current
<1>3. c \notin before[d]
  BY DEF IInv, BeforeIsOver, Over
<1>4. CASE <<c, item[c]>> = <<d, j>>
  BY <1>1, <1>4
<1>5. CASE <<c, item[c]>> # <<d, j>>
  BY <1>1, <1>2, <1>3, <1>5 DEF PutsLast
<1> QED BY <1>4, <1>5

\* An item that puts its file last did so before, unless its call arrives.
LEMMA LastBefore ==
    ASSUME UNCHANGED task, NEW d \in Call, NEW j,
           before'[d] = before[d], result[d] # "idle",
           \A c \in Call : result'[c] = "idle" => result[c] = "idle",
           PutsLast(d, j)'
    PROVE  PutsLast(d, j)
<1>1. /\ OpOf(d)' = OpOf(d) /\ Items(d)' = Items(d) /\ Id(d, j)' = Id(d, j)
      /\ \A f : Puts(f)' = Puts(f)
  BY TasksStay
<1>2. \A f : \A q \in Puts(f) : q[1] \in Call
  BY DEF Puts
<1> QED BY <1>1, <1>2 DEF PutsLast

\* With no arrival and no answer, the same items are the last.
LEMMA LastStays ==
    ASSUME UNCHANGED <<result, before, task>>
    PROVE  \A d, j : PutsLast(d, j)' <=> PutsLast(d, j)
<1>1. /\ \A d : OpOf(d)' = OpOf(d) /\ Items(d)' = Items(d)
      /\ \A d, j : Id(d, j)' = Id(d, j)
      /\ \A f : Puts(f)' = Puts(f)
  BY TasksStay
<1> QED BY <1>1 DEF PutsLast

-----------------------------------------------------------------------------
(* Steps that change no file and move no call along.                        *)

\* Arrivals, answers, failures and crashes.
LEMMA QuietKeeps ==
    ASSUME IInv,
           UNCHANGED <<files, progress, task>>,
           writer' \in [File -> Call \cup {Nobody}],
           result' \in [Call -> Result],
           before' \in [Call -> SUBSET Call],
           faults' \in 0..MaxFaults,
           \A c \in Call : result'[c] = "idle" => result[c] = "idle",
           \A c \in Call : Over(c) => result'[c] = result[c],
           \A c \in Call : \A d \in before'[c] : Over(d)',
           \A c \in Call : before'[c] = before[c] \/ result[c] = "idle",
           \A c \in Call : result'[c] = "ok"
                              => result[c] = "ok" \/ item[c] > Len(Items(c)),
           \A c \in Call : result'[c] = "running" =>
                 \/ phase[c] = "open"
                 \/ /\ result[c] = "running"
                    /\ \A f \in File : writer[f] = c => writer'[f] = c
    PROVE  IInv'
<1> USE DEF progress
<1>1. TypeOK /\ TypeOK'
  BY DEF IInv, TypeOK
<1>2. /\ \A c : OpOf(c)' = OpOf(c) /\ Items(c)' = Items(c)
      /\ \A c, i : Id(c, i)' = Id(c, i) /\ NameOf(c, i)' = NameOf(c, i)
      /\ \A c, i : PutsAlone(c, i)' <=> PutsAlone(c, i)
      /\ \A f, p, b : WrittenAt(f, p, b)' <=> WrittenAt(f, p, b)
  BY TasksStay
<1>3. \A c : Current(c)' = Current(c) /\ Wanted(c)' = Wanted(c)
  BY <1>2 DEF Current, Wanted
<1>4. FilesWereWritten' /\ ReadsWhatWasWritten' /\ BeforeIsOver'
  BY <1>2 DEF IInv, FilesWereWritten, ReadsWhatWasWritten, BeforeIsOver
<1>5. ASSUME NEW c \in Call
      PROVE  Progress(c)' /\ Writing(c)'
  <2>1. Progress(c)'
    BY <1>2, <1>3 DEF IInv, Progress
  <2>2. phase[c] = "move" => Current(c) \in File
    BY <1>1, ItemType, TaskType DEF IInv, Progress, Current, TypeOK
  <2>3. Writing(c)'
    BY <1>2, <1>3, <2>2 DEF IInv, Writing
  <2> QED BY <2>1, <2>3
<1>6. ASSUME NEW d \in Call, NEW j, result[d] # "idle", PutsLast(d, j)'
      PROVE  PutsLast(d, j)
  BY <1>6, LastBefore
<1>7. ASSUME NEW c \in Call, OpOf(c) = "get"
      PROVE  Reading(c)'
  <2>1. Reading(c)
    BY DEF IInv
  <2>2. ASSUME NEW d \in before'[c], NEW j \in 1..MaxItems,
               result'[d] = "ok", PutsLast(d, j)'
        PROVE  ReadsStable(c, d, j)'
    <3>1. CASE before'[c] = before[c]
      <4>1. d \in Call /\ result[d] = "ok"
        BY <3>1, <2>2, <1>1 DEF IInv, BeforeIsOver, Over, TypeOK
      <4>2. ReadsStable(c, d, j)
        BY <4>1, <3>1, <2>1, <2>2, <1>6, <1>7 DEF Reading
      <4> QED BY <4>2, <1>2 DEF ReadsStable, Kept
    <3>2. CASE result[c] = "idle"
      <4>1. answer[c] = <<>> /\ phase[c] = "open"
        BY <3>2 DEF IInv, Progress
      <4> QED BY <4>1, <1>2 DEF ReadsStable
    <3> QED BY <3>1, <3>2
  <2> QED BY <2>1, <2>2, <1>2, <1>3, <1>7 DEF Reading
<1>8. \A c \in Call : Reading(c)'
  BY <1>7, <1>2 DEF Reading
<1>9. ASSUME NEW c \in Call, NEW i \in 1..MaxItems
      PROVE  FilesInOrder(c, i)'
  <2>1. FilesInOrder(c, i)
    BY DEF IInv
  <2>2. ASSUME PutsLast(c, i)'
        PROVE  StoredSoFar(c, i)'
    <3>1. CASE result[c] = "idle"
      <4>1. item[c] = 1 /\ phase[c] = "open"
        BY <3>1 DEF IInv, Progress
      <4> QED BY <4>1 DEF StoredSoFar
    <3>2. CASE result[c] # "idle"
      BY <3>2, <2>1, <2>2, <1>2, <1>6 DEF FilesInOrder, StoredSoFar, Kept
    <3> QED BY <3>1, <3>2
  <2> QED BY <2>1, <2>2, <1>2 DEF FilesInOrder
<1> QED BY <1>1, <1>4, <1>5, <1>8, <1>9 DEF IInv

-----------------------------------------------------------------------------
(* Steps of one call.                                                       *)

\* What a step of the call c may do to the files and to the others' locks.
StepOf(c) ==
    /\ UNCHANGED <<result, before, task>>
    /\ \A d \in Call \ {c} :
          /\ item'[d] = item[d]
          /\ phase'[d] = phase[d] /\ size'[d] = size[d] /\ data'[d] = data[d]
          /\ moved'[d] = moved[d] /\ answer'[d] = answer[d]
    /\ \A f \in File : writer'[f] = writer[f] \/ writer[f] \in {Nobody, c}
    /\ \/ files' = files
       \/ /\ OpOf(c) = "put" /\ item[c] <= Len(Items(c))
          /\ writer[Current(c)] \in {Nobody, c}
          /\ \E s \in Content :
                /\ files' = [files EXCEPT ![Current(c)] = s]
                /\ \A p \in 1..Len(s) : WrittenAt(Current(c), p, s[p])

\* It is enough to look at the call that takes the step.
LEMMA StepKeeps ==
    ASSUME IInv, NEW c \in Call, StepOf(c), result[c] = "running",
           TypeOK', Progress(c)', Reading(c)', Writing(c)',
           \A i \in 1..Len(answer'[c]) : \A p \in 1..Len(answer'[c][i]) :
                WrittenAt(Id(c, i), p, answer'[c][i][p]),
           \A i \in 1..MaxItems : PutsLast(c, i) => StoredSoFar(c, i)',
           \A i \in 1..MaxItems : PutsAlone(c, i) /\ i > item'[c]
                                    => files'[Id(c, i)] = Given[Id(c, i)]
    PROVE  IInv'
<1>1. TypeOK
  BY DEF IInv
<1>2. /\ \A d : OpOf(d)' = OpOf(d) /\ Items(d)' = Items(d)
      /\ \A d, i : Id(d, i)' = Id(d, i) /\ NameOf(d, i)' = NameOf(d, i)
      /\ \A d, i : PutsAlone(d, i)' <=> PutsAlone(d, i)
      /\ \A f, p, b : WrittenAt(f, p, b)' <=> WrittenAt(f, p, b)
  BY TasksStay DEF StepOf
<1>3. \A d \in Call \ {c} : Current(d)' = Current(d) /\ Wanted(d)' = Wanted(d)
  BY <1>2 DEF Current, Wanted, StepOf
<1>4. NoFile \notin Content /\ Nobody \notin Call
  BY NamesAssumption
<1>12. \A d, j : PutsLast(d, j)' <=> PutsLast(d, j)
  BY LastStays DEF StepOf
<1>5. ASSUME NEW f \in File, files'[f] # files[f]
      PROVE  /\ f = Current(c) /\ files'[f] \in Content
             /\ OpOf(c) = "put" /\ item[c] <= Len(Items(c))
             /\ writer[Current(c)] \in {Nobody, c}
             /\ \A p \in 1..Len(files'[f]) : WrittenAt(f, p, files'[f][p])
  <2>1. PICK s \in Content :
           /\ files' = [files EXCEPT ![Current(c)] = s]
           /\ OpOf(c) = "put" /\ item[c] <= Len(Items(c))
           /\ writer[Current(c)] \in {Nobody, c}
           /\ \A p \in 1..Len(s) : WrittenAt(Current(c), p, s[p])
    BY <1>5 DEF StepOf
  <2>2. f = Current(c) /\ files'[f] = s
    BY <2>1, <1>5, <1>1 DEF TypeOK
  <2> QED BY <2>1, <2>2
<1>6. ASSUME NEW d \in Call, NEW j \in 1..MaxItems, d # c,
             PutsLast(d, j) \/ PutsAlone(d, j)
      PROVE  files'[Id(d, j)] = files[Id(d, j)]
  <2>1. Id(d, j) \in File
    BY <1>1, <1>6, ItemType DEF PutsAlone, PutsLast
  <2>2. ASSUME OpOf(c) = "put", item[c] <= Len(Items(c))
        PROVE  Current(c) # Id(d, j)
    BY <2>2, <1>1, <1>6, OnlyWriter, LastWriter
  <2> QED BY <2>1, <2>2, <1>5
<1>7. FilesWereWritten'
  BY <1>2, <1>5 DEF IInv, FilesWereWritten
<1>8. ReadsWhatWasWritten'
  <2>1. ASSUME NEW d \in Call, d # c
        PROVE  \A i \in 1..Len(answer'[d]) : \A p \in 1..Len(answer'[d][i]) :
                  WrittenAt(Id(d, i), p, answer'[d][i][p])
    BY <2>1 DEF IInv, ReadsWhatWasWritten, StepOf
  <2> QED BY <2>1, <1>2 DEF ReadsWhatWasWritten
<1>9. BeforeIsOver'
  BY <1>1 DEF IInv, BeforeIsOver, Over, StepOf, TypeOK
<1>10. ASSUME NEW d \in Call, d # c
       PROVE  Progress(d)' /\ Reading(d)' /\ Writing(d)'
  <2>1. /\ result'[d] = result[d] /\ item'[d] = item[d]
        /\ phase'[d] = phase[d] /\ size'[d] = size[d] /\ data'[d] = data[d]
        /\ moved'[d] = moved[d] /\ answer'[d] = answer[d] /\ before' = before
        /\ Current(d)' = Current(d) /\ Wanted(d)' = Wanted(d)
    BY <1>10, <1>3 DEF StepOf
  <2>2. Progress(d) /\ Reading(d) /\ Writing(d)
    BY DEF IInv
  <2>3. item[d] <= Len(Items(d)) => Current(d) \in File
    <3>1. item[d] \in 1..(MaxItems + 1) /\ Len(Items(d)) \in Nat /\ MaxItems \in Nat
      BY <1>1, TaskType DEF TypeOK
    <3>2. item[d] <= Len(Items(d)) => item[d] \in 1..Len(Items(d))
      BY <3>1
    <3> QED BY <3>2, <1>1, ItemType DEF Current
  <2>4. Progress(d)'
    BY <2>1, <2>2, <2>3, <1>2, <1>4, <1>5 DEF Progress
  <2>5. Writing(d)'
    <3>1. ASSUME OpOf(d) = "put", result[d] = "running", phase[d] = "move",
                 0 < moved[d], moved[d] < Len(Wanted(d))
          PROVE  writer'[Current(d)] = d /\ moved[d] <= Len(files'[Current(d)])
      <4>1. /\ writer[Current(d)] = d /\ moved[d] <= Len(files[Current(d)])
            /\ Current(d) \in File
        BY <3>1, <2>2, <2>3 DEF Writing, Progress
      <4>2. files'[Current(d)] = files[Current(d)]
        BY <4>1, <1>10, <1>4, <1>5
      <4> QED BY <4>1, <4>2, <1>10, <1>4 DEF StepOf
    <3> QED BY <3>1, <2>1, <2>2, <1>2 DEF Writing
  <2>6. ASSUME OpOf(d) = "get", NEW e \in before[d], NEW j \in 1..MaxItems,
               result[e] = "ok", PutsLast(e, j)
        PROVE  ReadsStable(d, e, j)'
    <3>1. e \in Call /\ e # c
      BY <1>1, <2>6 DEF TypeOK
    <3>2. files'[Id(e, j)] = files[Id(e, j)]
      BY <3>1, <2>6, <1>6
    <3>3. ReadsStable(d, e, j)
      BY <2>2, <2>6 DEF Reading
    <3> QED BY <3>2, <3>3, <2>1, <1>2 DEF ReadsStable, Kept
  <2>7. Reading(d)'
    BY <2>1, <2>2, <2>6, <1>2, <1>12 DEF Reading, StepOf
  <2> QED BY <2>4, <2>5, <2>7
<1>11. ASSUME NEW d \in Call, NEW i \in 1..MaxItems
       PROVE  FilesInOrder(d, i)'
  <2>1. CASE d = c
    BY <2>1, <1>2, <1>12 DEF FilesInOrder
  <2>2. CASE d # c
    <3>1. FilesInOrder(d, i)
      BY DEF IInv
    <3>2. PutsLast(d, i) \/ PutsAlone(d, i)
             => files'[Id(d, i)] = files[Id(d, i)]
      BY <2>2, <1>6
    <3> QED BY <3>1, <3>2, <2>2, <1>2, <1>12
            DEF FilesInOrder, StoredSoFar, StepOf, Kept
  <2> QED BY <2>1, <2>2
<1> QED BY <1>7, <1>8, <1>9, <1>10, <1>11 DEF IInv

\* The item a call is at.
LEMMA AtItem ==
    ASSUME IInv, NEW c \in Call, item[c] <= Len(Items(c))
    PROVE  /\ item[c] \in 1..Len(Items(c)) /\ item[c] \in 1..MaxItems
           /\ Len(Items(c)) \in Nat
           /\ Current(c) \in File /\ Current(c) = Id(c, item[c])
           /\ NameOf(c, item[c]) # NoName => Current(c) = NameOf(c, item[c])
           /\ Wanted(c) \in Seq(Block) /\ Len(Wanted(c)) \in Nat
           /\ Wanted(c) = Items(c)[item[c]].content
<1>1. /\ item[c] \in 1..(MaxItems + 1) /\ MaxItems \in Nat
      /\ Len(Items(c)) \in Nat /\ TypeOK
  BY TaskType DEF IInv, TypeOK
<1>2. item[c] \in 1..Len(Items(c))
  BY <1>1
<1> QED BY <1>1, <1>2, ItemType DEF Current, Wanted

-----------------------------------------------------------------------------
(* Arrivals, answers, failures and crashes.                                 *)

\* Failures stay within the bound.
LEMMA FailureCounted ==
    ASSUME TypeOK, NEW kind, Fault(kind)
    PROVE  faults' \in 0..MaxFaults
BY FaultAssumption DEF Fault, TypeOK

\* A failing call changes nothing but its answer.
LEMMA FailKeeps ==
    ASSUME IInv, NEW c \in Call, result[c] = "running", Fail(c),
           UNCHANGED <<files, before, task>>, faults' \in 0..MaxFaults,
           writer' \in [File -> Call \cup {Nobody}],
           \A f \in File : writer'[f] = writer[f] \/ writer[f] \in {Nobody, c}
    PROVE  IInv'
<1>1. TypeOK
  BY DEF IInv
<1>2. /\ result' \in [Call -> Result] /\ result'[c] = "error"
      /\ \A d \in Call \ {c} : result'[d] = result[d]
  BY <1>1 DEF Fail, TypeOK, Result
<1>3. before' \in [Call -> SUBSET Call] /\ before' = before
  BY <1>1 DEF TypeOK
<1>4. /\ \A d \in Call : Over(d) => result'[d] = result[d]
      /\ \A e \in Call : \A d \in before'[e] : Over(d)'
  BY <1>1, <1>2 DEF IInv, BeforeIsOver, TypeOK, Over
<1>5. \A e \in Call : result'[e] = "running" =>
         /\ result[e] = "running"
         /\ \A f \in File : writer[f] = e => writer'[f] = e
  BY <1>2, NamesAssumption
<1>6. UNCHANGED <<files, progress, task>>
  BY DEF Fail
<1> QED BY <1>2, <1>3, <1>4, <1>5, <1>6, QuietKeeps

\* A request arrives.
LEMMA ArriveKeeps ==
    ASSUME IInv, NEW c \in Call, Arrive(c)
    PROVE  IInv'
<1>1. TypeOK /\ Progress(c)
  BY DEF IInv
<1>2. /\ result[c] = "idle" /\ result'[c] = "running"
      /\ \A d \in Call \ {c} : result'[d] = result[d]
      /\ result' \in [Call -> Result]
  BY <1>1 DEF Arrive, TypeOK, Result
<1>3. /\ before'[c] = {d \in Call : Over(d)}
      /\ \A d \in Call \ {c} : before'[d] = before[d]
      /\ before' \in [Call -> SUBSET Call]
  BY <1>1 DEF Arrive, TypeOK
<1>4. /\ \A d \in Call : Over(d) => result'[d] = result[d]
      /\ \A e \in Call : \A d \in before'[e] : Over(d)'
  <2>1. \A d \in Call : Over(d) => d # c
    BY <1>2 DEF Over
  <2>2. \A d \in Call : Over(d) => result'[d] = result[d] /\ Over(d)'
    BY <2>1, <1>2 DEF Over
  <2>3. \A e \in Call : \A d \in before'[e] : d \in Call /\ Over(d)
    BY <1>1, <1>3 DEF IInv, BeforeIsOver, TypeOK
  <2> QED BY <2>2, <2>3
<1>5. phase[c] = "open" /\ answer[c] = <<>>
  BY <1>1, <1>2 DEF Progress
<1>6. /\ UNCHANGED <<files, progress, task>>
      /\ writer' = writer /\ writer' \in [File -> Call \cup {Nobody}]
      /\ faults' \in 0..MaxFaults
  BY <1>1 DEF Arrive, TypeOK
<1> QED BY <1>2, <1>3, <1>4, <1>5, <1>6, QuietKeeps

\* A call is answered.
LEMMA FinishKeeps ==
    ASSUME IInv, NEW c \in Call, Finish(c)
    PROVE  IInv'
<1>1. TypeOK
  BY DEF IInv
<1>2. /\ result[c] = "running" /\ result'[c] = "ok" /\ item[c] > Len(Items(c))
      /\ \A d \in Call \ {c} : result'[d] = result[d]
      /\ result' \in [Call -> Result]
  BY <1>1 DEF Finish, TypeOK, Result
<1>3. /\ UNCHANGED <<files, progress, task>> /\ before' = before
      /\ before' \in [Call -> SUBSET Call]
      /\ writer' = writer /\ writer' \in [File -> Call \cup {Nobody}]
      /\ faults' \in 0..MaxFaults
  BY <1>1 DEF Finish, TypeOK
<1>4. /\ \A d \in Call : Over(d) => result'[d] = result[d]
      /\ \A e \in Call : \A d \in before'[e] : Over(d)'
  BY <1>1, <1>2, <1>3 DEF IInv, BeforeIsOver, TypeOK, Over, Result
<1> QED BY <1>2, <1>3, <1>4, QuietKeeps

\* The process dies.
LEMMA CrashKeeps ==
    ASSUME IInv, Crash
    PROVE  IInv'
<1>1. TypeOK
  BY DEF IInv
<1>2. /\ result' \in [Call -> Result]
      /\ \A d \in Call : result'[d] # "running"
      /\ \A d \in Call : result'[d] = "idle" => result[d] = "idle"
      /\ \A d \in Call : result'[d] = "ok" => result[d] = "ok"
      /\ \A d \in Call : result[d] # "running" => result'[d] = result[d]
  BY <1>1 DEF Crash, TypeOK, Result
<1>3. /\ UNCHANGED <<files, progress, task>> /\ before' = before
      /\ before' \in [Call -> SUBSET Call]
      /\ writer' \in [File -> Call \cup {Nobody}]
      /\ faults' \in 0..MaxFaults
  BY <1>1, FailureCounted DEF Crash, TypeOK
<1>4. /\ \A d \in Call : Over(d) => result'[d] = result[d]
      /\ \A e \in Call : \A d \in before'[e] : Over(d)'
  BY <1>1, <1>2, <1>3 DEF IInv, BeforeIsOver, TypeOK, Over, Result
<1> QED BY <1>2, <1>3, <1>4, QuietKeeps

-----------------------------------------------------------------------------
(* The end of an item.                                                      *)

\* What NextItem makes of the call.
LEMMA NextItemFacts ==
    ASSUME IInv, NEW c \in Call, item[c] <= Len(Items(c)), NextItem(c)
    PROVE  /\ item'[c] = item[c] + 1 /\ phase'[c] = "open" /\ data'[c] = <<>>
           /\ moved'[c] = 0 /\ size'[c] = size[c] /\ result' = result
           /\ \A d \in Call \ {c} :
                 /\ item'[d] = item[d] /\ phase'[d] = phase[d]
                 /\ size'[d] = size[d] /\ data'[d] = data[d]
                 /\ moved'[d] = moved[d]
           /\ item' \in [Call -> 1..(MaxItems + 1)]
           /\ phase' \in [Call -> {"open", "size", "move"}]
           /\ size' \in [Call -> Nat] /\ data' \in [Call -> Content]
           /\ moved' \in [Call -> Nat]
<1>1. TypeOK /\ item[c] \in 1..MaxItems /\ MaxItems \in Nat
  BY AtItem, RequestsAssumption DEF IInv
<1>2. item[c] + 1 \in 1..(MaxItems + 1)
  BY <1>1
<1>3. <<>> \in Content
  BY EmptySeq DEF Content
<1> QED BY <1>1, <1>2, <1>3 DEF NextItem, TypeOK

\* An item of a put is done.
LEMMA ItemPutKeeps ==
    ASSUME IInv, NEW c \in Call, AtPhase(c, "put", "move"), NextItem(c),
           UNCHANGED <<files, writer, before, answer, task>>,
           faults' \in 0..MaxFaults,
           PutsLast(c, item[c]) => files[Current(c)] \in Kept(Wanted(c))
    PROVE  IInv'
<1>1. /\ TypeOK /\ Progress(c) /\ Reading(c) /\ Writing(c)
      /\ result[c] = "running" /\ OpOf(c) = "put" /\ item[c] <= Len(Items(c))
      /\ Len(Items(c)) \in Nat /\ item[c] \in 1..Len(Items(c))
  BY AtItem DEF IInv, AtPhase
<1>2. /\ OpOf(c)' = OpOf(c) /\ Items(c)' = Items(c)
      /\ \A i : Id(c, i)' = Id(c, i)
  BY TasksStay
<1>3. TypeOK'
  BY <1>1, NextItemFacts DEF TypeOK
<1>4. StepOf(c)
  BY <1>1, NextItemFacts DEF StepOf
<1>5. Progress(c)' /\ Reading(c)' /\ Writing(c)'
  BY <1>1, <1>2, NextItemFacts DEF Progress, Reading, Writing
<1>6. ASSUME NEW i \in 1..MaxItems, PutsLast(c, i)
      PROVE  StoredSoFar(c, i)'
  <2>1. StoredSoFar(c, i) /\ (i = item[c] \/ i < item[c] <=> i < item'[c])
    BY <1>1, <1>6, NextItemFacts DEF IInv, FilesInOrder
  <2>2. i = item[c] => files[Id(c, i)] \in Kept(Items(c)[i].content)
    BY <1>6 DEF Current, Wanted
  <2> QED BY <2>1, <2>2, <1>1, <1>2, NextItemFacts DEF StoredSoFar, Kept
<1>7. \A i \in 1..Len(answer'[c]) : \A p \in 1..Len(answer'[c][i]) :
         WrittenAt(Id(c, i), p, answer'[c][i][p])
  BY DEF IInv, ReadsWhatWasWritten
<1>8. ASSUME NEW i \in 1..MaxItems, PutsAlone(c, i), i > item'[c]
      PROVE  files'[Id(c, i)] = Given[Id(c, i)]
  <2>1. i > item[c]
    BY <1>1, <1>8, NextItemFacts
  <2> QED BY <2>1, <1>8 DEF IInv, FilesInOrder
<1> QED BY <1>1, <1>3, <1>4, <1>5, <1>6, <1>7, <1>8, StepKeeps

\* A file is written and closed.
LEMMA EndWriteKeeps ==
    ASSUME IInv, NEW c \in Call, EndWrite(c)
    PROVE  IInv'
<1>1. TypeOK /\ AtPhase(c, "put", "move") /\ item[c] <= Len(Items(c))
  BY DEF IInv, EndWrite, AtPhase
<1>2. ASSUME PutsLast(c, item[c])
      PROVE  files[Current(c)] \in Kept(Wanted(c))
  <2>1. StoredSoFar(c, item[c])
    BY <1>1, <1>2, AtItem DEF IInv, FilesInOrder
  <2>2. /\ Len(files[Current(c)]) = Len(Wanted(c))
        /\ \A p \in 1..Len(Wanted(c)) : files[Current(c)][p] = Wanted(c)[p]
    BY <2>1, <1>1 DEF StoredSoFar, EndWrite, AtPhase, Current, Wanted
  <2>3. files[Current(c)] \in Seq(Block) /\ Wanted(c) \in Seq(Block)
    BY <1>1, AtItem DEF IInv, Progress, AtPhase, TypeOK, Content
  <2>4. files[Current(c)] = Wanted(c)
    BY <2>2, <2>3, SeqEqual
  <2> QED BY <2>4 DEF Kept
<1>3. faults' \in 0..MaxFaults
  BY <1>1 DEF EndWrite, TypeOK
<1> QED BY <1>1, <1>2, <1>3, ItemPutKeeps DEF EndWrite

\* A short content is lost when the file is closed.
LEMMA CloseFailsKeeps ==
    ASSUME IInv, NEW c \in Call, CloseFails(c)
    PROVE  IInv'
<1>1. TypeOK /\ AtPhase(c, "put", "move") /\ item[c] <= Len(Items(c))
  BY DEF IInv, CloseFails, AtPhase
<1>2. ASSUME PutsLast(c, item[c])
      PROVE  files[Current(c)] \in Kept(Wanted(c))
  <2>1. StoredSoFar(c, item[c])
    BY <1>1, <1>2, AtItem DEF IInv, FilesInOrder
  <2>2. Len(files[Current(c)]) = 0
    BY <2>1, <1>1 DEF StoredSoFar, CloseFails, AtPhase, Current
  <2>3. files[Current(c)] \in Seq(Block)
    BY <1>1, AtItem DEF IInv, Progress, AtPhase, TypeOK, Content
  <2>4. files[Current(c)] = <<>>
    BY <2>2, <2>3, EmptySeq
  <2> QED BY <2>4 DEF Kept, CloseFails, Fault
<1>3. faults' \in 0..MaxFaults
  BY <1>1, FailureCounted DEF CloseFails
<1> QED BY <1>1, <1>2, <1>3, ItemPutKeeps DEF CloseFails

\* An item of a get is done.
LEMMA DeliverKeeps ==
    ASSUME IInv, NEW c \in Call, NEW step, AtPhase(c, "get", step),
           NEW content \in Content, Deliver(c, content),
           UNCHANGED <<files, writer, before, task>>,
           faults' \in 0..MaxFaults,
           \A p \in 1..Len(content) : WrittenAt(Current(c), p, content[p]),
           \A d \in before[c], j \in 1..MaxItems :
              result[d] = "ok" /\ PutsLast(d, j) /\ NameOf(c, item[c]) = Id(d, j)
                 => content \in Kept(Items(d)[j].content)
    PROVE  IInv'
<1>1. /\ TypeOK /\ Progress(c) /\ Reading(c) /\ Writing(c)
      /\ result[c] = "running" /\ OpOf(c) = "get" /\ item[c] <= Len(Items(c))
      /\ Len(Items(c)) \in Nat /\ item[c] \in 1..Len(Items(c)) /\ NextItem(c)
  BY AtItem DEF IInv, AtPhase, Deliver
<1>2. /\ OpOf(c)' = OpOf(c) /\ Items(c)' = Items(c)
      /\ \A i : NameOf(c, i)' = NameOf(c, i)
      /\ \A d, j : Id(d, j)' = Id(d, j) /\ Items(d)' = Items(d)
      /\ \A d, j : PutsLast(d, j)' <=> PutsLast(d, j)
  BY <1>1, TasksStay, NextItemFacts, LastStays
<1>3. answer[c] \in Seq(Content) /\ Len(answer[c]) = item[c] - 1
  BY <1>1 DEF TypeOK, Reading
<1>4. /\ answer'[c] = Append(answer[c], content)
      /\ \A d \in Call \ {c} : answer'[d] = answer[d]
      /\ answer' \in [Call -> Seq(Content)]
  BY <1>1, <1>3 DEF Deliver, TypeOK
<1>5. /\ Len(answer'[c]) = item[c]
      /\ \A i \in 1..item[c] :
            answer'[c][i] = IF i = item[c] THEN content ELSE answer[c][i]
  BY <1>1, <1>3, <1>4
<1>6. TypeOK'
  BY <1>1, <1>4, NextItemFacts DEF TypeOK
<1>7. StepOf(c)
  BY <1>1, <1>4, NextItemFacts DEF StepOf
<1>8. Progress(c)' /\ Writing(c)'
  BY <1>1, <1>2, NextItemFacts DEF Progress, Writing
<1>9. ASSUME NEW d \in before[c], NEW j \in 1..MaxItems,
             result[d] = "ok", PutsLast(d, j)
      PROVE  ReadsStable(c, d, j)'
  <2>1. ReadsStable(c, d, j)
    BY <1>1, <1>9 DEF Reading
  <2>2. ASSUME NEW i \in 1..item[c], NameOf(c, i) = Id(d, j)
        PROVE  answer'[c][i] \in Kept(Items(d)[j].content)
    <3>1. CASE i = item[c]
      BY <3>1, <2>2, <1>5, <1>9
    <3>2. CASE i # item[c]
      <4>1. i \in 1..Len(answer[c]) /\ answer'[c][i] = answer[c][i]
        BY <3>2, <1>1, <1>3, <1>5
      <4> QED BY <4>1, <2>1, <2>2 DEF ReadsStable
    <3> QED BY <3>1, <3>2
  <2> QED BY <2>2, <1>1, <1>2, <1>5, NextItemFacts DEF ReadsStable, Kept
<1>10. Reading(c)'
  <2>1. Len(data'[c]) = 0 /\ size'[c] \in Nat
    BY <1>1, NextItemFacts
  <2> QED BY <2>1, <1>1, <1>2, <1>5, <1>9, NextItemFacts DEF Reading
<1>11. \A i \in 1..Len(answer'[c]) : \A p \in 1..Len(answer'[c][i]) :
          WrittenAt(Id(c, i), p, answer'[c][i][p])
  <2>1. \A i \in 1..Len(answer[c]) : \A p \in 1..Len(answer[c][i]) :
           WrittenAt(Id(c, i), p, answer[c][i][p])
    BY DEF IInv, ReadsWhatWasWritten
  <2>2. ASSUME NEW i \in 1..item[c]
        PROVE  \A p \in 1..Len(answer'[c][i]) :
                  WrittenAt(Id(c, i), p, answer'[c][i][p])
    <3>1. CASE i = item[c]
      <4>1. answer'[c][i] = content /\ Id(c, i) = Current(c)
        BY <3>1, <1>5 DEF Current
      <4> QED BY <4>1
    <3>2. CASE i # item[c]
      <4>1. i \in 1..Len(answer[c]) /\ answer'[c][i] = answer[c][i]
        BY <3>2, <1>1, <1>3, <1>5
      <4> QED BY <4>1, <2>1
    <3> QED BY <3>1, <3>2
  <2> QED BY <2>2, <1>5
<1>12. \A i \in 1..MaxItems : ~PutsLast(c, i) /\ ~PutsAlone(c, i)
  BY <1>1 DEF PutsLast, PutsAlone
<1> QED BY <1>1, <1>6, <1>7, <1>8, <1>10, <1>11, <1>12, StepKeeps

-----------------------------------------------------------------------------
(* Reading.                                                                 *)

\* A file has the content of its last put once the call is answered.
LEMMA AnsweredIsStored ==
    ASSUME IInv, NEW d \in Call, NEW j \in 1..MaxItems, result[d] = "ok",
           PutsLast(d, j)
    PROVE  files[Id(d, j)] \in Kept(Items(d)[j].content)
<1>1. item[d] > Len(Items(d)) /\ j <= Len(Items(d)) /\ StoredSoFar(d, j)
  BY DEF IInv, Progress, PutsLast, FilesInOrder
<1>2. j < item[d]
  BY <1>1, TaskType DEF IInv, TypeOK
<1> QED BY <1>1, <1>2 DEF StoredSoFar

\* Enter leaves everything of the call but the phase.
LEMMA EnterFacts ==
    ASSUME IInv, NEW c \in Call, NEW step \in {"size", "move"}, Enter(c, step)
    PROVE  /\ phase'[c] = step /\ phase' \in [Call -> {"open", "size", "move"}]
           /\ \A d \in Call \ {c} : phase'[d] = phase[d]
BY DEF Enter, IInv, TypeOK

\* A file is opened, is not there, or has no name.
LEMMA OpenToReadKeeps ==
    ASSUME IInv, NEW c \in Call, OpenToRead(c)
    PROVE  IInv'
<1>1. /\ TypeOK /\ Progress(c) /\ Reading(c) /\ Writing(c)
      /\ result[c] = "running" /\ OpOf(c) = "get" /\ item[c] <= Len(Items(c))
      /\ AtPhase(c, "get", "open") /\ phase[c] = "open"
      /\ UNCHANGED <<files, writer, before, task>>
  BY DEF IInv, AtPhase, OpenToRead
<1>2. CASE NameOf(c, item[c]) = NoName /\ Deliver(c, <<>>) /\ UNCHANGED faults
  <2>1. <<>> \in Content /\ Len(<<>>) = 0
    BY EmptySeq DEF Content
  <2>2. ASSUME NEW d \in before[c], NEW j \in 1..MaxItems, PutsLast(d, j)
        PROVE  Id(d, j) # NoName
    BY <2>2, <1>1, ItemType, NamesAssumption DEF PutsLast, TypeOK
  <2>3. faults' \in 0..MaxFaults
    BY <1>1, <1>2 DEF TypeOK
  <2> QED BY <2>1, <2>2, <2>3, <1>1, <1>2, DeliverKeeps
<1>3. CASE /\ NameOf(c, item[c]) # NoName /\ files[Current(c)] # NoFile
           /\ Enter(c, "size") /\ UNCHANGED <<size, data, moved, faults>>
  <2>1. /\ OpOf(c)' = OpOf(c) /\ Items(c)' = Items(c) /\ Current(c)' = Current(c)
        /\ \A i : NameOf(c, i)' = NameOf(c, i)
        /\ \A d, j : Id(d, j)' = Id(d, j) /\ Items(d)' = Items(d)
        /\ \A d, j : PutsLast(d, j)' <=> PutsLast(d, j)
    BY <1>1, <1>3, TasksStay, LastStays DEF Current, Enter
  <2>2. TypeOK'
    BY <1>1, <1>3, EnterFacts DEF TypeOK, Enter
  <2>3. StepOf(c)
    BY <1>1, <1>3, EnterFacts DEF StepOf, Enter
  <2>4. Progress(c)' /\ Writing(c)'
    BY <1>1, <1>3, <2>1, EnterFacts DEF Progress, Writing, Enter
  <2>5. ASSUME NEW d \in before[c], NEW j \in 1..MaxItems,
               result[d] = "ok", PutsLast(d, j)
        PROVE  ReadsStable(c, d, j)'
    BY <2>5, <1>1, <1>3, <2>1, EnterFacts DEF Reading, ReadsStable, Enter, Kept
  <2>6. Reading(c)'
    <3>1. data[c] = <<>>
      BY <1>1 DEF Progress
    <3> QED BY <3>1, <2>1, <2>5, <1>1, <1>3, EnterFacts DEF Reading, Enter
  <2>7. \A i \in 1..MaxItems : ~PutsLast(c, i) /\ ~PutsAlone(c, i)
    BY <1>1 DEF PutsLast, PutsAlone
  <2>8. \A i \in 1..Len(answer'[c]) : \A p \in 1..Len(answer'[c][i]) :
           WrittenAt(Id(c, i), p, answer'[c][i][p])
    BY <1>3 DEF IInv, ReadsWhatWasWritten, Enter
  <2> QED BY <1>1, <2>2, <2>3, <2>4, <2>6, <2>7, <2>8, StepKeeps
<1>4. CASE Fail(c) /\ faults' \in 0..MaxFaults
  BY <1>1, <1>4, FailKeeps DEF TypeOK
<1> QED BY <1>1, <1>2, <1>3, <1>4, FailureCounted DEF OpenToRead, TypeOK

\* The size of the file is taken, and an empty file is read.
LEMMA MeasureKeeps ==
    ASSUME IInv, NEW c \in Call, Measure(c)
    PROVE  IInv'
<1>1. /\ TypeOK /\ Progress(c) /\ Reading(c) /\ Writing(c)
      /\ result[c] = "running" /\ OpOf(c) = "get" /\ item[c] <= Len(Items(c))
      /\ AtPhase(c, "get", "size") /\ phase[c] = "size"
      /\ UNCHANGED <<files, writer, before, task>>
  BY DEF IInv, AtPhase, Measure
<1>2. /\ Current(c) \in File /\ files[Current(c)] \in Seq(Block)
      /\ SizeOf(Current(c)) = Len(files[Current(c)])
      /\ SizeOf(Current(c)) \in Nat
      /\ Current(c) = NameOf(c, item[c])
  BY <1>1, AtItem DEF Progress, Reading, TypeOK, Content, SizeOf
<1>3. faults' \in 0..MaxFaults
  BY <1>1 DEF Measure, TypeOK
<1>4. \A d \in before[c] : d \in Call
  BY <1>1 DEF TypeOK
<1>5. CASE SizeOf(Current(c)) = 0
  <2>1. <<>> \in Content /\ Len(<<>>) = 0 /\ files[Current(c)] = <<>>
    BY <1>2, <1>5, EmptySeq DEF Content
  <2>2. ASSUME NEW d \in before[c], NEW j \in 1..MaxItems,
               result[d] = "ok", PutsLast(d, j), NameOf(c, item[c]) = Id(d, j)
        PROVE  <<>> \in Kept(Items(d)[j].content)
    BY <2>1, <2>2, <1>2, <1>4, AnsweredIsStored
  <2> QED BY <2>1, <2>2, <1>1, <1>3, <1>5, DeliverKeeps DEF Measure
<1>6. CASE SizeOf(Current(c)) # 0
  <2>1. /\ size' = [size EXCEPT ![c] = SizeOf(Current(c))]
        /\ Enter(c, "move") /\ UNCHANGED <<data, moved>>
    BY <1>6 DEF Measure
  <2>2. /\ OpOf(c)' = OpOf(c) /\ Items(c)' = Items(c) /\ Current(c)' = Current(c)
        /\ \A i : NameOf(c, i)' = NameOf(c, i)
        /\ \A d, j : Id(d, j)' = Id(d, j) /\ Items(d)' = Items(d)
        /\ \A d, j : PutsLast(d, j)' <=> PutsLast(d, j)
    BY <1>1, <2>1, TasksStay, LastStays DEF Current, Enter
  <2>3. /\ size'[c] = Len(files[Current(c)]) /\ size' \in [Call -> Nat]
        /\ \A d \in Call \ {c} : size'[d] = size[d]
    BY <1>1, <1>2, <2>1 DEF TypeOK
  <2>4. TypeOK'
    BY <1>1, <1>3, <2>1, <2>3, EnterFacts DEF TypeOK, Enter
  <2>5. StepOf(c)
    BY <1>1, <2>1, <2>3, EnterFacts DEF StepOf, Enter
  <2>6. Progress(c)' /\ Writing(c)'
    BY <1>1, <2>1, <2>2, EnterFacts DEF Progress, Writing, Enter
  <2>7. data'[c] = <<>> /\ data[c] = <<>> /\ Len(data'[c]) = 0
    BY <1>1, <2>1, EmptySeq DEF Progress
  <2>8. ASSUME NEW d \in before[c], NEW j \in 1..MaxItems,
               result[d] = "ok", PutsLast(d, j)
        PROVE  ReadsStable(c, d, j)'
    <3>1. ReadsStable(c, d, j)
      BY <1>1, <2>8 DEF Reading
    <3>2. NameOf(c, item[c]) = Id(d, j) => size'[c] = Len(files[Id(d, j)])
      BY <1>2, <2>3
    <3> QED BY <3>1, <3>2, <1>1, <2>1, <2>2, <2>7 DEF ReadsStable, Enter, Kept
  <2>9. Reading(c)'
    BY <2>1, <2>2, <2>3, <2>7, <2>8, <1>1, <1>2, EnterFacts DEF Reading, Enter
  <2>10. \A i \in 1..MaxItems : ~PutsLast(c, i) /\ ~PutsAlone(c, i)
    BY <1>1 DEF PutsLast, PutsAlone
  <2>11. \A i \in 1..Len(answer'[c]) : \A p \in 1..Len(answer'[c][i]) :
            WrittenAt(Id(c, i), p, answer'[c][i][p])
    BY <2>1 DEF IInv, ReadsWhatWasWritten, Enter
  <2> QED BY <1>1, <2>4, <2>5, <2>6, <2>9, <2>10, <2>11, StepKeeps
<1> QED BY <1>5, <1>6

\* A block is read, or the file has become too short.
LEMMA ReadBlockKeeps ==
    ASSUME IInv, NEW c \in Call, ReadBlock(c)
    PROVE  IInv'
<1> DEFINE next == Len(data[c]) + 1
<1>1. /\ TypeOK /\ Progress(c) /\ Reading(c) /\ Writing(c)
      /\ result[c] = "running" /\ OpOf(c) = "get" /\ item[c] <= Len(Items(c))
      /\ phase[c] = "move" /\ Len(data[c]) < size[c]
      /\ UNCHANGED <<files, writer, before, faults, task>>
  BY DEF IInv, AtPhase, ReadBlock
<1>2. /\ Current(c) \in File /\ files[Current(c)] \in Seq(Block)
      /\ Len(files[Current(c)]) \in Nat
      /\ Current(c) = NameOf(c, item[c])
  BY <1>1, AtItem DEF Progress, Reading, TypeOK, Content
<1>3. data[c] \in Seq(Block) /\ Len(data[c]) \in Nat /\ size[c] \in Nat
  BY <1>1 DEF TypeOK, Content
<1>4. CASE next <= Len(files[Current(c)])
  <2> DEFINE b == files[Current(c)][next]
  <2>1. /\ data' = [data EXCEPT ![c] = Append(data[c], b)]
        /\ UNCHANGED <<result, item, phase, size, moved, answer>>
    BY <1>4 DEF ReadBlock
  <2>2. b \in Block /\ WrittenAt(Current(c), next, b)
    <3>1. next \in 1..Len(files[Current(c)])
      BY <1>2, <1>3, <1>4
    <3>2. files[Current(c)] # NoFile
      BY <1>1 DEF Progress
    <3> QED BY <3>1, <3>2, <1>2, ElementOfSeq DEF IInv, FilesWereWritten
  <2>3. /\ data'[c] = Append(data[c], b) /\ data' \in [Call -> Content]
        /\ \A d \in Call \ {c} : data'[d] = data[d]
    BY <1>1, <1>3, <2>1, <2>2 DEF TypeOK, Content
  <2>4. /\ Len(data'[c]) = next
        /\ \A p \in 1..next : data'[c][p] = IF p = next THEN b ELSE data[c][p]
    BY <1>3, <2>2, <2>3
  <2>5. /\ OpOf(c)' = OpOf(c) /\ Items(c)' = Items(c) /\ Current(c)' = Current(c)
        /\ \A i : NameOf(c, i)' = NameOf(c, i)
        /\ \A d, j : Id(d, j)' = Id(d, j) /\ Items(d)' = Items(d)
        /\ \A d, j : PutsLast(d, j)' <=> PutsLast(d, j)
        /\ \A f, p, e : WrittenAt(f, p, e)' <=> WrittenAt(f, p, e)
    BY <1>1, <2>1, TasksStay, LastStays DEF Current
  <2>6. TypeOK'
    BY <1>1, <2>1, <2>3 DEF TypeOK
  <2>7. StepOf(c)
    BY <1>1, <2>1, <2>3 DEF StepOf
  <2>8. Progress(c)' /\ Writing(c)'
    BY <1>1, <2>1, <2>5 DEF Progress, Writing
  <2>9. ASSUME NEW d \in before[c], NEW j \in 1..MaxItems,
               result[d] = "ok", PutsLast(d, j)
        PROVE  ReadsStable(c, d, j)'
    <3>1. ReadsStable(c, d, j)
      BY <1>1, <2>9 DEF Reading
    <3>2. ASSUME NameOf(c, item[c]) = Id(d, j), NEW p \in 1..next
          PROVE  data'[c][p] = files[Id(d, j)][p]
      BY <3>1, <3>2, <2>4, <1>1, <1>2, <1>3 DEF ReadsStable
    <3> QED BY <3>1, <3>2, <1>1, <2>1, <2>4, <2>5 DEF ReadsStable, Kept
  <2>10. ASSUME NEW p \in 1..Len(data'[c])
         PROVE  WrittenAt(Current(c), p, data'[c][p])
    BY <2>10, <2>2, <2>4, <1>1, <1>3 DEF Reading
  <2>11. Reading(c)'
    <3>1. Len(data'[c]) <= size[c]
      BY <2>4, <1>1, <1>3
    <3> QED BY <3>1, <2>1, <2>5, <2>9, <2>10, <1>1 DEF Reading
  <2>12. \A i \in 1..MaxItems : ~PutsLast(c, i) /\ ~PutsAlone(c, i)
    BY <1>1 DEF PutsLast, PutsAlone
  <2>13. \A i \in 1..Len(answer'[c]) : \A p \in 1..Len(answer'[c][i]) :
            WrittenAt(Id(c, i), p, answer'[c][i][p])
    BY <2>1 DEF IInv, ReadsWhatWasWritten
  <2> QED BY <1>1, <2>6, <2>7, <2>8, <2>11, <2>12, <2>13, StepKeeps
<1>5. CASE ~(next <= Len(files[Current(c)]))
  BY <1>1, <1>5, FailKeeps DEF ReadBlock, EndOfFile, TypeOK
<1> QED BY <1>4, <1>5

\* The whole size is read.
LEMMA EndReadKeeps ==
    ASSUME IInv, NEW c \in Call, EndRead(c)
    PROVE  IInv'
<1>1. /\ TypeOK /\ Progress(c) /\ Reading(c)
      /\ result[c] = "running" /\ OpOf(c) = "get" /\ item[c] <= Len(Items(c))
      /\ AtPhase(c, "get", "move") /\ phase[c] = "move"
      /\ Len(data[c]) = size[c] /\ Deliver(c, data[c])
      /\ UNCHANGED <<files, writer, before, faults, task>>
  BY DEF IInv, AtPhase, EndRead
<1>2. data[c] \in Content /\ faults' \in 0..MaxFaults
  BY <1>1 DEF TypeOK
<1>3. \A p \in 1..Len(data[c]) : WrittenAt(Current(c), p, data[c][p])
  BY <1>1 DEF Reading
<1>4. ASSUME NEW d \in before[c], NEW j \in 1..MaxItems,
             result[d] = "ok", PutsLast(d, j), NameOf(c, item[c]) = Id(d, j)
      PROVE  data[c] \in Kept(Items(d)[j].content)
  <2>1. d \in Call /\ result[d] = "ok"
    BY <1>1, <1>4 DEF TypeOK
  <2>2. /\ Len(data[c]) = Len(files[Id(d, j)])
        /\ \A p \in 1..Len(data[c]) : data[c][p] = files[Id(d, j)][p]
    BY <1>1, <1>4 DEF Reading, ReadsStable
  <2>3. files[Id(d, j)] \in Seq(Block) /\ data[c] \in Seq(Block)
    BY <1>1, <1>2, <1>4, AtItem DEF Progress, Reading, TypeOK, Content
  <2>4. data[c] = files[Id(d, j)]
    BY <2>2, <2>3, SeqEqual
  <2> QED BY <2>1, <2>4, <1>4, AnsweredIsStored
<1> QED BY <1>1, <1>2, <1>3, <1>4, DeliverKeeps

-----------------------------------------------------------------------------
(* Writing.                                                                 *)

\* A file is truncated.
LEMMA OpenToWriteKeeps ==
    ASSUME IInv, NEW c \in Call, OpenToWrite(c)
    PROVE  IInv'
<1>1. /\ TypeOK /\ Progress(c) /\ Reading(c) /\ Writing(c)
      /\ result[c] = "running" /\ OpOf(c) = "put" /\ item[c] <= Len(Items(c))
      /\ phase[c] = "open"
      /\ UNCHANGED <<writer, before, task>>
  BY DEF IInv, AtPhase, OpenToWrite
<1>2. /\ Current(c) \in File /\ <<>> \in Content /\ Len(<<>>) = 0
      /\ NoFile \notin Content
      /\ Wanted(c) \in Seq(Block) /\ Len(Wanted(c)) \in Nat
      /\ item[c] \in 1..MaxItems
  BY <1>1, AtItem, EmptySeq, NamesAssumption DEF Content
<1>3. CASE /\ writer[Current(c)] = Nobody
           /\ files' = [files EXCEPT ![Current(c)] = Opened(Current(c))]
           /\ Enter(c, "move")
           /\ UNCHANGED <<size, data, moved, faults>>
  <2>1. /\ files'[Current(c)] = <<>> /\ files' \in [File -> Content \cup {NoFile}]
        /\ files' = [files EXCEPT ![Current(c)] = <<>>]
        /\ \A f \in File \ {Current(c)} : files'[f] = files[f]
    BY <1>1, <1>2, <1>3 DEF TypeOK, Opened
  <2>2. /\ OpOf(c)' = OpOf(c) /\ Items(c)' = Items(c) /\ Current(c)' = Current(c)
        /\ Wanted(c)' = Wanted(c)
        /\ \A d, j : Id(d, j)' = Id(d, j)
    BY <1>1, <1>3, TasksStay DEF Current, Wanted, Enter
  <2>3. TypeOK'
    BY <1>1, <1>3, <2>1, EnterFacts DEF TypeOK, Enter
  <2>4. StepOf(c)
    <3>1. /\ UNCHANGED <<result, before, task>>
          /\ \A d \in Call \ {c} :
                /\ item'[d] = item[d]
                /\ phase'[d] = phase[d] /\ size'[d] = size[d]
                /\ data'[d] = data[d] /\ moved'[d] = moved[d]
                /\ answer'[d] = answer[d]
      BY <1>1, <1>3, EnterFacts DEF Enter
    <3>2. \E s \in Content :
             /\ files' = [files EXCEPT ![Current(c)] = s]
             /\ \A p \in 1..Len(s) : WrittenAt(Current(c), p, s[p])
      <4>1. \A p \in 1..Len(<<>>) : WrittenAt(Current(c), p, <<>>[p])
        BY <1>2
      <4> QED BY <4>1, <1>2, <2>1
    <3>3. writer[Current(c)] \in {Nobody, c} /\ writer' = writer
      BY <1>1, <1>3
    <3> QED BY <3>1, <3>2, <3>3, <1>1 DEF StepOf
  <2>5. moved'[c] = 0 /\ data'[c] = <<>>
    BY <1>1, <1>3 DEF Progress
  <2>6. Progress(c)'
    BY <1>1, <1>2, <1>3, <2>1, <2>2, EnterFacts DEF Progress, Enter
  <2>7. Reading(c)' /\ Writing(c)'
    BY <1>1, <1>2, <1>3, <2>2, <2>5, EnterFacts DEF Reading, Writing, Enter
  <2>8. ASSUME NEW i \in 1..MaxItems, PutsLast(c, i)
        PROVE  StoredSoFar(c, i)'
    <3>1. StoredSoFar(c, i) /\ Id(c, i) \in File
      BY <2>8, <1>1, ItemType DEF IInv, FilesInOrder, PutsLast
    <3>2. CASE i = item[c]
      BY <3>2, <1>3, <2>1, <2>2, <2>5, <1>2 DEF StoredSoFar, Current, Enter
    <3>3. CASE i < item[c]
      <4>1. Id(c, i) # Current(c)
        BY <3>3, <2>8, <1>1, <1>2, LastWriter
      <4> QED BY <4>1, <3>1, <3>3, <1>2, <1>3, <2>1, <2>2
              DEF StoredSoFar, Enter, Kept
    <3>4. CASE i > item[c]
      BY <3>4, <1>2, <1>3 DEF StoredSoFar, Enter
    <3> QED BY <3>2, <3>3, <3>4, <1>2
  <2>10. ASSUME NEW i \in 1..MaxItems, PutsAlone(c, i), i > item'[c]
         PROVE  files'[Id(c, i)] = Given[Id(c, i)]
    <3>1. i > item[c] /\ Id(c, i) \in File
      BY <2>10, <1>1, <1>3, ItemType DEF PutsAlone, Enter
    <3>2. Id(c, i) # Current(c)
      BY <3>1, <2>10, <1>1, <1>2, OnlyWriter
    <3> QED BY <3>1, <3>2, <2>1, <2>10 DEF IInv, FilesInOrder
  <2>9. \A i \in 1..Len(answer'[c]) : \A p \in 1..Len(answer'[c][i]) :
           WrittenAt(Id(c, i), p, answer'[c][i][p])
    BY <1>3 DEF IInv, ReadsWhatWasWritten, Enter
  <2> QED BY <1>1, <2>3, <2>4, <2>6, <2>7, <2>8, <2>9, <2>10, StepKeeps
<1>4. CASE Fault("open") /\ Fail(c) /\ UNCHANGED files
  BY <1>1, <1>4, FailureCounted, FailKeeps DEF TypeOK
<1> QED BY <1>3, <1>4 DEF OpenToWrite

\* A block is put inside the file or at its end.
LEMMA PutAtFacts ==
    ASSUME NEW s \in Seq(Block), NEW p \in 1..(Len(s) + 1), NEW b \in Block
    PROVE  /\ PutAt(s, p, b) \in Seq(Block)
           /\ Len(PutAt(s, p, b)) = IF p <= Len(s) THEN Len(s) ELSE p
           /\ \A q \in 1..Len(PutAt(s, p, b)) :
                 PutAt(s, p, b)[q] = IF q = p THEN b ELSE s[q]
           /\ \A q \in 1..Len(PutAt(s, p, b)) : q # p => q \in 1..Len(s)
<1>1. Len(s) \in Nat
  OBVIOUS
<1>2. CASE p <= Len(s)
  <2>1. p \in 1..Len(s) /\ PutAt(s, p, b) = [s EXCEPT ![p] = b]
    BY <1>1, <1>2 DEF PutAt
  <2> QED BY <2>1, <1>2, ExceptSeq
<1>3. CASE ~(p <= Len(s))
  <2>1. p = Len(s) + 1 /\ PutAt(s, p, b) = Append(s, b)
    BY <1>1, <1>3 DEF PutAt
  <2> QED BY <2>1, <1>1, <1>3
<1> QED BY <1>2, <1>3

\* A block is written.
LEMMA WriteBlockKeeps ==
    ASSUME IInv, NEW c \in Call, WriteBlock(c)
    PROVE  IInv'
<1> DEFINE next == moved[c] + 1
           b == Wanted(c)[next]
           s == PutAt(files[Current(c)], next, b)
<1>1. /\ TypeOK /\ Progress(c) /\ Reading(c) /\ Writing(c)
      /\ result[c] = "running" /\ OpOf(c) = "put" /\ item[c] <= Len(Items(c))
      /\ phase[c] = "move" /\ moved[c] < Len(Wanted(c))
      /\ writer[Current(c)] \in {Nobody, c}
      /\ UNCHANGED <<result, before, item, phase, size, data, answer, faults,
                     task>>
  BY DEF IInv, AtPhase, WriteBlock
<1>2. /\ Current(c) \in File /\ files[Current(c)] \in Seq(Block)
      /\ Len(files[Current(c)]) \in Nat
      /\ NoFile \notin Content
      /\ Wanted(c) \in Seq(Block) /\ Len(Wanted(c)) \in Nat
      /\ moved[c] \in Nat
      /\ item[c] \in 1..MaxItems
  BY <1>1, AtItem, NamesAssumption DEF Progress, TypeOK, Content
<1>3. moved[c] <= Len(files[Current(c)])
  BY <1>1, <1>2 DEF Writing
<1>4. /\ next \in 1..Len(Wanted(c)) /\ b \in Block
      /\ next \in 1..(Len(files[Current(c)]) + 1)
      /\ next = moved[c] + 1 /\ b = Wanted(c)[next]
  BY <1>1, <1>2, <1>3, ElementOfSeq
<1> HIDE DEF next, b
<1>5. /\ s \in Content
      /\ Len(s) = IF next <= Len(files[Current(c)])
                     THEN Len(files[Current(c)]) ELSE next
      /\ \A q \in 1..Len(s) :
            s[q] = IF q = next THEN b ELSE files[Current(c)][q]
      /\ \A q \in 1..Len(s) : q # next => q \in 1..Len(files[Current(c)])
  <2> DEFINE old == files[Current(c)]
  <2>1. old \in Seq(Block) /\ next \in 1..(Len(old) + 1) /\ b \in Block
    BY <1>2, <1>4
  <2> HIDE DEF old
  <2>2. /\ PutAt(old, next, b) \in Seq(Block)
        /\ Len(PutAt(old, next, b)) = IF next <= Len(old) THEN Len(old) ELSE next
        /\ \A q \in 1..Len(PutAt(old, next, b)) :
              PutAt(old, next, b)[q] = IF q = next THEN b ELSE old[q]
        /\ \A q \in 1..Len(PutAt(old, next, b)) : q # next => q \in 1..Len(old)
    BY <2>1, PutAtFacts
  <2> QED BY <2>2 DEF Content, old
<1>s. files' = [files EXCEPT ![Current(c)] = s]
  BY <1>4 DEF WriteBlock
<1> HIDE DEF s
<1>6. \A q \in 1..Len(s) : WrittenAt(Current(c), q, s[q])
  <2>1. <<c, item[c]>> \in Puts(Current(c))
    BY <1>1, <1>2 DEF Puts, Current
  <2>2. WrittenAt(Current(c), next, b)
    BY <2>1, <1>4, <1>2 DEF WrittenAt, Wanted
  <2>3. files[Current(c)] # NoFile
    BY <1>1 DEF Progress
  <2>4. \A q \in 1..Len(files[Current(c)]) :
           WrittenAt(Current(c), q, files[Current(c)][q])
    BY <2>3, <1>2 DEF IInv, FilesWereWritten
  <2>5. ASSUME NEW q \in 1..Len(s)
        PROVE  WrittenAt(Current(c), q, s[q])
    <3>1. CASE q = next
      <4>1. s[q] = b
        BY <3>1, <1>5
      <4> QED BY <4>1, <3>1, <2>2
    <3>2. CASE q # next
      <4>1. s[q] = files[Current(c)][q] /\ q \in 1..Len(files[Current(c)])
        BY <3>2, <1>5
      <4> QED BY <4>1, <2>4
    <3> QED BY <3>1, <3>2
  <2> QED BY <2>5
<1>7. /\ files' = [files EXCEPT ![Current(c)] = s]
      /\ files'[Current(c)] = s /\ files' \in [File -> Content \cup {NoFile}]
      /\ \A f \in File \ {Current(c)} : files'[f] = files[f]
  BY <1>1, <1>2, <1>5, <1>s DEF TypeOK
<1>8. /\ moved'[c] = next /\ moved' \in [Call -> Nat]
      /\ \A d \in Call \ {c} : moved'[d] = moved[d]
  BY <1>1, <1>2, <1>4 DEF TypeOK, WriteBlock
<1>9. /\ writer'[Current(c)] = IF next = Len(Wanted(c)) THEN Nobody ELSE c
      /\ writer' \in [File -> Call \cup {Nobody}]
      /\ \A f \in File : writer'[f] = writer[f] \/ writer[f] \in {Nobody, c}
  BY <1>1, <1>2, <1>4 DEF TypeOK, WriteBlock
<1>10. /\ OpOf(c)' = OpOf(c) /\ Items(c)' = Items(c) /\ Current(c)' = Current(c)
       /\ Wanted(c)' = Wanted(c)
       /\ \A d, j : Id(d, j)' = Id(d, j)
  BY <1>1, TasksStay DEF Current, Wanted
<1>11. TypeOK'
  BY <1>1, <1>7, <1>8, <1>9 DEF TypeOK
<1>12. StepOf(c)
  BY <1>1, <1>5, <1>6, <1>7, <1>8, <1>9 DEF StepOf
<1>13. Progress(c)' /\ Reading(c)'
  BY <1>1, <1>2, <1>5, <1>7, <1>10 DEF Progress, Reading
<1>14. Writing(c)'
  <2>1. next <= Len(Wanted(c)) /\ next <= Len(s)
    BY <1>2, <1>4, <1>5
  <2>2. next < Len(Wanted(c)) => writer'[Current(c)] = c
    BY <1>2, <1>9
  <2> QED BY <2>1, <2>2, <1>1, <1>7, <1>8, <1>10 DEF Writing
<1>15. ASSUME NEW i \in 1..MaxItems, PutsLast(c, i)
       PROVE  StoredSoFar(c, i)'
  <2>1. StoredSoFar(c, i) /\ Id(c, i) \in File
    BY <1>15, <1>1, ItemType DEF IInv, FilesInOrder, PutsLast
  <2>2. CASE i = item[c]
    <3>1. /\ Len(files[Current(c)]) = moved[c]
          /\ \A q \in 1..moved[c] : files[Current(c)][q] = Wanted(c)[q]
      BY <2>1, <2>2, <1>1 DEF StoredSoFar, Current, Wanted
    <3>2. Len(s) = next /\ \A q \in 1..next : s[q] = Wanted(c)[q]
      <4>1. Len(s) = next
        BY <3>1, <1>2, <1>4, <1>5
      <4>2. ASSUME NEW q \in 1..next
            PROVE  s[q] = Wanted(c)[q]
        <5>1. CASE q = next
          BY <5>1, <4>1, <1>4, <1>5
        <5>2. CASE q # next
          <6>1. s[q] = files[Current(c)][q] /\ q \in 1..moved[c]
            BY <5>2, <4>1, <1>2, <1>4, <1>5
          <6> QED BY <6>1, <3>1
        <5> QED BY <5>1, <5>2
      <4> QED BY <4>1, <4>2
    <3>3. /\ Id(c, i) = Current(c) /\ Items(c)[i].content = Wanted(c)
          /\ ~(i < item[c]) /\ ~(i > item[c])
      BY <2>2, <1>2 DEF Current, Wanted
    <3> QED BY <3>2, <3>3, <1>1, <1>7, <1>8, <1>10 DEF StoredSoFar
  <2>3. CASE i < item[c]
    <3>1. Id(c, i) # Current(c)
      BY <2>3, <1>15, <1>1, <1>2, LastWriter
    <3> QED BY <3>1, <2>1, <2>3, <1>1, <1>2, <1>7, <1>10 DEF StoredSoFar, Kept
  <2>4. CASE i > item[c]
    BY <2>4, <1>1, <1>2 DEF StoredSoFar
  <2> QED BY <2>2, <2>3, <2>4, <1>2
<1>17. ASSUME NEW i \in 1..MaxItems, PutsAlone(c, i), i > item'[c]
       PROVE  files'[Id(c, i)] = Given[Id(c, i)]
  <2>1. i > item[c] /\ Id(c, i) \in File
    BY <1>17, <1>1, ItemType DEF PutsAlone
  <2>2. Id(c, i) # Current(c)
    BY <2>1, <1>17, <1>1, <1>2, OnlyWriter
  <2> QED BY <2>1, <2>2, <1>7, <1>17 DEF IInv, FilesInOrder
<1>16. \A i \in 1..Len(answer'[c]) : \A p \in 1..Len(answer'[c][i]) :
          WrittenAt(Id(c, i), p, answer'[c][i][p])
  BY <1>1 DEF IInv, ReadsWhatWasWritten
<1> QED BY <1>1, <1>11, <1>12, <1>13, <1>14, <1>15, <1>16, <1>17, StepKeeps

\* A long content is written in part.
LEMMA WriteFailsKeeps ==
    ASSUME IInv, NEW c \in Call, WriteFails(c)
    PROVE  IInv'
<1>1. /\ TypeOK /\ result[c] = "running" /\ item[c] <= Len(Items(c))
      /\ writer[Current(c)] \in {Nobody, c} /\ Fail(c) /\ Fault("write")
      /\ UNCHANGED <<files, before, task>>
      /\ writer' = [writer EXCEPT ![Current(c)] = Nobody]
  BY DEF IInv, AtPhase, WriteFails
<1>2. /\ writer' \in [File -> Call \cup {Nobody}]
      /\ \A f \in File : writer'[f] = writer[f] \/ writer[f] \in {Nobody, c}
  BY <1>1 DEF TypeOK
<1> QED BY <1>1, <1>2, FailureCounted, FailKeeps

-----------------------------------------------------------------------------
(* The theorems.                                                            *)

\* The invariant holds at first.
LEMMA InitIInv == Init => IInv
<1> SUFFICES ASSUME Init PROVE IInv
  OBVIOUS
<1>1. <<>> \in Content /\ <<>> \in Seq(Content) /\ Len(<<>>) = 0
  BY EmptySeq DEF Content
<1>2. TypeOK
  BY <1>1, GivenAssumption, FaultAssumption, RequestsAssumption
     DEF Init, TypeOK, Result
<1>3. FilesWereWritten
  BY DEF Init, FilesWereWritten, WrittenAt
<1>4. ReadsWhatWasWritten /\ BeforeIsOver
  BY <1>1 DEF Init, ReadsWhatWasWritten, BeforeIsOver
<1>5. ASSUME NEW c \in Call
      PROVE  Progress(c) /\ Reading(c) /\ Writing(c)
  <2>1. Len(Items(c)) \in Nat
    BY <1>2, TaskType
  <2>2. /\ item[c] = 1 /\ phase[c] = "open" /\ result[c] = "idle"
        /\ data[c] = <<>> /\ answer[c] = <<>> /\ moved[c] = 0 /\ size[c] = 0
        /\ before[c] = {}
    BY DEF Init
  <2> QED BY <2>1, <2>2, <1>1 DEF Progress, Reading, Writing
<1>6. ASSUME NEW c \in Call, NEW i \in 1..MaxItems
      PROVE  FilesInOrder(c, i)
  BY <1>6 DEF Init, FilesInOrder, PutsLast
<1> QED BY <1>2, <1>3, <1>4, <1>5, <1>6 DEF IInv

\* Every step keeps it.
LEMMA NextIInv == IInv /\ [Next]_vars => IInv'
<1> SUFFICES ASSUME IInv, [Next]_vars PROVE IInv'
  OBVIOUS
<1>1. ASSUME NEW c \in Call,
             \/ Arrive(c) \/ Finish(c)
             \/ OpenToRead(c) \/ Measure(c) \/ ReadBlock(c) \/ EndRead(c)
             \/ OpenToWrite(c) \/ WriteBlock(c) \/ EndWrite(c)
             \/ WriteFails(c) \/ CloseFails(c)
      PROVE  IInv'
  BY <1>1, ArriveKeeps, FinishKeeps, OpenToReadKeeps, MeasureKeeps,
     ReadBlockKeeps, EndReadKeeps, OpenToWriteKeeps, WriteBlockKeeps,
     EndWriteKeeps, WriteFailsKeeps, CloseFailsKeeps
<1>2. CASE Crash
  BY <1>2, CrashKeeps
<1>3. CASE UNCHANGED vars
  <2>1. /\ UNCHANGED <<files, progress, task>> /\ result' = result
        /\ before' = before /\ writer' = writer /\ faults' = faults
    BY <1>3 DEF vars, progress
  <2> QED BY <2>1, QuietKeeps DEF IInv, TypeOK, BeforeIsOver, Over
<1> QED BY <1>1, <1>2, <1>3 DEF Next

\* What files, readers and writers know of each other holds in every state.
THEOREM InductiveInvariant == Spec => []IInv
<1> QED BY InitIInv, NextIInv, PTL DEF Spec

\* Whatever is read was written into that file at that place.
THEOREM ReadsAreReal == Spec => []ReadsWhatWasWritten
<1>1. IInv => ReadsWhatWasWritten
  BY DEF IInv
<1> QED BY <1>1, InductiveInvariant, PTL

\* The last put of a file is stored once it is answered, whatever was put
\* before it.
THEOREM PutsAreStored == Spec => []ConfirmedIsStored
<1>1. IInv => ConfirmedIsStored
  BY AnsweredIsStored DEF ConfirmedIsStored
<1> QED BY <1>1, InductiveInvariant, PTL

\* Whoever asks for the file after that gets it, until the next put arrives.
THEOREM ReadsSeePuts == Spec => []ReadsConfirmedPut
<1>1. ASSUME IInv
      PROVE  ReadsConfirmedPut
  <2> SUFFICES ASSUME NEW c \in Call, NEW d \in Call,
                      NEW i \in 1..MaxItems, NEW j \in 1..MaxItems,
                      OpOf(c) = "get", i <= Len(answer[c]), d \in before[c],
                      result[d] = "ok", PutsLast(d, j), NameOf(c, i) = Id(d, j)
               PROVE  answer[c][i] \in Kept(Items(d)[j].content)
    BY DEF ReadsConfirmedPut
  <2>1. ReadsStable(c, d, j) /\ Len(answer[c]) \in Nat
    BY <1>1 DEF IInv, Reading, TypeOK
  <2> QED BY <2>1 DEF ReadsStable
<1>2. IInv => ReadsConfirmedPut
  BY <1>1
<1> QED BY <1>2, InductiveInvariant, PTL

\* A put leaves whole files, then at most one that may hold anything, then
\* files as they were, wherever it stops.
THEOREM PutsGoInOrder == Spec => []PutsOneAfterAnother
<1>1. ASSUME IInv
      PROVE  PutsOneAfterAnother
  <2> SUFFICES ASSUME NEW c \in Call
               PROVE  \E k \in 1..(MaxItems + 1) : \A i \in 1..MaxItems :
                         PutsAlone(c, i) =>
                            /\ i < k => files[Id(c, i)]
                                           \in Kept(Items(c)[i].content)
                            /\ i > k => files[Id(c, i)] = Given[Id(c, i)]
    BY DEF PutsOneAfterAnother
  <2>1. item[c] \in 1..(MaxItems + 1)
    BY <1>1 DEF IInv, TypeOK
  <2>2. ASSUME NEW i \in 1..MaxItems, PutsAlone(c, i), i < item[c]
        PROVE  files[Id(c, i)] \in Kept(Items(c)[i].content)
    <3>1. result[c] # "idle"
      BY <1>1, <2>2 DEF IInv, Progress
    <3>2. PutsLast(c, i)
      BY <3>1, <2>2 DEF PutsLast, PutsAlone
    <3> QED BY <3>2, <2>2, <1>1 DEF IInv, FilesInOrder, StoredSoFar
  <2>3. ASSUME NEW i \in 1..MaxItems, PutsAlone(c, i), i > item[c]
        PROVE  files[Id(c, i)] = Given[Id(c, i)]
    BY <2>3, <1>1 DEF IInv, FilesInOrder
  <2> QED BY <2>1, <2>2, <2>3
<1>2. IInv => PutsOneAfterAnother
  BY <1>1
<1> QED BY <1>2, InductiveInvariant, PTL
-----------------------------------------------------------------------------
(* Uploads.                                                                 *)

\* A step takes one call to its next item and changes no file, or leaves
\* every call at its item.
LEMMA ItemSteps ==
    ASSUME TypeOK, [Next]_vars
    PROVE  /\ UNCHANGED task
           /\ \/ item' = item
              \/ /\ files' = files
                 /\ \E c \in Call : item' = [item EXCEPT ![c] = @ + 1]
<1> USE DEF progress, NextItem, Deliver, Enter, Fail
<1>1. ASSUME NEW c \in Call, OpenToRead(c) \/ Measure(c) \/ EndRead(c)
      PROVE  /\ UNCHANGED <<files, task>>
             /\ item' = item \/ item' = [item EXCEPT ![c] = @ + 1]
  BY <1>1 DEF OpenToRead, Measure, EndRead
<1>2. ASSUME NEW c \in Call, EndWrite(c) \/ CloseFails(c)
      PROVE  /\ UNCHANGED <<files, task>>
             /\ item' = [item EXCEPT ![c] = @ + 1]
  BY <1>2 DEF EndWrite, CloseFails
<1>3. ASSUME NEW c \in Call,
             \/ Arrive(c) \/ Finish(c) \/ ReadBlock(c)
             \/ OpenToWrite(c) \/ WriteBlock(c) \/ WriteFails(c)
      PROVE  UNCHANGED <<item, task>>
  BY <1>3 DEF Arrive, Finish, ReadBlock, EndOfFile, OpenToWrite, WriteBlock,
              WriteFails
<1>4. CASE Crash
  BY <1>4 DEF Crash
<1>5. CASE UNCHANGED vars
  BY <1>5 DEF vars
<1> QED BY <1>1, <1>2, <1>3, <1>4, <1>5 DEF Next

\* Only the writer of a file changes it.
LEMMA FileSteps ==
    ASSUME TypeOK, [Next]_vars, NEW f \in File, files'[f] # files[f]
    PROVE  \E c \in Call : /\ OpOf(c) = "put" /\ item[c] <= Len(Items(c))
                           /\ Current(c) = f
<1>1. ASSUME NEW c \in Call, OpenToWrite(c) \/ WriteBlock(c)
      PROVE  /\ OpOf(c) = "put" /\ item[c] <= Len(Items(c))
             /\ Current(c) = f
  <2>1. OpOf(c) = "put" /\ item[c] <= Len(Items(c))
    BY <1>1 DEF OpenToWrite, WriteBlock, AtPhase
  <2>2. \/ files' = files
        \/ \E s : files' = [files EXCEPT ![Current(c)] = s]
    BY <1>1 DEF OpenToWrite, WriteBlock
  <2> QED BY <2>1, <2>2 DEF TypeOK
<1>2. ASSUME NEW c \in Call,
             \/ Arrive(c) \/ Finish(c)
             \/ OpenToRead(c) \/ Measure(c) \/ ReadBlock(c) \/ EndRead(c)
             \/ EndWrite(c) \/ WriteFails(c) \/ CloseFails(c)
      PROVE  files' = files
  BY <1>2 DEF Arrive, Finish, OpenToRead, Measure, ReadBlock, EndRead,
              EndWrite, WriteFails, CloseFails
<1>3. CASE Crash
  BY <1>3 DEF Crash
<1>4. CASE UNCHANGED vars
  BY <1>4 DEF vars
<1> QED BY <1>1, <1>2, <1>3, <1>4 DEF Next

\* What is shelved is whole.
LEMMA ShelvedIsWhole ==
    IInv => \A f \in Made : Shelved(f) => files[f] \in WholeContents
<1> SUFFICES ASSUME IInv, NEW f \in Made, Shelved(f)
             PROVE  files[f] \in WholeContents
  OBVIOUS
<1> DEFINE c == f[1]
           i == f[2]
<1>1. /\ c \in Call /\ i \in 1..MaxItems
      /\ item[c] > i /\ Id(c, i) = f /\ PutsAlone(c, i)
      /\ TypeOK
  BY DEF Made, Shelved, IInv
<1> HIDE DEF c, i
<1>2. result[c] # "idle"
  BY <1>1 DEF IInv, Progress
<1>3. PutsLast(c, i)
  BY <1>1, <1>2 DEF PutsLast, PutsAlone
<1>4. files[f] \in Kept(Items(c)[i].content)
  BY <1>1, <1>3 DEF IInv, FilesInOrder, StoredSoFar
<1>5. /\ task[c] \in {q \in Requests : q.op = "put"}
      /\ i \in 1..Len(task[c].items)
      /\ Items(c) = task[c].items
  BY <1>1, TaskType DEF TypeOK, PutsAlone, OpOf, Items
<1> QED BY <1>4, <1>5 DEF WholeContents

\* What is shelved stays.
LEMMA ShelvedStays ==
    ASSUME IInv, [Next]_vars, NEW f \in Made, Shelved(f)
    PROVE  Shelved(f)' /\ files'[f] = files[f]
<1> DEFINE c == f[1]
           i == f[2]
<1>1. /\ c \in Call /\ i \in 1..MaxItems /\ f \in File
      /\ item[c] > i /\ Id(c, i) = f /\ PutsAlone(c, i)
      /\ TypeOK /\ item \in [Call -> 1..(MaxItems + 1)] /\ MaxItems \in Nat
  BY RequestsAssumption DEF Made, Shelved, IInv, TypeOK, File
<1>2. files'[f] = files[f]
  <2> SUFFICES ASSUME NEW d \in Call, OpOf(d) = "put",
                      item[d] <= Len(Items(d)), Current(d) = f
               PROVE  FALSE
    BY <1>1, FileSteps
  <2>1. d = c /\ item[d] = i
    BY <1>1, OnlyWriter
  <2> QED BY <2>1, <1>1
<1>3. UNCHANGED task /\ item'[c] > i
  <2>1. item'[c] = item[c] \/ item'[c] = item[c] + 1
    BY <1>1, ItemSteps
  <2> QED BY <2>1, <1>1, ItemSteps
<1>4. Id(c, i)' = f /\ PutsAlone(c, i)'
  BY <1>1, <1>3, TasksStay
<1> QED BY <1>2, <1>3, <1>4 DEF Shelved

\* Only the file of the item that a call leaves is shelved anew.
LEMMA ShelvedAnew ==
    ASSUME IInv, [Next]_vars, NEW f \in Made, Shelved(f)', ~Shelved(f)
    PROVE  \E c \in Call : /\ f = <<c, item[c]>>
                           /\ item' = [item EXCEPT ![c] = @ + 1]
<1>1. /\ f[1] \in Call /\ f[2] \in 1..MaxItems /\ f = <<f[1], f[2]>>
      /\ item \in [Call -> 1..(MaxItems + 1)] /\ MaxItems \in Nat /\ TypeOK
  BY RequestsAssumption DEF Made, IInv, TypeOK
<1>2. UNCHANGED task
  BY <1>1, ItemSteps
<1>3. item'[f[1]] > f[2] /\ ~(item[f[1]] > f[2])
  BY <1>2, TasksStay DEF Shelved
<1>4. PICK c \in Call : item' = [item EXCEPT ![c] = @ + 1]
  BY <1>1, <1>3, ItemSteps
<1>5. f[1] = c /\ item[c] = f[2]
  BY <1>1, <1>3, <1>4
<1> QED BY <1>1, <1>4, <1>5

\* Every step of the service is an upload, or none that a shelf shows.
LEMMA StepUploads ==
    ASSUME IInv, [Next]_vars
    PROVE  [Shelf!Next]_Shelves
<1>1. (\A f \in Made : Shelved(f) => files[f] \in WholeContents)'
  <2>1. IInv'
    BY NextIInv
  <2> QED BY <2>1, ShelvedIsWhole, PTL
<1>2. \A f \in Made : Shelved(f) => Shelves'[f] = Shelves[f]
  BY ShelvedStays DEF Shelves
<1>3. Shelves = [f \in Made |-> Shelves[f]] /\ Shelves' = [f \in Made |-> Shelves'[f]]
  BY DEF Shelves
<1>4. CASE \A f \in Made : Shelved(f)' => Shelved(f)
  <2>1. \A f \in Made : Shelves'[f] = Shelves[f]
    BY <1>2, <1>4 DEF Shelves
  <2> QED BY <2>1, <1>3
<1>5. CASE \E f \in Made : Shelved(f)' /\ ~Shelved(f)
  <2>1. PICK f \in Made : Shelved(f)' /\ ~Shelved(f)
    BY <1>5
  <2>2. PICK c \in Call : /\ f = <<c, item[c]>>
                          /\ item' = [item EXCEPT ![c] = @ + 1]
    BY <2>1, ShelvedAnew
  <2>3. ASSUME NEW g \in Made, Shelved(g)', ~Shelved(g)
        PROVE  g = f
    <3>1. PICK d \in Call : /\ g = <<d, item[d]>>
                            /\ item' = [item EXCEPT ![d] = @ + 1]
      BY <2>3, ShelvedAnew
    <3>2. item \in [Call -> 1..(MaxItems + 1)] /\ MaxItems \in Nat
      BY RequestsAssumption DEF IInv, TypeOK
    <3>3. c = d
      BY <2>2, <3>1, <3>2
    <3> QED BY <2>2, <3>1, <3>3
  <2>4. Shelves[f] = NoFile
    BY <2>1 DEF Shelves
  <2>5. Shelves'[f] \in WholeContents
    BY <1>1, <2>1 DEF Shelves, WholeContents, Kept
  <2>6. Shelves' = [Shelves EXCEPT ![f] = Shelves'[f]]
    <3>1. \A g \in Made \ {f} : Shelves'[g] = Shelves[g]
      BY <1>2, <2>3 DEF Shelves
    <3> QED BY <3>1, <1>3
  <2> QED BY <2>4, <2>5, <2>6 DEF Shelf!Next, Shelf!Upload
<1> QED BY <1>4, <1>5

\* A file under an id that the service made up is uploaded once, whole and at
\* once.
THEOREM FilesAreUploads == Spec => ImplementsUploads
<1>1. Init => Shelf!Init
  BY RequestsAssumption DEF Init, Shelf!Init, Shelves, Shelved, Made
<1>2. IInv /\ [Next]_vars => [Shelf!Next]_Shelves
  BY StepUploads
<1> QED BY <1>1, <1>2, InductiveInvariant, PTL
        DEF Spec, ImplementsUploads, Shelf!Spec
=============================================================================
