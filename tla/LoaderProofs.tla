---------------------------- MODULE LoaderProofs ----------------------------
(***************************************************************************)
(* Proofs about Loader, for any number of concurrent requests with any     *)
(* number of URLs, whatever ValidateURL says of them: the fan-out, the     *)
(* WaitGroup, the answers and the shared metrics.                          *)
(***************************************************************************)
EXTENDS Loader, FiniteSetTheorems, SequenceTheorems, TLAPS

TaskState == {"none", "crawling", "crawled", "observed", "stored", "done"}

\* The positions of a request's URLs.
Slots(r) == 1..Len(Urls(r))

\* f is a function on the requests.
PerRequest(f) == f = [r \in Req |-> f[r]]

LoaderTypeOK ==
  /\ pc \in [Req -> {"new", "spawning", "waiting", "answered"}]
  /\ input \in [Req -> Inputs]
  /\ spawned \in [Req -> Nat] /\ wg \in [Req -> Int]
  /\ PerRequest(task) /\ PerRequest(doc) /\ PerRequest(results) /\ PerRequest(answer)
  /\ \A r \in Req : /\ task[r] \in [Slots(r) -> TaskState]
                    /\ doc[r] \in [Slots(r) -> Doc \cup {NoDoc}]
                    /\ results[r] \in [Slots(r) -> Doc \cup {NoDoc}]
  /\ metrics \in [{"ok", "error"} -> Nat]

\* Goroutines are started in the order of the URLs, by an accepted request only.
SpawnOrder ==
  \A r \in Req :
    /\ spawned[r] <= Len(Urls(r))
    /\ \A i \in Slots(r) : task[r][i] = "none" <=> i > spawned[r]
    /\ pc[r] = "new" => spawned[r] = 0
    /\ pc[r] = "waiting" => spawned[r] = Len(Urls(r))

\* The goroutines the handler of r has to wait for.
Running(r) == {i \in Slots(r) : task[r][i] \in {"crawling", "crawled", "observed", "stored"}}

\* The WaitGroup counts them.
WgExact == \A r \in Req : wg[r] = Cardinality(Running(r))

\* A goroutine works on its own URL's document, and stores it in its own place.
DocsInPlace ==
  \A r \in Req : \A i \in Slots(r) :
    /\ task[r][i] \in {"crawled", "observed", "stored", "done"} =>
         doc[r][i] \in Doc /\ doc[r][i].source = Urls(r)[i]
    /\ task[r][i] \in {"stored", "done"} => results[r][i] = doc[r][i]

\* The request passed every check of the handler.
Passed(r) ==
  /\ input[r].post /\ input[r].authorized
  /\ Len(Urls(r)) > 0 /\ Len(Urls(r)) <= MaxUrls
  /\ \A i \in Slots(r) : TRUE \in ValidateURL(Urls(r)[i])

\* A request is answered with an error before anything is started, or passes the
\* checks and is answered with its results when every goroutine is done.
AnswerOrder ==
  \A r \in Req :
    /\ pc[r] \in {"new", "spawning", "waiting"} => answer[r] = NoAnswer
    /\ pc[r] \in {"spawning", "waiting"} => Passed(r)
    /\ pc[r] = "answered" =>
         \/ answer[r].code \notin {0, 200} /\ spawned[r] = 0
         \/ /\ answer[r] = [code |-> 200, body |-> results[r]] /\ Passed(r)
            /\ \A i \in Slots(r) : task[r][i] = "done"

LoaderInv ==
  LoaderTypeOK /\ SpawnOrder /\ WgExact /\ DocsInPlace /\ AnswerOrder /\ MetricsExact

-----------------------------------------------------------------------------

\* The URLs of a request, and their positions.
LEMMA UrlsFacts ==
  ASSUME LoaderTypeOK, NEW r \in Req
  PROVE  /\ Urls(r) \in Seq(Url) /\ Len(Urls(r)) \in Nat
         /\ \A i \in Slots(r) : Urls(r)[i] \in Url
BY InputsTyped DEF LoaderTypeOK, Input, Urls, Slots

\* A request has finitely many goroutines.
LEMMA RunningFinite ==
  ASSUME LoaderTypeOK, NEW r \in Req
  PROVE  /\ IsFiniteSet(Running(r)) /\ Cardinality(Running(r)) \in Nat
         /\ Cardinality(Running(r)) = 0 => Running(r) = {}
         /\ \A i : i \notin Running(r) =>
              Cardinality(Running(r) \cup {i}) = Cardinality(Running(r)) + 1
         /\ \A i : i \in Running(r) =>
              Cardinality(Running(r) \ {i}) = Cardinality(Running(r)) - 1
<1>1. IsFiniteSet(Slots(r))
      BY UrlsFacts, FS_Interval DEF Slots
<1>2. IsFiniteSet(Running(r))
      BY <1>1, FS_Subset DEF Running
<1> QED  BY <1>2, FS_CardinalityType, FS_EmptySet, FS_AddElement, FS_RemoveElement

\* The goroutines of all requests.
Cells == UNION {{r} \X Slots(r) : r \in Req}

\* There are finitely many of them.
LEMMA CellsFinite ==
  ASSUME LoaderTypeOK
  PROVE  IsFiniteSet(Cells)
<1> DEFINE row == [r \in Req |-> {r} \X Slots(r)]
           rows == {{r} \X Slots(r) : r \in Req}
<1>1. ASSUME NEW r \in Req
      PROVE  IsFiniteSet({r} \X Slots(r))
  <2>1. IsFiniteSet({r})
        BY FS_Singleton
  <2>2. IsFiniteSet(Slots(r))
        BY UrlsFacts, FS_Interval DEF Slots
  <2> QED  BY <2>1, <2>2, FS_Product
<1>2. row \in Surjection(Req, rows)
      BY DEF Surjection
<1>3. IsFiniteSet(rows)
      BY <1>2, ReqFinite, FS_Surjection
<1>4. \A S \in rows : IsFiniteSet(S)
      BY <1>1
<1>5. IsFiniteSet(UNION rows)
      BY <1>3, <1>4, FS_UNION
<1> QED  BY <1>5 DEF Cells

-----------------------------------------------------------------------------
(* What the steps have in common *)

\* The statuses of a goroutine whose crawl has been counted.
Counted == {"observed", "stored", "done"}

\* The counted crawls of status s are cells of the task table.
LEMMA ObservedIsCells ==
  ASSUME NEW s
  PROVE  Observed(s) = {x \in Cells : /\ task[x[1]][x[2]] \in Counted
                                      /\ doc[x[1]][x[2]].error = (s = "error")}
BY DEF Observed, Cells, Counted, Slots

\* A step that counts nothing and leaves the counted documents alone keeps
\* the metrics exact.
LEMMA MetricsKept ==
  ASSUME MetricsExact, input' = input, metrics' = metrics,
         \A q \in Req : \A j \in Slots(q) :
           /\ task'[q][j] \in Counted <=> task[q][j] \in Counted
           /\ task[q][j] \in Counted => doc'[q][j] = doc[q][j]
  PROVE  MetricsExact'
<1>1. Cells' = Cells
      BY DEF Cells, Slots, Urls
<1>2. ASSUME NEW x \in Cells
      PROVE  /\ task'[x[1]][x[2]] \in Counted <=> task[x[1]][x[2]] \in Counted
             /\ task[x[1]][x[2]] \in Counted => doc'[x[1]][x[2]] = doc[x[1]][x[2]]
      BY <1>2 DEF Cells
<1>3. ASSUME NEW s \in {"ok", "error"}
      PROVE  Observed(s)' = Observed(s)
  <2>1. Observed(s)' = {x \in Cells' : /\ task'[x[1]][x[2]] \in Counted
                                       /\ doc'[x[1]][x[2]].error = (s = "error")}
        BY DEF Observed, Cells, Counted, Slots
  <2> QED  BY <2>1, <1>1, <1>2, ObservedIsCells
<1> QED  BY <1>3 DEF MetricsExact

\* What a goroutine's step does to the table of tasks.
LEMMA TaskStep ==
  ASSUME LoaderTypeOK, input' = input, NEW r \in Req, NEW i \in Slots(r),
         NEW t \in TaskState, task' = [task EXCEPT ![r][i] = t]
  PROVE  /\ PerRequest(task)' /\ \A q \in Req : task'[q] \in [Slots(q)' -> TaskState]
         /\ \A q \in Req : \A j \in Slots(q) :
              task'[q][j] = IF q = r /\ j = i THEN t ELSE task[q][j]
         /\ \A q \in Req : q # r => task'[q] = task[q]
<1>1. task = [q \in Req |-> task[q]]
      BY DEF LoaderTypeOK, PerRequest
<1>2. \A q \in Req : task[q] \in [Slots(q) -> TaskState]
      BY DEF LoaderTypeOK
<1>3. \A q : Slots(q)' = Slots(q)
      BY DEF Slots, Urls
<1>4. \A q \in Req : task'[q] = IF q = r THEN [task[r] EXCEPT ![i] = t] ELSE task[q]
      BY <1>1
<1>5. PerRequest(task)'
      BY <1>1 DEF PerRequest
<1>6. \A q \in Req : task'[q] \in [Slots(q)' -> TaskState]
      BY <1>2, <1>3, <1>4
<1>7. \A q \in Req : \A j \in Slots(q) :
        task'[q][j] = IF q = r /\ j = i THEN t ELSE task[q][j]
      BY <1>2, <1>4
<1> QED  BY <1>4, <1>5, <1>6, <1>7

\* The goroutines to wait for, when a goroutine's step leaves it running.
LEMMA RunningKept ==
  ASSUME input' = input, NEW q \in Req,
         \A j \in Slots(q) :
           task'[q][j] \in {"crawling", "crawled", "observed", "stored"}
             <=> task[q][j] \in {"crawling", "crawled", "observed", "stored"}
  PROVE  Running(q)' = Running(q)
<1>1. Slots(q)' = Slots(q)
      BY DEF Slots, Urls
<1> QED  BY <1>1 DEF Running

\* No step changes a request.
LEMMA RequestKept ==
  ASSUME input' = input, NEW q
  PROVE  Slots(q)' = Slots(q) /\ Urls(q)' = Urls(q) /\ Passed(q)' = Passed(q)
<1>1. Urls(q)' = Urls(q) /\ Slots(q)' = Slots(q)
      BY DEF Urls, Slots
<1> QED  BY <1>1 DEF Passed, ValidateURL

-----------------------------------------------------------------------------
(* The handler's steps *)

\* A request that is not rejected has passed every check.
LEMMA StatusZero ==
  ASSUME LoaderTypeOK, NEW r \in Req, NEW v \in Verdicts(r)
  PROVE  /\ Status(r, v) = 0 => Passed(r)
         /\ Status(r, v) # 200
<1>1. /\ v \in [Slots(r) -> BOOLEAN]
      /\ \A j \in Slots(r) : v[j] \in ValidateURL(Urls(r)[j])
      BY DEF Verdicts, Slots
<1>2. Len(Urls(r)) \in Nat /\ MaxUrls \in Nat
      BY UrlsFacts, LimitsTyped
<1>3. Status(r, v) # 200
      BY DEF Status
<1>4. ASSUME Status(r, v) = 0
      PROVE  Passed(r)
  <2>1. /\ input[r].post /\ input[r].authorized
        /\ ~(Len(Urls(r)) = 0 \/ Len(Urls(r)) > MaxUrls)
        /\ AllValid(r, v)
        BY <1>4 DEF Status
  <2>2. \A j \in Slots(r) : TRUE \in ValidateURL(Urls(r)[j])
    <3> SUFFICES ASSUME NEW j \in Slots(r)
                 PROVE  TRUE \in ValidateURL(Urls(r)[j])
        OBVIOUS
    <3>1. v[j] = TRUE
          BY <2>1, <1>1 DEF AllValid, Slots
    <3> QED  BY <3>1, <1>1
  <2>3. Len(Urls(r)) > 0 /\ Len(Urls(r)) <= MaxUrls
        BY <2>1, <1>2
  <2> QED  BY <2>1, <2>2, <2>3 DEF Passed
<1> QED  BY <1>3, <1>4

\* The checks either reject the request for good or let the fan-out begin.
LEMMA CheckStep ==
  ASSUME LoaderInv, NEW r \in Req, Check(r)
  PROVE  LoaderInv'
<1> USE DEF LoaderInv
<1>1. /\ pc[r] = "new"
      /\ input' = input /\ spawned' = spawned /\ task' = task /\ wg' = wg
      /\ doc' = doc /\ results' = results /\ metrics' = metrics
      BY DEF Check
<1>2. PICK v \in Verdicts(r) :
        IF Status(r, v) = 0
        THEN pc' = [pc EXCEPT ![r] = "spawning"] /\ answer' = answer
        ELSE /\ pc' = [pc EXCEPT ![r] = "answered"]
             /\ answer' = [answer EXCEPT ![r] = Rejected(Status(r, v))]
      BY DEF Check
<1>3. \A q : Slots(q)' = Slots(q) /\ Urls(q)' = Urls(q) /\ Passed(q)' = Passed(q)
      BY <1>1, RequestKept
<1>4. LoaderTypeOK'
  <2>1. pc' \in [Req -> {"new", "spawning", "waiting", "answered"}]
        BY <1>2 DEF LoaderTypeOK
  <2>2. PerRequest(answer)'
        BY <1>2 DEF LoaderTypeOK, PerRequest
  <2>3. PerRequest(task)' /\ PerRequest(doc)' /\ PerRequest(results)'
        BY <1>1 DEF LoaderTypeOK, PerRequest
  <2> QED  BY <2>1, <2>2, <2>3, <1>1, <1>3 DEF LoaderTypeOK
<1>5. SpawnOrder'
  <2>1. pc \in [Req -> {"new", "spawning", "waiting", "answered"}]
        BY DEF LoaderTypeOK
  <2>2. \A q \in Req : /\ pc'[q] = "new" => pc[q] = "new"
                       /\ pc'[q] = "waiting" => pc[q] = "waiting"
        BY <1>2, <2>1
  <2> QED  BY <1>1, <1>3, <2>2 DEF SpawnOrder
<1>6. WgExact'
  <2>1. \A q \in Req : Running(q)' = Running(q)
        BY <1>1, RunningKept
  <2> QED  BY <1>1, <2>1 DEF WgExact
<1>7. DocsInPlace'
      BY <1>1, <1>3 DEF DocsInPlace
<1>8. AnswerOrder'
  <2> SUFFICES ASSUME NEW q \in Req
               PROVE  /\ pc'[q] \in {"new", "spawning", "waiting"} => answer'[q] = NoAnswer
                      /\ pc'[q] \in {"spawning", "waiting"} => Passed(q)
                      /\ pc'[q] = "answered" =>
                           \/ answer'[q].code \notin {0, 200} /\ spawned[q] = 0
                           \/ /\ answer'[q] = [code |-> 200, body |-> results[q]] /\ Passed(q)
                              /\ \A i \in Slots(q) : task[q][i] = "done"
      BY <1>1, <1>3 DEF AnswerOrder, NoAnswer
  <2>1. pc \in [Req -> {"new", "spawning", "waiting", "answered"}] /\ DOMAIN answer = Req
        BY DEF LoaderTypeOK, PerRequest
  <2>2. CASE q # r
    <3>1. pc'[q] = pc[q] /\ answer'[q] = answer[q]
          BY <2>2, <1>2, <2>1
    <3> QED  BY <3>1 DEF AnswerOrder
  <2>3. CASE q = r /\ Status(r, v) = 0
    <3>1. pc'[q] = "spawning" /\ answer'[q] = NoAnswer
          BY <2>3, <1>1, <1>2, <2>1 DEF AnswerOrder
    <3> QED  BY <2>3, <3>1, StatusZero
  <2>4. CASE q = r /\ Status(r, v) # 0
    <3>1. pc'[q] = "answered" /\ answer'[q].code = Status(r, v)
          BY <2>4, <1>2, <2>1 DEF Rejected
    <3>2. spawned[q] = 0
          BY <2>4, <1>1 DEF SpawnOrder
    <3> QED  BY <2>4, <3>1, <3>2, StatusZero
  <2> QED  BY <2>2, <2>3, <2>4
<1>9. MetricsExact'
      BY <1>1, MetricsKept
<1> QED  BY <1>4, <1>5, <1>6, <1>7, <1>8, <1>9

\* wg.Add before the go statement: the new goroutine is counted.
LEMMA SpawnStep ==
  ASSUME LoaderInv, NEW r \in Req, Spawn(r)
  PROVE  LoaderInv'
<1> USE DEF LoaderInv
<1> DEFINE i == spawned[r] + 1
<1>1. /\ pc[r] = "spawning" /\ spawned[r] < Len(Urls(r))
      /\ wg' = [wg EXCEPT ![r] = wg[r] + 1]
      /\ task' = [task EXCEPT ![r][i] = "crawling"]
      /\ spawned' = [spawned EXCEPT ![r] = i]
      /\ pc' = pc /\ input' = input /\ doc' = doc /\ results' = results
      /\ answer' = answer /\ metrics' = metrics
      BY DEF Spawn, AddOne
<1>2. \A q : Slots(q)' = Slots(q) /\ Urls(q)' = Urls(q) /\ Passed(q)' = Passed(q)
      BY <1>1, RequestKept
<1>3. spawned \in [Req -> Nat] /\ wg \in [Req -> Int] /\ \A q \in Req : Len(Urls(q)) \in Nat
      BY UrlsFacts DEF LoaderTypeOK
<1>4. i \in Slots(r) /\ i \in Nat
      BY <1>1, <1>3 DEF Slots
<1>5. task[r][i] = "none"
      BY <1>3, <1>4 DEF SpawnOrder
<1> HIDE DEF i
<1>6. /\ PerRequest(task)' /\ \A q \in Req : task'[q] \in [Slots(q)' -> TaskState]
      /\ \A q \in Req : \A j \in Slots(q) :
           task'[q][j] = IF q = r /\ j = i THEN "crawling" ELSE task[q][j]
      /\ \A q \in Req : q # r => task'[q] = task[q]
      BY <1>1, <1>4, TaskStep DEF TaskState
<1>7. LoaderTypeOK'
  <2>1. spawned' \in [Req -> Nat]
        BY <1>1, <1>3, <1>4
  <2>2. wg' \in [Req -> Int]
        BY <1>1, <1>3
  <2>3. PerRequest(answer)' /\ PerRequest(doc)' /\ PerRequest(results)'
        BY <1>1 DEF LoaderTypeOK, PerRequest
  <2> QED  BY <2>1, <2>2, <2>3, <1>1, <1>2, <1>6 DEF LoaderTypeOK
<1>8. SpawnOrder'
  <2> SUFFICES ASSUME NEW q \in Req
               PROVE  /\ spawned'[q] <= Len(Urls(q))
                      /\ \A j \in Slots(q) : task'[q][j] = "none" <=> j > spawned'[q]
                      /\ pc[q] = "new" => spawned'[q] = 0
                      /\ pc[q] = "waiting" => spawned'[q] = Len(Urls(q))
      BY <1>1, <1>2 DEF SpawnOrder
  <2>1. CASE q # r
        BY <2>1, <1>1, <1>3, <1>6 DEF SpawnOrder
  <2>2. CASE q = r
    <3>1. spawned'[q] = spawned[r] + 1 /\ spawned'[q] = i
          BY <2>2, <1>1, <1>3 DEF i
    <3>2. spawned'[q] <= Len(Urls(q))
          BY <2>2, <3>1, <1>1, <1>3
    <3>3. ASSUME NEW j \in Slots(q)
          PROVE  task'[q][j] = "none" <=> j > spawned'[q]
      <4>1. j \in Nat /\ spawned[r] \in Nat
            BY <1>3 DEF Slots
      <4>2. task[r][j] = "none" <=> j > spawned[r]
            BY <2>2 DEF SpawnOrder
      <4>3. CASE j = i
            BY <4>3, <2>2, <3>1, <1>4, <1>6
      <4>4. CASE j # i
            BY <4>4, <4>1, <4>2, <2>2, <3>1, <1>6
      <4> QED  BY <4>3, <4>4
    <3> QED  BY <2>2, <3>2, <3>3, <1>1
  <2> QED  BY <2>1, <2>2
<1>9. WgExact'
  <2> SUFFICES ASSUME NEW q \in Req
               PROVE  wg'[q] = Cardinality(Running(q)')
      BY DEF WgExact
  <2>1. CASE q # r
    <3>1. Running(q)' = Running(q)
          BY <2>1, <1>1, <1>6, RunningKept
    <3> QED  BY <2>1, <3>1, <1>1, <1>3 DEF WgExact
  <2>2. CASE q = r
    <3>1. Running(r)' = Running(r) \cup {i} /\ i \notin Running(r)
          BY <1>2, <1>4, <1>5, <1>6 DEF Running
    <3>2. Cardinality(Running(r) \cup {i}) = Cardinality(Running(r)) + 1
          BY <3>1, RunningFinite
    <3> QED  BY <2>2, <3>1, <3>2, <1>1, <1>3 DEF WgExact
  <2> QED  BY <2>1, <2>2
<1>10. DocsInPlace'
       BY <1>1, <1>2, <1>6 DEF DocsInPlace
<1>11. AnswerOrder'
  <2> SUFFICES ASSUME NEW q \in Req
               PROVE  /\ pc[q] \in {"new", "spawning", "waiting"} => answer[q] = NoAnswer
                      /\ pc[q] \in {"spawning", "waiting"} => Passed(q)
                      /\ pc[q] = "answered" =>
                           \/ answer[q].code \notin {0, 200} /\ spawned'[q] = 0
                           \/ /\ answer[q] = [code |-> 200, body |-> results[q]] /\ Passed(q)
                              /\ \A j \in Slots(q) : task'[q][j] = "done"
      BY <1>1, <1>2 DEF AnswerOrder, NoAnswer
  <2>1. pc[q] = "answered" => q # r /\ task'[q] = task[q] /\ spawned'[q] = spawned[q]
        BY <1>1, <1>3, <1>6
  <2> QED  BY <2>1 DEF AnswerOrder
<1>12. MetricsExact'
       BY <1>1, <1>5, <1>6, MetricsKept DEF Counted
<1> QED  BY <1>7, <1>8, <1>9, <1>10, <1>11, <1>12

\* All goroutines are started.
LEMMA WaitStep ==
  ASSUME LoaderInv, NEW r \in Req, Wait(r)
  PROVE  LoaderInv'
<1> USE DEF LoaderInv
<1>1. /\ pc[r] = "spawning" /\ spawned[r] = Len(Urls(r))
      /\ pc' = [pc EXCEPT ![r] = "waiting"]
      /\ input' = input /\ spawned' = spawned /\ task' = task /\ wg' = wg
      /\ doc' = doc /\ results' = results /\ answer' = answer /\ metrics' = metrics
      BY DEF Wait
<1>2. \A q : Slots(q)' = Slots(q) /\ Urls(q)' = Urls(q) /\ Passed(q)' = Passed(q)
      BY <1>1, RequestKept
<1>3. /\ pc' \in [Req -> {"new", "spawning", "waiting", "answered"}]
      /\ \A q \in Req : pc'[q] = IF q = r THEN "waiting" ELSE pc[q]
      BY <1>1 DEF LoaderTypeOK
<1>4. LoaderTypeOK'
  <2>1. PerRequest(answer)' /\ PerRequest(task)' /\ PerRequest(doc)' /\ PerRequest(results)'
        BY <1>1 DEF LoaderTypeOK, PerRequest
  <2> QED  BY <2>1, <1>1, <1>2, <1>3 DEF LoaderTypeOK
<1>5. SpawnOrder'
      BY <1>1, <1>2, <1>3 DEF SpawnOrder
<1>6. WgExact'
  <2>1. \A q \in Req : Running(q)' = Running(q)
        BY <1>1, RunningKept
  <2> QED  BY <1>1, <2>1 DEF WgExact
<1>7. DocsInPlace'
      BY <1>1, <1>2 DEF DocsInPlace
<1>8. AnswerOrder'
      BY <1>1, <1>2, <1>3 DEF AnswerOrder, NoAnswer
<1>9. MetricsExact'
      BY <1>1, MetricsKept
<1> QED  BY <1>4, <1>5, <1>6, <1>7, <1>8, <1>9

\* The WaitGroup lets the handler pass only when every goroutine is done, so
\* that the results it encodes are complete.
LEMMA RespondStep ==
  ASSUME LoaderInv, NEW r \in Req, Respond(r)
  PROVE  LoaderInv'
<1> USE DEF LoaderInv
<1>1. /\ pc[r] = "waiting" /\ wg[r] = 0
      /\ pc' = [pc EXCEPT ![r] = "answered"]
      /\ answer' = [answer EXCEPT ![r] = [code |-> 200, body |-> results[r]]]
      /\ input' = input /\ spawned' = spawned /\ task' = task /\ wg' = wg
      /\ doc' = doc /\ results' = results /\ metrics' = metrics
      BY DEF Respond
<1>2. \A q : Slots(q)' = Slots(q) /\ Urls(q)' = Urls(q) /\ Passed(q)' = Passed(q)
      BY <1>1, RequestKept
<1>3. /\ pc' \in [Req -> {"new", "spawning", "waiting", "answered"}]
      /\ \A q \in Req : pc'[q] = IF q = r THEN "answered" ELSE pc[q]
      BY <1>1 DEF LoaderTypeOK
<1>4. \A q \in Req : answer'[q] = IF q = r THEN [code |-> 200, body |-> results[r]]
                                           ELSE answer[q]
      BY <1>1 DEF LoaderTypeOK, PerRequest
<1>5. \A j \in Slots(r) : task[r][j] = "done"
  <2>1. Running(r) = {}
        BY <1>1, RunningFinite DEF WgExact
  <2> SUFFICES ASSUME NEW j \in Slots(r)
               PROVE  task[r][j] = "done"
      OBVIOUS
  <2>2. task[r][j] \in TaskState
        BY DEF LoaderTypeOK
  <2>3. task[r][j] # "none"
    <3>1. j <= Len(Urls(r)) /\ j \in Nat /\ Len(Urls(r)) \in Nat
          BY UrlsFacts DEF Slots
    <3> QED  BY <3>1, <1>1 DEF SpawnOrder
  <2> QED  BY <2>1, <2>2, <2>3 DEF Running, TaskState
<1>6. LoaderTypeOK'
  <2>1. PerRequest(task)' /\ PerRequest(doc)' /\ PerRequest(results)'
        BY <1>1 DEF LoaderTypeOK, PerRequest
  <2>2. PerRequest(answer)'
        BY <1>1 DEF LoaderTypeOK, PerRequest
  <2> QED  BY <2>1, <2>2, <1>1, <1>2, <1>3 DEF LoaderTypeOK
<1>7. SpawnOrder'
      BY <1>1, <1>2, <1>3 DEF SpawnOrder
<1>8. WgExact'
  <2>1. \A q \in Req : Running(q)' = Running(q)
        BY <1>1, RunningKept
  <2> QED  BY <1>1, <2>1 DEF WgExact
<1>9. DocsInPlace'
      BY <1>1, <1>2 DEF DocsInPlace
<1>10. AnswerOrder'
  <2> SUFFICES ASSUME NEW q \in Req
               PROVE  /\ pc'[q] \in {"new", "spawning", "waiting"} => answer'[q] = NoAnswer
                      /\ pc'[q] \in {"spawning", "waiting"} => Passed(q)
                      /\ pc'[q] = "answered" =>
                           \/ answer'[q].code \notin {0, 200} /\ spawned[q] = 0
                           \/ /\ answer'[q] = [code |-> 200, body |-> results[q]] /\ Passed(q)
                              /\ \A i \in Slots(q) : task[q][i] = "done"
      BY <1>1, <1>2 DEF AnswerOrder, NoAnswer
  <2>1. CASE q # r
        BY <2>1, <1>3, <1>4 DEF AnswerOrder
  <2>2. CASE q = r
        BY <2>2, <1>1, <1>3, <1>4, <1>5 DEF AnswerOrder
  <2> QED  BY <2>1, <2>2
<1>11. MetricsExact'
       BY <1>1, MetricsKept
<1> QED  BY <1>6, <1>7, <1>8, <1>9, <1>10, <1>11

-----------------------------------------------------------------------------
(* The goroutines' steps *)

\* A running goroutine belongs to a request that is not answered yet: its step
\* disturbs neither the order of the fan-out nor an answer that is given.
LEMMA GoroutineFrame ==
  ASSUME LoaderInv, NEW r \in Req, NEW i \in Slots(r),
         NEW t \in TaskState \ {"none"}, task[r][i] \notin {"none", "done"},
         task' = [task EXCEPT ![r][i] = t],
         pc' = pc, input' = input, spawned' = spawned, answer' = answer,
         \A q \in Req : q # r => results'[q] = results[q]
  PROVE  SpawnOrder' /\ AnswerOrder'
<1> USE DEF LoaderInv
<1>1. \A q : Slots(q)' = Slots(q) /\ Urls(q)' = Urls(q) /\ Passed(q)' = Passed(q)
      BY RequestKept
<1>2. /\ \A q \in Req : \A j \in Slots(q) :
           task'[q][j] = IF q = r /\ j = i THEN t ELSE task[q][j]
      /\ \A q \in Req : q # r => task'[q] = task[q]
      BY TaskStep
<1>3. SpawnOrder'
      BY <1>1, <1>2 DEF SpawnOrder
<1>4. AnswerOrder'
  <2> SUFFICES ASSUME NEW q \in Req
               PROVE  /\ pc[q] \in {"new", "spawning", "waiting"} => answer[q] = NoAnswer
                      /\ pc[q] \in {"spawning", "waiting"} => Passed(q)
                      /\ pc[q] = "answered" =>
                           \/ answer[q].code \notin {0, 200} /\ spawned[q] = 0
                           \/ /\ answer[q] = [code |-> 200, body |-> results'[q]] /\ Passed(q)
                              /\ \A j \in Slots(q) : task'[q][j] = "done"
      BY <1>1 DEF AnswerOrder, NoAnswer
  <2>1. CASE q # r
        BY <2>1, <1>2 DEF AnswerOrder
  <2>2. CASE q = r
        BY <2>2 DEF AnswerOrder
  <2> QED  BY <2>1, <2>2
<1> QED  BY <1>3, <1>4

\* crawlOne has the document of its URL.
LEMMA CrawledStep ==
  ASSUME LoaderInv, NEW r \in Req, NEW i \in Slots(r), Crawled(r, i)
  PROVE  LoaderInv'
<1> USE DEF LoaderInv
<1>1. /\ task[r][i] = "crawling"
      /\ task' = [task EXCEPT ![r][i] = "crawled"]
      /\ pc' = pc /\ input' = input /\ spawned' = spawned /\ wg' = wg
      /\ results' = results /\ answer' = answer /\ metrics' = metrics
      BY DEF Crawled
<1>2. PICK e \in BOOLEAN :
        doc' = [doc EXCEPT ![r][i] = [source |-> Urls(r)[i], error |-> e]]
      BY DEF Crawled, Outcomes
<1>3. \A q : Slots(q)' = Slots(q) /\ Urls(q)' = Urls(q) /\ Passed(q)' = Passed(q)
      BY <1>1, RequestKept
<1>4. /\ PerRequest(task)' /\ \A q \in Req : task'[q] \in [Slots(q)' -> TaskState]
      /\ \A q \in Req : \A j \in Slots(q) :
           task'[q][j] = IF q = r /\ j = i THEN "crawled" ELSE task[q][j]
      BY <1>1, TaskStep DEF TaskState
<1> DEFINE d == [source |-> Urls(r)[i], error |-> e]
<1>5. d \in Doc /\ d.source = Urls(r)[i]
      BY UrlsFacts DEF Doc
<1> HIDE DEF d
<1>6. doc' = [doc EXCEPT ![r][i] = d]
      BY <1>2 DEF d
<1>7. \A q \in Req : doc'[q] = IF q = r THEN [doc[r] EXCEPT ![i] = d] ELSE doc[q]
      BY <1>6 DEF LoaderTypeOK, PerRequest
<1>8. /\ \A q \in Req : doc'[q] \in [Slots(q)' -> Doc \cup {NoDoc}]
      /\ \A q \in Req : \A j \in Slots(q) :
           doc'[q][j] = IF q = r /\ j = i THEN d ELSE doc[q][j]
      BY <1>3, <1>5, <1>7 DEF LoaderTypeOK
<1>9. LoaderTypeOK'
  <2>1. PerRequest(results)' /\ PerRequest(answer)'
        BY <1>1 DEF LoaderTypeOK, PerRequest
  <2>2. PerRequest(doc)'
        BY <1>6 DEF LoaderTypeOK, PerRequest
  <2> QED  BY <2>1, <2>2, <1>1, <1>3, <1>4, <1>8 DEF LoaderTypeOK
<1>10. SpawnOrder' /\ AnswerOrder'
       BY <1>1, GoroutineFrame DEF TaskState
<1>11. WgExact'
  <2>1. \A q \in Req : Running(q)' = Running(q)
        BY <1>1, <1>4, RunningKept
  <2> QED  BY <1>1, <2>1 DEF WgExact
<1>12. DocsInPlace'
  <2> SUFFICES ASSUME NEW q \in Req, NEW j \in Slots(q)
               PROVE  /\ task'[q][j] \in {"crawled", "observed", "stored", "done"} =>
                           doc'[q][j] \in Doc /\ doc'[q][j].source = Urls(q)[j]
                      /\ task'[q][j] \in {"stored", "done"} => results[q][j] = doc'[q][j]
      BY <1>1, <1>3 DEF DocsInPlace
  <2>1. CASE q = r /\ j = i
        BY <2>1, <1>4, <1>5, <1>8
  <2>2. CASE ~(q = r /\ j = i)
    <3>1. task'[q][j] = task[q][j] /\ doc'[q][j] = doc[q][j]
          BY <2>2, <1>4, <1>8
    <3> QED  BY <3>1 DEF DocsInPlace
  <2> QED  BY <2>1, <2>2
<1>13. MetricsExact'
       BY <1>1, <1>4, <1>8, MetricsKept DEF Counted
<1> QED  BY <1>9, <1>10, <1>11, <1>12, <1>13

\* The crawl is counted once, under its document's status.
LEMMA ObserveStep ==
  ASSUME LoaderInv, NEW r \in Req, NEW i \in Slots(r), Observe(r, i)
  PROVE  LoaderInv'
<1> USE DEF LoaderInv
<1> DEFINE label == StatusLabel(doc[r][i])
<1>1. /\ task[r][i] = "crawled"
      /\ task' = [task EXCEPT ![r][i] = "observed"]
      /\ metrics' = [metrics EXCEPT ![label] = metrics[label] + 1]
      /\ pc' = pc /\ input' = input /\ spawned' = spawned /\ wg' = wg
      /\ doc' = doc /\ results' = results /\ answer' = answer
      BY DEF Observe
<1>2. \A q : Slots(q)' = Slots(q) /\ Urls(q)' = Urls(q) /\ Passed(q)' = Passed(q)
      BY <1>1, RequestKept
<1>3. /\ PerRequest(task)' /\ \A q \in Req : task'[q] \in [Slots(q)' -> TaskState]
      /\ \A q \in Req : \A j \in Slots(q) :
           task'[q][j] = IF q = r /\ j = i THEN "observed" ELSE task[q][j]
      BY <1>1, TaskStep DEF TaskState
<1>4. doc[r][i] \in Doc
      BY <1>1 DEF DocsInPlace
<1>5. label \in {"ok", "error"} /\ (label = "error" <=> doc[r][i].error)
      /\ doc[r][i].error \in BOOLEAN
      BY <1>4 DEF StatusLabel, Doc
<1>6. metrics \in [{"ok", "error"} -> Nat]
      BY DEF LoaderTypeOK
<1> HIDE DEF label
<1>7. LoaderTypeOK'
  <2>1. PerRequest(doc)' /\ PerRequest(results)' /\ PerRequest(answer)'
        BY <1>1 DEF LoaderTypeOK, PerRequest
  <2>2. metrics' \in [{"ok", "error"} -> Nat]
        BY <1>1, <1>5, <1>6
  <2> QED  BY <2>1, <2>2, <1>1, <1>2, <1>3 DEF LoaderTypeOK
<1>8. SpawnOrder' /\ AnswerOrder'
      BY <1>1, GoroutineFrame DEF TaskState
<1>9. WgExact'
  <2>1. \A q \in Req : Running(q)' = Running(q)
        BY <1>1, <1>3, RunningKept
  <2> QED  BY <1>1, <2>1 DEF WgExact
<1>10. DocsInPlace'
       BY <1>1, <1>2, <1>3 DEF DocsInPlace
<1>11. MetricsExact'
  <2> SUFFICES ASSUME NEW s \in {"ok", "error"}
               PROVE  metrics'[s] = Cardinality(Observed(s)')
      BY DEF MetricsExact
  <2> DEFINE x == <<r, i>>
  <2>1. Observed(s)' = {y \in Cells : /\ task'[y[1]][y[2]] \in Counted
                                      /\ doc[y[1]][y[2]].error = (s = "error")}
        BY <1>1 DEF Observed, Cells, Counted, Slots, Urls
  <2>2. x \in Cells /\ x[1] = r /\ x[2] = i
        BY DEF Cells
  <2>3. \A y \in Cells : task'[y[1]][y[2]] = IF y = x THEN "observed" ELSE task[y[1]][y[2]]
        BY <1>3 DEF Cells
  <2>4. IsFiniteSet(Observed(s)) /\ x \notin Observed(s)
    <3>1. Observed(s) \subseteq Cells
          BY ObservedIsCells
    <3>2. x \notin Observed(s)
          BY ObservedIsCells, <2>2, <1>1 DEF Counted
    <3> QED  BY <3>1, <3>2, CellsFinite, FS_Subset
  <2> HIDE DEF x
  <2>5. CASE s = label
    <3>1. doc[x[1]][x[2]].error = (s = "error")
          BY <2>5, <2>2, <1>5
    <3>2. Observed(s)' = Observed(s) \cup {x}
          BY <2>1, <2>2, <2>3, <3>1, ObservedIsCells DEF Counted
    <3>3. Cardinality(Observed(s) \cup {x}) = Cardinality(Observed(s)) + 1
          BY <2>4, FS_AddElement
    <3> QED  BY <2>5, <3>2, <3>3, <1>1, <1>6 DEF MetricsExact
  <2>6. CASE s # label
    <3>1. doc[x[1]][x[2]].error # (s = "error")
          BY <2>6, <2>2, <1>5
    <3>2. Observed(s)' = Observed(s)
          BY <2>1, <2>2, <2>3, <3>1, ObservedIsCells DEF Counted
    <3> QED  BY <2>6, <3>2, <1>1, <1>6 DEF MetricsExact
  <2> QED  BY <2>5, <2>6
<1> QED  BY <1>7, <1>8, <1>9, <1>10, <1>11

\* The goroutine stores its document in its own place.
LEMMA StoreStep ==
  ASSUME LoaderInv, NEW r \in Req, NEW i \in Slots(r), Store(r, i)
  PROVE  LoaderInv'
<1> USE DEF LoaderInv
<1>1. /\ task[r][i] = "observed"
      /\ task' = [task EXCEPT ![r][i] = "stored"]
      /\ results' = [results EXCEPT ![r][i] = doc[r][i]]
      /\ pc' = pc /\ input' = input /\ spawned' = spawned /\ wg' = wg
      /\ doc' = doc /\ answer' = answer /\ metrics' = metrics
      BY DEF Store, OwnIndex
<1>2. \A q : Slots(q)' = Slots(q) /\ Urls(q)' = Urls(q) /\ Passed(q)' = Passed(q)
      BY <1>1, RequestKept
<1>3. /\ PerRequest(task)' /\ \A q \in Req : task'[q] \in [Slots(q)' -> TaskState]
      /\ \A q \in Req : \A j \in Slots(q) :
           task'[q][j] = IF q = r /\ j = i THEN "stored" ELSE task[q][j]
      BY <1>1, TaskStep DEF TaskState
<1>4. \A q \in Req : results'[q] = IF q = r THEN [results[r] EXCEPT ![i] = doc[r][i]]
                                            ELSE results[q]
      BY <1>1 DEF LoaderTypeOK, PerRequest
<1>5. doc[r][i] \in Doc \cup {NoDoc}
      BY DEF LoaderTypeOK
<1>6. /\ \A q \in Req : results'[q] \in [Slots(q)' -> Doc \cup {NoDoc}]
      /\ \A q \in Req : \A j \in Slots(q) :
           results'[q][j] = IF q = r /\ j = i THEN doc[r][i] ELSE results[q][j]
      BY <1>2, <1>4, <1>5 DEF LoaderTypeOK
<1>7. LoaderTypeOK'
  <2>1. PerRequest(doc)' /\ PerRequest(answer)'
        BY <1>1 DEF LoaderTypeOK, PerRequest
  <2>2. PerRequest(results)'
        BY <1>1 DEF LoaderTypeOK, PerRequest
  <2> QED  BY <2>1, <2>2, <1>1, <1>2, <1>3, <1>6 DEF LoaderTypeOK
<1>8. SpawnOrder' /\ AnswerOrder'
      BY <1>1, <1>4, GoroutineFrame DEF TaskState
<1>9. WgExact'
  <2>1. \A q \in Req : Running(q)' = Running(q)
        BY <1>1, <1>3, RunningKept
  <2> QED  BY <1>1, <2>1 DEF WgExact
<1>10. DocsInPlace'
  <2> SUFFICES ASSUME NEW q \in Req, NEW j \in Slots(q)
               PROVE  /\ task'[q][j] \in {"crawled", "observed", "stored", "done"} =>
                           doc[q][j] \in Doc /\ doc[q][j].source = Urls(q)[j]
                      /\ task'[q][j] \in {"stored", "done"} => results'[q][j] = doc[q][j]
      BY <1>1, <1>2 DEF DocsInPlace
  <2> QED  BY <1>1, <1>3, <1>6 DEF DocsInPlace
<1>11. MetricsExact'
       BY <1>1, <1>3, MetricsKept DEF Counted
<1> QED  BY <1>7, <1>8, <1>9, <1>10, <1>11

\* The deferred wg.Done: the goroutine has stored its document.
LEMMA DoneStep ==
  ASSUME LoaderInv, NEW r \in Req, NEW i \in Slots(r), Done(r, i)
  PROVE  LoaderInv'
<1> USE DEF LoaderInv
<1>1. /\ task[r][i] = "stored"
      /\ task' = [task EXCEPT ![r][i] = "done"]
      /\ wg' = [wg EXCEPT ![r] = wg[r] - 1]
      /\ pc' = pc /\ input' = input /\ spawned' = spawned /\ results' = results
      /\ doc' = doc /\ answer' = answer /\ metrics' = metrics
      BY DEF Done
<1>2. \A q : Slots(q)' = Slots(q) /\ Urls(q)' = Urls(q) /\ Passed(q)' = Passed(q)
      BY <1>1, RequestKept
<1>3. /\ PerRequest(task)' /\ \A q \in Req : task'[q] \in [Slots(q)' -> TaskState]
      /\ \A q \in Req : \A j \in Slots(q) :
           task'[q][j] = IF q = r /\ j = i THEN "done" ELSE task[q][j]
      BY <1>1, TaskStep DEF TaskState
<1>4. wg \in [Req -> Int]
      BY DEF LoaderTypeOK
<1>5. LoaderTypeOK'
  <2>1. PerRequest(doc)' /\ PerRequest(results)' /\ PerRequest(answer)'
        BY <1>1 DEF LoaderTypeOK, PerRequest
  <2>2. wg' \in [Req -> Int]
        BY <1>1, <1>4
  <2> QED  BY <2>1, <2>2, <1>1, <1>2, <1>3 DEF LoaderTypeOK
<1>6. SpawnOrder' /\ AnswerOrder'
      BY <1>1, GoroutineFrame DEF TaskState
<1>7. WgExact'
  <2> SUFFICES ASSUME NEW q \in Req
               PROVE  wg'[q] = Cardinality(Running(q)')
      BY DEF WgExact
  <2>1. CASE q # r
    <3>1. Running(q)' = Running(q)
          BY <2>1, <1>1, <1>3, RunningKept
    <3> QED  BY <2>1, <3>1, <1>1, <1>4 DEF WgExact
  <2>2. CASE q = r
    <3>1. Running(r)' = Running(r) \ {i} /\ i \in Running(r)
          BY <1>1, <1>2, <1>3 DEF Running
    <3>2. Cardinality(Running(r) \ {i}) = Cardinality(Running(r)) - 1
          BY <3>1, RunningFinite
    <3> QED  BY <2>2, <3>1, <3>2, <1>1, <1>4 DEF WgExact
  <2> QED  BY <2>1, <2>2
<1>8. DocsInPlace'
      BY <1>1, <1>2, <1>3 DEF DocsInPlace
<1>9. MetricsExact'
      BY <1>1, <1>3, MetricsKept DEF Counted
<1> QED  BY <1>5, <1>6, <1>7, <1>8, <1>9

-----------------------------------------------------------------------------
(* The theorems *)

\* Nothing is started and nothing is counted at first.
LEMMA LoaderInitial ==
  ASSUME Init
  PROVE  LoaderInv
<1> USE DEF Init
<1>1. ASSUME NEW r \in Req
      PROVE  Len(Urls(r)) \in Nat
      BY InputsTyped DEF Input, Urls
<1>2. /\ \A r \in Req : task[r] = [i \in Slots(r) |-> "none"]
      /\ \A r \in Req : doc[r] = [i \in Slots(r) |-> NoDoc]
      /\ \A r \in Req : results[r] = [i \in Slots(r) |-> NoDoc]
      BY DEF Slots, Urls
<1>3. LoaderTypeOK
  <2>1. PerRequest(task) /\ PerRequest(doc) /\ PerRequest(results) /\ PerRequest(answer)
        BY DEF PerRequest
  <2>2. \A r \in Req : /\ task[r] \in [Slots(r) -> TaskState]
                       /\ doc[r] \in [Slots(r) -> Doc \cup {NoDoc}]
                       /\ results[r] \in [Slots(r) -> Doc \cup {NoDoc}]
        BY <1>2 DEF TaskState
  <2> QED  BY <2>1, <2>2 DEF LoaderTypeOK
<1>4. SpawnOrder
  <2> SUFFICES ASSUME NEW r \in Req
               PROVE  /\ 0 <= Len(Urls(r)) /\ pc[r] = "new" /\ spawned[r] = 0
                      /\ \A i \in Slots(r) : task[r][i] = "none" /\ i > 0
      BY DEF SpawnOrder
  <2>1. 0 <= Len(Urls(r)) /\ \A i \in Slots(r) : i > 0
        BY <1>1 DEF Slots
  <2> QED  BY <2>1, <1>2
<1>5. WgExact
  <2>1. \A r \in Req : Running(r) = {}
        BY <1>2 DEF Running
  <2> QED  BY <2>1, FS_EmptySet DEF WgExact
<1>6. DocsInPlace
      BY <1>2 DEF DocsInPlace
<1>7. AnswerOrder
      BY DEF AnswerOrder
<1>8. MetricsExact
  <2>1. \A x \in Cells : task[x[1]][x[2]] \notin Counted
        BY <1>2 DEF Cells, Counted
  <2>2. \A s : Observed(s) = {}
        BY <2>1, ObservedIsCells
  <2> QED  BY <2>2, FS_EmptySet DEF MetricsExact
<1> QED  BY <1>3, <1>4, <1>5, <1>6, <1>7, <1>8 DEF LoaderInv

\* A step in which nothing changes keeps the invariant.
LEMMA LoaderStutter ==
  ASSUME LoaderInv, UNCHANGED vars
  PROVE  LoaderInv'
<1> USE DEF LoaderInv
<1>1. /\ pc' = pc /\ input' = input /\ spawned' = spawned /\ task' = task /\ wg' = wg
      /\ doc' = doc /\ results' = results /\ answer' = answer /\ metrics' = metrics
      BY DEF vars
<1>2. \A q : Slots(q)' = Slots(q) /\ Urls(q)' = Urls(q) /\ Passed(q)' = Passed(q)
      BY <1>1, RequestKept
<1>3. LoaderTypeOK'
      BY <1>1, <1>2 DEF LoaderTypeOK, PerRequest
<1>4. SpawnOrder' /\ DocsInPlace' /\ AnswerOrder'
      BY <1>1, <1>2 DEF SpawnOrder, DocsInPlace, AnswerOrder
<1>5. WgExact'
  <2>1. \A q \in Req : Running(q)' = Running(q)
        BY <1>1, RunningKept
  <2> QED  BY <1>1, <2>1 DEF WgExact
<1>6. MetricsExact'
      BY <1>1, MetricsKept
<1> QED  BY <1>3, <1>4, <1>5, <1>6

\* The loader keeps its invariant: goroutines start in order, the WaitGroup
\* counts the ones that run, every document is in its place, answers are given
\* when the work is done, and the metrics count the observed crawls.
THEOREM LoaderInvariant == Spec => []LoaderInv
<1>1. Init => LoaderInv
      BY LoaderInitial
<1>2. LoaderInv /\ [Next]_vars => LoaderInv'
  <2> SUFFICES ASSUME LoaderInv, [Next]_vars
               PROVE  LoaderInv'
      OBVIOUS
  <2>1. CASE \E r \in Req : Handler(r)
        BY <2>1, CheckStep, SpawnStep, WaitStep, RespondStep DEF Handler
  <2>2. CASE \E r \in Req : \E i \in 1..Len(Urls(r)) : Task(r, i)
        BY <2>2, CrawledStep, ObserveStep, StoreStep, DoneStep DEF Task, Slots
  <2>3. CASE Over \/ UNCHANGED vars
        BY <2>3, LoaderStutter DEF Over
  <2> QED  BY <2>1, <2>2, <2>3 DEF Next
<1> QED  BY <1>1, <1>2, PTL DEF Spec

\* A 200 answer is complete and in the order of the URLs (Server.handleCrawl
\* after wg.Wait), whatever order the goroutines finish in.
THEOREM AnswersComplete == Spec => []AnswerComplete
<1>1. LoaderInv => AnswerComplete
  <2> SUFFICES ASSUME LoaderInv, NEW r \in Req, answer[r].code = 200
               PROVE  /\ Len(Urls(r)) > 0
                      /\ \A i \in Slots(r) :
                           answer[r].body[i] # NoDoc /\ answer[r].body[i].source = Urls(r)[i]
      BY DEF AnswerComplete, Slots
  <2>1. pc[r] = "answered"
    <3>1. NoAnswer.code = 0
          BY DEF NoAnswer
    <3>2. pc[r] \in {"new", "spawning", "waiting", "answered"}
          BY DEF LoaderInv, LoaderTypeOK
    <3>3. answer[r] # NoAnswer
          BY <3>1
    <3> QED  BY <3>2, <3>3 DEF LoaderInv, AnswerOrder
  <2>2. /\ answer[r] = [code |-> 200, body |-> results[r]] /\ Passed(r)
        /\ \A i \in Slots(r) : task[r][i] = "done"
        BY <2>1 DEF LoaderInv, AnswerOrder
  <2>3. \A i \in Slots(r) : /\ answer[r].body[i] = doc[r][i]
                            /\ doc[r][i] \in Doc /\ doc[r][i].source = Urls(r)[i]
        BY <2>2 DEF LoaderInv, DocsInPlace
  <2> QED  BY <2>2, <2>3, NoDocFresh DEF Passed
<1> QED  BY <1>1, LoaderInvariant, PTL

\* No goroutine is started for a rejected request, nor for a URL ValidateURL
\* could not have accepted.
THEOREM RejectedRequestsNotCrawled == Spec => []RejectedNotCrawled
<1>1. LoaderInv => RejectedNotCrawled
  <2> SUFFICES ASSUME LoaderInv, NEW r \in Req, NEW k \in Slots(r), task[r][k] # "none"
               PROVE  /\ answer[r].code \in {0, 200}
                      /\ input[r].post /\ input[r].authorized /\ Len(Urls(r)) <= MaxUrls
                      /\ \A i \in Slots(r) : TRUE \in ValidateURL(Urls(r)[i])
      BY DEF RejectedNotCrawled, Slots
  <2>1. spawned[r] # 0
        BY DEF LoaderInv, LoaderTypeOK, SpawnOrder, Slots
  <2>2. NoAnswer.code = 0
        BY DEF NoAnswer
  <2>3. answer[r].code \in {0, 200} /\ Passed(r)
    <3>1. pc[r] \in {"spawning", "waiting", "answered"}
          BY <2>1 DEF LoaderInv, LoaderTypeOK, SpawnOrder
    <3>2. CASE pc[r] \in {"spawning", "waiting"}
          BY <2>2, <3>2 DEF LoaderInv, AnswerOrder
    <3>3. CASE pc[r] = "answered"
      <4>1. answer[r] = [code |-> 200, body |-> results[r]] /\ Passed(r)
            BY <2>1, <3>3 DEF LoaderInv, AnswerOrder
      <4> QED  BY <4>1
    <3> QED  BY <3>1, <3>2, <3>3
  <2> QED  BY <2>3 DEF Passed
<1> QED  BY <1>1, LoaderInvariant, PTL

\* omnifeed_requests_total counts every crawl of the concurrent requests once,
\* under the status its caller is told.
THEOREM MetricsAreExact == Spec => []MetricsExact
<1>1. LoaderInv => MetricsExact
      BY DEF LoaderInv
<1> QED  BY <1>1, LoaderInvariant, PTL
=============================================================================
