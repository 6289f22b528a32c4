--------------------------- MODULE JobQueueProofs ---------------------------
(***************************************************************************)
(* Proofs about JobQueue, for any number of jobs and workers, any batch    *)
(* size, and any combination of failures, stops and crashes.               *)
(***************************************************************************)
EXTENDS JobQueue, TLAPS

(* The strengthening that makes the safety properties inductive: an Enqueue *)
(* that has not pushed yet owns its job, a worker between jobs holds none,  *)
(* and a row's progress is behind its handler's own count.                  *)
OwnedByEnqueue ==
  \A j \in Jobs :
    /\ push[j] = "none" <=> status[j] = "absent"
    /\ push[j] = "pending" => status[j] = "queued" /\ j \notin Listed /\ ~Held(j)

HoldsWhileWorking ==
  \A w \in Workers :
    /\ pc[w] \in {"idle", "polling", "stopped"} <=> held[w] = NoJob
    /\ held[w] # NoJob => push[held[w]] = "done"

ProgressBehindItem ==
  /\ \A j \in Jobs : status[j] \in {"absent", "queued"} => progress[j] = 0
  /\ \A w \in Workers :
       pc[w] \in {"running", "report", "finishing"} => progress[held[w]] <= item[w]

IInv ==
  /\ TypeOK
  /\ ExclusiveDelivery
  /\ RowMatchesStage
  /\ OwnedByEnqueue
  /\ HoldsWhileWorking
  /\ ProgressBehindItem

-----------------------------------------------------------------------------
(* Facts about the Redis list. *)

(* LPush puts the id behind those already in the list. *)
LEMMA AppendProperties ==
  ASSUME NEW s \in Seq(Jobs), NEW j \in Jobs
  PROVE  /\ Append(s, j) \in Seq(Jobs)
         /\ Len(Append(s, j)) = Len(s) + 1
         /\ \A i \in 1..Len(s) : Append(s, j)[i] = s[i]
         /\ Append(s, j)[Len(s) + 1] = j
  OBVIOUS

(* BRPop takes the oldest id and keeps the order of the others. *)
LEMMA TailProperties ==
  ASSUME NEW s \in Seq(Jobs), s # <<>>
  PROVE  /\ Head(s) \in Jobs
         /\ Head(s) = s[1]
         /\ Tail(s) \in Seq(Jobs)
         /\ Len(Tail(s)) = Len(s) - 1
         /\ Len(s) >= 1
         /\ \A i \in 1..Len(Tail(s)) : Tail(s)[i] = s[i + 1]
  OBVIOUS

-----------------------------------------------------------------------------
LEMMA InitIInv == Init => IInv
  <1> SUFFICES ASSUME Init PROVE IInv
    OBVIOUS
  <1> USE JobQueueAssumption
  <1>1. TypeOK
    BY DEF Init, TypeOK, Status, Terminal, Stages
  <1>2. Len(list) = 0 /\ Listed = {}
    BY DEF Init, Listed
  <1>3. ExclusiveDelivery /\ RowMatchesStage
    BY <1>2 DEF Init, ExclusiveDelivery, RowMatchesStage
  <1>4. OwnedByEnqueue /\ HoldsWhileWorking /\ ProgressBehindItem
    BY <1>2 DEF Init, OwnedByEnqueue, HoldsWhileWorking, ProgressBehindItem
  <1> QED
    BY <1>1, <1>3, <1>4 DEF IInv

(* LPush keeps the list free of duplicates, for the id it pushes was nowhere. *)
LEMMA AppendKeepsList ==
  ASSUME TypeOK, NEW j \in Jobs, j \notin Listed, list' = Append(list, j),
         \A i, k \in 1..Len(list) : list[i] = list[k] => i = k
  PROVE  /\ list' \in Seq(Jobs)
         /\ Listed' = Listed \union {j}
         /\ \A i, k \in 1..Len(list') : list'[i] = list'[k] => i = k
  <1>1. /\ list' \in Seq(Jobs)
        /\ Len(list') = Len(list) + 1
        /\ \A i \in 1..Len(list) : list'[i] = list[i]
        /\ list'[Len(list) + 1] = j
        /\ Len(list) \in Nat
    BY AppendProperties DEF TypeOK
  <1>2. \A i \in 1..Len(list) : list[i] # j
    BY DEF Listed
  <1>3. 1..Len(list') = 1..Len(list) \union {Len(list) + 1}
    BY <1>1
  <1>4. Listed' = Listed \union {j}
    BY <1>1, <1>3 DEF Listed
  <1>5. \A i, k \in 1..Len(list') : list'[i] = list'[k] => i = k
    BY <1>1, <1>2, <1>3
  <1> QED BY <1>1, <1>4, <1>5

(* BRPop takes one id out of the list, which is then nowhere in it. *)
LEMMA TailKeepsList ==
  ASSUME TypeOK, list # <<>>, list' = Tail(list),
         \A i, k \in 1..Len(list) : list[i] = list[k] => i = k
  PROVE  /\ list' \in Seq(Jobs)
         /\ Head(list) \in Jobs
         /\ Head(list) \in Listed
         /\ Listed' = Listed \ {Head(list)}
         /\ \A i, k \in 1..Len(list') : list'[i] = list'[k] => i = k
  <1>1. /\ Head(list) \in Jobs
        /\ Head(list) = list[1]
        /\ list' \in Seq(Jobs)
        /\ Len(list') = Len(list) - 1
        /\ Len(list) >= 1
        /\ \A i \in 1..Len(list') : list'[i] = list[i + 1]
        /\ Len(list) \in Nat
    BY TailProperties DEF TypeOK
  <1>2. \A i \in 1..Len(list') : i + 1 \in 1..Len(list) /\ i + 1 # 1
    BY <1>1
  <1>3. 1 \in 1..Len(list)
    BY <1>1
  <1>4. Listed' \subseteq Listed \ {Head(list)}
    <2> SUFFICES ASSUME NEW x \in Listed' PROVE x \in Listed \ {Head(list)}
      OBVIOUS
    <2>1. PICK i \in 1..Len(list') : list'[i] = x
      BY DEF Listed
    <2>2. i + 1 \in 1..Len(list) /\ list[i + 1] = x /\ i + 1 # 1
      BY <1>1, <1>2, <2>1
    <2>3. list[i + 1] # list[1]
      BY <1>3, <2>2
    <2> QED BY <1>1, <2>2, <2>3 DEF Listed
  <1>5. Listed \ {Head(list)} \subseteq Listed'
    <2> SUFFICES ASSUME NEW x \in Listed, x # list[1] PROVE x \in Listed'
      BY <1>1
    <2>1. PICK i \in 1..Len(list) : list[i] = x
      BY DEF Listed
    <2>2. i # 1 /\ i - 1 \in 1..Len(list') /\ (i - 1) + 1 = i
      BY <1>1, <2>1
    <2>3. list'[i - 1] = x
      BY <1>1, <2>1, <2>2
    <2> QED BY <2>2, <2>3 DEF Listed
  <1>6. \A i, k \in 1..Len(list') : list'[i] = list'[k] => i = k
    <2> TAKE i, k \in 1..Len(list')
    <2>1. list'[i] = list'[k] => i + 1 = k + 1
      BY <1>1, <1>2
    <2> QED BY <2>1
  <1>7. Head(list) \in Listed
    BY <1>1, <1>3 DEF Listed
  <1> QED BY <1>1, <1>4, <1>5, <1>6, <1>7

-----------------------------------------------------------------------------
(* Every step keeps the invariant: one step per action. *)
LEMMA NextIInv == IInv /\ [Next]_vars => IInv'
  <1> SUFFICES ASSUME IInv, [Next]_vars PROVE IInv'
    OBVIOUS
  <1> USE JobQueueAssumption
  <1>0. /\ TypeOK /\ ExclusiveDelivery /\ RowMatchesStage
        /\ OwnedByEnqueue /\ HoldsWhileWorking /\ ProgressBehindItem
    BY DEF IInv
  <1>1. \A i, k \in 1..Len(list) : list[i] = list[k] => i = k
    BY <1>0 DEF ExclusiveDelivery
  <1>s. ASSUME UNCHANGED list
        PROVE  /\ Listed' = Listed
               /\ \A i, k \in 1..Len(list') : list'[i] = list'[k] => i = k
    BY <1>1, <1>s DEF Listed
  <1> DEFINE Parts == ExclusiveDelivery /\ RowMatchesStage
                      /\ OwnedByEnqueue /\ HoldsWhileWorking /\ ProgressBehindItem
  <1>push. ASSUME NEW j \in Jobs, push[j] = "pending", list' = Append(list, j),
                  push' = [push EXCEPT ![j] = "done"],
                  UNCHANGED <<status, progress, workerVars, cancelled>>
           PROVE  IInv'
    <2>1. j \notin Listed /\ ~Held(j) /\ status[j] = "queued"
      BY <1>0, <1>push DEF OwnedByEnqueue
    <2>2. /\ list' \in Seq(Jobs)
          /\ Listed' = Listed \union {j}
          /\ \A i, k \in 1..Len(list') : list'[i] = list'[k] => i = k
      BY <1>0, <1>1, <1>push, <2>1, AppendKeepsList
    <2>3. TypeOK'
      BY <1>0, <1>push, <2>2 DEF TypeOK, workerVars
    <2>4. ExclusiveDelivery'
      BY <1>0, <1>push, <2>1, <2>2 DEF ExclusiveDelivery, Held, TypeOK, workerVars
    <2>5. RowMatchesStage'
      BY <1>0, <1>push, <2>1, <2>2 DEF RowMatchesStage, Held, TypeOK, workerVars
    <2>6. OwnedByEnqueue'
      BY <1>0, <1>push, <2>1, <2>2 DEF OwnedByEnqueue, Held, TypeOK, workerVars
    <2>7. HoldsWhileWorking' /\ ProgressBehindItem'
      BY <1>0, <1>push, <2>1 DEF HoldsWhileWorking, ProgressBehindItem, Held, TypeOK, workerVars
    <2> QED BY <2>3, <2>4, <2>5, <2>6, <2>7 DEF IInv
  <1>2. ASSUME NEW j \in Jobs, Insert(j) PROVE IInv'
    <2>1. Listed' = Listed /\ \A i, k \in 1..Len(list') : list'[i] = list'[k] => i = k
      BY <1>2, <1>s DEF Insert
    <2>2. TypeOK'
      BY <1>0, <1>2 DEF TypeOK, Insert, workerVars, Status, Terminal
    <2>a. push[j] = "none" /\ j \notin Listed /\ j # NoJob
      BY <1>0, <1>2 DEF Insert, OwnedByEnqueue, RowMatchesStage
    <2>b. ~Held(j)
      BY <1>0, <2>a DEF HoldsWhileWorking, Held
    <2>3. push[j] = "none" /\ j \notin Listed /\ ~Held(j)
      BY <2>a, <2>b
    <2>4. ExclusiveDelivery'
      BY <1>0, <1>2, <2>1 DEF ExclusiveDelivery, Insert, workerVars
    <2>5. RowMatchesStage'
      BY <1>0, <1>2, <2>1, <2>3 DEF RowMatchesStage, Held, Insert, TypeOK, workerVars
    <2>6. OwnedByEnqueue'
      BY <1>0, <1>2, <2>1, <2>3 DEF OwnedByEnqueue, Held, Insert, TypeOK, workerVars
    <2>7. HoldsWhileWorking' /\ ProgressBehindItem'
      BY <1>0, <1>2, <2>3 DEF HoldsWhileWorking, ProgressBehindItem, Held, Insert, TypeOK, workerVars
    <2> QED BY <2>2, <2>4, <2>5, <2>6, <2>7 DEF IInv
  <1>3. ASSUME NEW j \in Jobs, LPush(j) PROVE IInv'
    BY ONLY <1>3, <1>push, JobQueueAssumption DEF LPush
  <1>4. ASSUME NEW j \in Jobs, LPushFails(j) PROVE IInv'
    <2>1. CASE list' = Append(list, j)
      BY <1>4, <1>push, <2>1 DEF LPushFails
    <2>2. CASE list' = list
      <3>1. Listed' = Listed /\ \A i, k \in 1..Len(list') : list'[i] = list'[k] => i = k
        BY <2>2, <1>s
      <3>2. TypeOK' /\ ExclusiveDelivery'
        BY <1>0, <1>4, <2>2, <3>1 DEF TypeOK, ExclusiveDelivery, LPushFails, workerVars
      <3>3. RowMatchesStage' /\ OwnedByEnqueue'
        BY <1>0, <1>4, <3>1 DEF RowMatchesStage, OwnedByEnqueue, Held, LPushFails, TypeOK, workerVars
      <3>4. HoldsWhileWorking' /\ ProgressBehindItem'
        BY <1>0, <1>4 DEF HoldsWhileWorking, ProgressBehindItem, LPushFails, TypeOK, workerVars
      <3> QED BY <3>2, <3>3, <3>4 DEF IInv
    <2> QED BY <1>4, <2>1, <2>2 DEF LPushFails
  <1>5. ASSUME NEW w \in Workers, BRPop(w) PROVE IInv'
    <2>1. /\ list' \in Seq(Jobs)
          /\ Head(list) \in Jobs
          /\ Head(list) \in Listed
          /\ Listed' = Listed \ {Head(list)}
          /\ \A i, k \in 1..Len(list') : list'[i] = list'[k] => i = k
      BY <1>0, <1>1, <1>5, TailKeepsList DEF BRPop
    <2>2. TypeOK'
      BY <1>0, <1>5, <2>1 DEF TypeOK, BRPop, Stages
    <2>3. status[Head(list)] = "queued" /\ push[Head(list)] = "done" /\ ~Held(Head(list))
      BY <1>0, <2>1 DEF RowMatchesStage, ExclusiveDelivery, Held
    <2>4. ExclusiveDelivery'
      BY <1>0, <1>5, <2>1, <2>3 DEF ExclusiveDelivery, Held, BRPop, TypeOK
    <2>5. RowMatchesStage'
      BY <1>0, <1>5, <2>1, <2>3 DEF RowMatchesStage, BRPop, TypeOK
    <2>6. OwnedByEnqueue'
      BY <1>0, <1>5, <2>1, <2>3 DEF OwnedByEnqueue, Held, BRPop, TypeOK
    <2>7. HoldsWhileWorking' /\ ProgressBehindItem'
      BY <1>0, <1>5, <2>1, <2>3 DEF HoldsWhileWorking, ProgressBehindItem, BRPop, TypeOK
    <2> QED BY <2>2, <2>4, <2>5, <2>6, <2>7 DEF IInv
  <1>6. ASSUME NEW w \in Workers, BRPopFails(w) PROVE IInv'
    <2>1. /\ list' \in Seq(Jobs)
          /\ Listed' \subseteq Listed
          /\ \A i, k \in 1..Len(list') : list'[i] = list'[k] => i = k
      <3>1. CASE list' = list
        BY <1>0, <1>s, <3>1 DEF TypeOK
      <3>2. CASE list # <<>> /\ list' = Tail(list)
        BY <1>0, <1>1, <3>2, TailKeepsList
      <3> QED BY <1>6, <3>1, <3>2 DEF BRPopFails
    <2>2. TypeOK' /\ ExclusiveDelivery'
      BY <1>0, <1>6, <2>1 DEF TypeOK, Stages, ExclusiveDelivery, BRPopFails
    <2>3. RowMatchesStage' /\ OwnedByEnqueue'
      BY <1>0, <1>6, <2>1 DEF RowMatchesStage, OwnedByEnqueue, Held, BRPopFails, TypeOK
    <2>4. HoldsWhileWorking' /\ ProgressBehindItem'
      BY <1>0, <1>6 DEF HoldsWhileWorking, ProgressBehindItem, BRPopFails, TypeOK
    <2> QED BY <2>2, <2>3, <2>4 DEF IInv
  <1>7. ASSUME NEW w \in Workers, Poll(w) PROVE IInv'
    <2>1. Listed' = Listed /\ \A i, k \in 1..Len(list') : list'[i] = list'[k] => i = k
      BY <1>7, <1>s DEF Poll
    <2>3. TypeOK'
      BY <1>0, <1>7, <2>1 DEF TypeOK, Stages, Status, Terminal, Poll
    <2>4. ExclusiveDelivery'
      BY <1>0, <1>7, <2>1 DEF ExclusiveDelivery, TypeOK, Poll
    <2>5. RowMatchesStage'
      BY <1>0, <1>7, <2>1 DEF RowMatchesStage, ExclusiveDelivery, TypeOK, Poll
    <2>6. OwnedByEnqueue' /\ HoldsWhileWorking'
      BY <1>0, <1>7, <2>1 DEF OwnedByEnqueue, HoldsWhileWorking, RowMatchesStage, Held, TypeOK, Poll
    <2>7. ProgressBehindItem'
      BY <1>0, <1>7, <2>1 DEF ProgressBehindItem, RowMatchesStage, ExclusiveDelivery, TypeOK, Poll
    <2> QED BY <2>3, <2>4, <2>5, <2>6, <2>7 DEF IInv
  <1>8. ASSUME NEW w \in Workers, Quit(w) PROVE IInv'
    <2>1. Listed' = Listed /\ \A i, k \in 1..Len(list') : list'[i] = list'[k] => i = k
      BY <1>8, <1>s DEF Quit
    <2>3. TypeOK'
      BY <1>0, <1>8, <2>1 DEF TypeOK, Stages, Status, Terminal, Quit
    <2>4. ExclusiveDelivery'
      BY <1>0, <1>8, <2>1 DEF ExclusiveDelivery, TypeOK, Quit
    <2>5. RowMatchesStage'
      BY <1>0, <1>8, <2>1 DEF RowMatchesStage, ExclusiveDelivery, TypeOK, Quit
    <2>6. OwnedByEnqueue' /\ HoldsWhileWorking'
      BY <1>0, <1>8, <2>1 DEF OwnedByEnqueue, HoldsWhileWorking, RowMatchesStage, Held, TypeOK, Quit
    <2>7. ProgressBehindItem'
      BY <1>0, <1>8, <2>1 DEF ProgressBehindItem, RowMatchesStage, ExclusiveDelivery, TypeOK, Quit
    <2> QED BY <2>3, <2>4, <2>5, <2>6, <2>7 DEF IInv
  <1>9. ASSUME NEW w \in Workers, BRPopEmpty(w) PROVE IInv'
    <2>1. Listed' = Listed /\ \A i, k \in 1..Len(list') : list'[i] = list'[k] => i = k
      BY <1>9, <1>s DEF BRPopEmpty
    <2>3. TypeOK'
      BY <1>0, <1>9, <2>1 DEF TypeOK, Stages, Status, Terminal, BRPopEmpty
    <2>4. ExclusiveDelivery'
      BY <1>0, <1>9, <2>1 DEF ExclusiveDelivery, TypeOK, BRPopEmpty
    <2>5. RowMatchesStage'
      BY <1>0, <1>9, <2>1 DEF RowMatchesStage, ExclusiveDelivery, TypeOK, BRPopEmpty
    <2>6. OwnedByEnqueue' /\ HoldsWhileWorking'
      BY <1>0, <1>9, <2>1 DEF OwnedByEnqueue, HoldsWhileWorking, RowMatchesStage, Held, TypeOK, BRPopEmpty
    <2>7. ProgressBehindItem'
      BY <1>0, <1>9, <2>1 DEF ProgressBehindItem, RowMatchesStage, ExclusiveDelivery, TypeOK, BRPopEmpty
    <2> QED BY <2>3, <2>4, <2>5, <2>6, <2>7 DEF IInv
  <1>10. ASSUME NEW w \in Workers, GetByIDUnscoped(w) PROVE IInv'
    <2>1. Listed' = Listed /\ \A i, k \in 1..Len(list') : list'[i] = list'[k] => i = k
      BY <1>10, <1>s DEF GetByIDUnscoped
    <2>3. TypeOK'
      BY <1>0, <1>10, <2>1 DEF TypeOK, Stages, Status, Terminal, GetByIDUnscoped
    <2>4. ExclusiveDelivery'
      BY <1>0, <1>10, <2>1 DEF ExclusiveDelivery, TypeOK, GetByIDUnscoped
    <2>5. RowMatchesStage'
      BY <1>0, <1>10, <2>1 DEF RowMatchesStage, ExclusiveDelivery, TypeOK, GetByIDUnscoped
    <2>6. OwnedByEnqueue' /\ HoldsWhileWorking'
      BY <1>0, <1>10, <2>1 DEF OwnedByEnqueue, HoldsWhileWorking, RowMatchesStage, Held, TypeOK, GetByIDUnscoped
    <2>7. ProgressBehindItem'
      BY <1>0, <1>10, <2>1 DEF ProgressBehindItem, RowMatchesStage, ExclusiveDelivery, TypeOK, GetByIDUnscoped
    <2> QED BY <2>3, <2>4, <2>5, <2>6, <2>7 DEF IInv
  <1>11. ASSUME NEW w \in Workers, GetByIDUnscopedFails(w) PROVE IInv'
    <2>1. Listed' = Listed /\ \A i, k \in 1..Len(list') : list'[i] = list'[k] => i = k
      BY <1>11, <1>s DEF GetByIDUnscopedFails, Release
    <2>3. TypeOK'
      BY <1>0, <1>11, <2>1 DEF TypeOK, Stages, Status, Terminal, GetByIDUnscopedFails, Release
    <2>4. ExclusiveDelivery'
      BY <1>0, <1>11, <2>1 DEF ExclusiveDelivery, TypeOK, GetByIDUnscopedFails, Release
    <2>5. RowMatchesStage'
      BY <1>0, <1>11, <2>1 DEF RowMatchesStage, ExclusiveDelivery, TypeOK, GetByIDUnscopedFails, Release
    <2>6. OwnedByEnqueue' /\ HoldsWhileWorking'
      BY <1>0, <1>11, <2>1 DEF OwnedByEnqueue, HoldsWhileWorking, RowMatchesStage, Held, TypeOK, GetByIDUnscopedFails, Release
    <2>7. ProgressBehindItem'
      BY <1>0, <1>11, <2>1 DEF ProgressBehindItem, RowMatchesStage, ExclusiveDelivery, TypeOK, GetByIDUnscopedFails, Release
    <2> QED BY <2>3, <2>4, <2>5, <2>6, <2>7 DEF IInv
  <1>12. ASSUME NEW w \in Workers, MarkProcessing(w) PROVE IInv'
    <2>1. Listed' = Listed /\ \A i, k \in 1..Len(list') : list'[i] = list'[k] => i = k
      BY <1>12, <1>s DEF MarkProcessing
    <2>2. held[w] \in Jobs
      BY <1>0, <1>12 DEF MarkProcessing, RowMatchesStage, TypeOK
    <2>3. TypeOK'
      BY <1>0, <1>12, <2>1, <2>2 DEF TypeOK, Stages, Status, Terminal, MarkProcessing
    <2>4. ExclusiveDelivery'
      BY <1>0, <1>12, <2>1, <2>2 DEF ExclusiveDelivery, TypeOK, MarkProcessing
    <2>5. RowMatchesStage'
      BY <1>0, <1>12, <2>1, <2>2 DEF RowMatchesStage, ExclusiveDelivery, TypeOK, MarkProcessing
    <2>6. OwnedByEnqueue' /\ HoldsWhileWorking'
      BY <1>0, <1>12, <2>1, <2>2 DEF OwnedByEnqueue, HoldsWhileWorking, RowMatchesStage, Held, TypeOK, MarkProcessing
    <2>7. ProgressBehindItem'
      BY <1>0, <1>12, <2>1, <2>2 DEF ProgressBehindItem, RowMatchesStage, ExclusiveDelivery, TypeOK, MarkProcessing
    <2> QED BY <2>3, <2>4, <2>5, <2>6, <2>7 DEF IInv
  <1>13. ASSUME NEW w \in Workers, MarkProcessingFails(w) PROVE IInv'
    <2>1. Listed' = Listed /\ \A i, k \in 1..Len(list') : list'[i] = list'[k] => i = k
      BY <1>13, <1>s DEF MarkProcessingFails, Release
    <2>2. held[w] \in Jobs
      BY <1>0, <1>13 DEF MarkProcessingFails, Release, RowMatchesStage, TypeOK
    <2>3. TypeOK'
      BY <1>0, <1>13, <2>1, <2>2 DEF TypeOK, Stages, Status, Terminal, MarkProcessingFails, Release
    <2>4. ExclusiveDelivery'
      BY <1>0, <1>13, <2>1, <2>2 DEF ExclusiveDelivery, TypeOK, MarkProcessingFails, Release
    <2>5. RowMatchesStage'
      BY <1>0, <1>13, <2>1, <2>2 DEF RowMatchesStage, ExclusiveDelivery, TypeOK, MarkProcessingFails, Release
    <2>6. OwnedByEnqueue' /\ HoldsWhileWorking'
      BY <1>0, <1>13, <2>1, <2>2 DEF OwnedByEnqueue, HoldsWhileWorking, RowMatchesStage, Held, TypeOK, MarkProcessingFails, Release
    <2>7. ProgressBehindItem'
      BY <1>0, <1>13, <2>1, <2>2 DEF ProgressBehindItem, RowMatchesStage, ExclusiveDelivery, TypeOK, MarkProcessingFails, Release
    <2> QED BY <2>3, <2>4, <2>5, <2>6, <2>7 DEF IInv
  <1>14. ASSUME NEW w \in Workers, HandleItem(w) PROVE IInv'
    <2>1. Listed' = Listed /\ \A i, k \in 1..Len(list') : list'[i] = list'[k] => i = k
      BY <1>14, <1>s DEF HandleItem
    <2>2. held[w] \in Jobs
      BY <1>0, <1>14 DEF HandleItem, RowMatchesStage, TypeOK
    <2>3. TypeOK'
      BY <1>0, <1>14, <2>1, <2>2 DEF TypeOK, Stages, Status, Terminal, HandleItem
    <2>4. ExclusiveDelivery'
      BY <1>0, <1>14, <2>1, <2>2 DEF ExclusiveDelivery, TypeOK, HandleItem
    <2>5. RowMatchesStage'
      BY <1>0, <1>14, <2>1, <2>2 DEF RowMatchesStage, ExclusiveDelivery, TypeOK, HandleItem
    <2>6. OwnedByEnqueue' /\ HoldsWhileWorking'
      BY <1>0, <1>14, <2>1, <2>2 DEF OwnedByEnqueue, HoldsWhileWorking, RowMatchesStage, Held, TypeOK, HandleItem
    <2>7. ProgressBehindItem'
      BY <1>0, <1>14, <2>1, <2>2 DEF ProgressBehindItem, RowMatchesStage, ExclusiveDelivery, TypeOK, HandleItem
    <2> QED BY <2>3, <2>4, <2>5, <2>6, <2>7 DEF IInv
  <1>15. ASSUME NEW w \in Workers, UpdateProgress(w) PROVE IInv'
    <2>1. Listed' = Listed /\ \A i, k \in 1..Len(list') : list'[i] = list'[k] => i = k
      BY <1>15, <1>s DEF UpdateProgress
    <2>2. held[w] \in Jobs
      BY <1>0, <1>15 DEF UpdateProgress, RowMatchesStage, TypeOK
    <2>3. TypeOK'
      BY <1>0, <1>15, <2>1, <2>2 DEF TypeOK, Stages, Status, Terminal, UpdateProgress
    <2>4. ExclusiveDelivery'
      BY <1>0, <1>15, <2>1, <2>2 DEF ExclusiveDelivery, TypeOK, UpdateProgress
    <2>5. RowMatchesStage'
      BY <1>0, <1>15, <2>1, <2>2 DEF RowMatchesStage, ExclusiveDelivery, TypeOK, UpdateProgress
    <2>6. OwnedByEnqueue' /\ HoldsWhileWorking'
      BY <1>0, <1>15, <2>1, <2>2 DEF OwnedByEnqueue, HoldsWhileWorking, RowMatchesStage, Held, TypeOK, UpdateProgress
    <2>7. ProgressBehindItem'
      BY <1>0, <1>15, <2>1, <2>2 DEF ProgressBehindItem, RowMatchesStage, ExclusiveDelivery, TypeOK, UpdateProgress
    <2> QED BY <2>3, <2>4, <2>5, <2>6, <2>7 DEF IInv
  <1>16. ASSUME NEW w \in Workers, HandlerFails(w) PROVE IInv'
    <2>1. Listed' = Listed /\ \A i, k \in 1..Len(list') : list'[i] = list'[k] => i = k
      BY <1>16, <1>s DEF HandlerFails, Return
    <2>2. held[w] \in Jobs
      BY <1>0, <1>16 DEF HandlerFails, Return, RowMatchesStage, TypeOK
    <2>3. TypeOK'
      BY <1>0, <1>16, <2>1, <2>2 DEF TypeOK, Stages, Status, Terminal, HandlerFails, Return
    <2>4. ExclusiveDelivery'
      BY <1>0, <1>16, <2>1, <2>2 DEF ExclusiveDelivery, TypeOK, HandlerFails, Return
    <2>5. RowMatchesStage'
      BY <1>0, <1>16, <2>1, <2>2 DEF RowMatchesStage, ExclusiveDelivery, TypeOK, HandlerFails, Return
    <2>6. OwnedByEnqueue' /\ HoldsWhileWorking'
      BY <1>0, <1>16, <2>1, <2>2 DEF OwnedByEnqueue, HoldsWhileWorking, RowMatchesStage, Held, TypeOK, HandlerFails, Return
    <2>7. ProgressBehindItem'
      BY <1>0, <1>16, <2>1, <2>2 DEF ProgressBehindItem, RowMatchesStage, ExclusiveDelivery, TypeOK, HandlerFails, Return
    <2> QED BY <2>3, <2>4, <2>5, <2>6, <2>7 DEF IInv
  <1>17. ASSUME NEW w \in Workers, HandlerReturns(w) PROVE IInv'
    <2>1. Listed' = Listed /\ \A i, k \in 1..Len(list') : list'[i] = list'[k] => i = k
      BY <1>17, <1>s DEF HandlerReturns, Return
    <2>2. held[w] \in Jobs
      BY <1>0, <1>17 DEF HandlerReturns, Return, RowMatchesStage, TypeOK
    <2>3. TypeOK'
      BY <1>0, <1>17, <2>1, <2>2 DEF TypeOK, Stages, Status, Terminal, HandlerReturns, Return
    <2>4. ExclusiveDelivery'
      BY <1>0, <1>17, <2>1, <2>2 DEF ExclusiveDelivery, TypeOK, HandlerReturns, Return
    <2>5. RowMatchesStage'
      BY <1>0, <1>17, <2>1, <2>2 DEF RowMatchesStage, ExclusiveDelivery, TypeOK, HandlerReturns, Return
    <2>6. OwnedByEnqueue' /\ HoldsWhileWorking'
      BY <1>0, <1>17, <2>1, <2>2 DEF OwnedByEnqueue, HoldsWhileWorking, RowMatchesStage, Held, TypeOK, HandlerReturns, Return
    <2>7. ProgressBehindItem'
      BY <1>0, <1>17, <2>1, <2>2 DEF ProgressBehindItem, RowMatchesStage, ExclusiveDelivery, TypeOK, HandlerReturns, Return
    <2> QED BY <2>3, <2>4, <2>5, <2>6, <2>7 DEF IInv
  <1>18. ASSUME NEW w \in Workers, Finish(w) PROVE IInv'
    <2>1. Listed' = Listed /\ \A i, k \in 1..Len(list') : list'[i] = list'[k] => i = k
      BY <1>18, <1>s DEF Finish, Release
    <2>2. held[w] \in Jobs
      BY <1>0, <1>18 DEF Finish, Release, RowMatchesStage, TypeOK
    <2>3. TypeOK'
      BY <1>0, <1>18, <2>1, <2>2 DEF TypeOK, Stages, Status, Terminal, Finish, Release
    <2>4. ExclusiveDelivery'
      BY <1>0, <1>18, <2>1, <2>2 DEF ExclusiveDelivery, TypeOK, Finish, Release
    <2>5. RowMatchesStage'
      BY <1>0, <1>18, <2>1, <2>2 DEF RowMatchesStage, ExclusiveDelivery, TypeOK, Finish, Release
    <2>a. push[held[w]] = "done" /\ outcome[w] # "absent"
      BY <1>0, <1>18, <2>2 DEF HoldsWhileWorking, TypeOK, Terminal
    <2>b. \A j \in Jobs : status'[j] = status[j] \/ (j = held[w] /\ status'[j] = outcome[w])
      BY <1>0, <1>18, <2>2 DEF Finish, TypeOK
    <2>c. HoldsWhileWorking'
      BY <1>0, <1>18, <2>2 DEF HoldsWhileWorking, TypeOK, Finish, Release
    <2>d. \A j \in Jobs : Held(j)' => Held(j)
      BY <1>0, <1>18, <2>2 DEF Held, TypeOK, Finish, Release
    <2>6. OwnedByEnqueue' /\ HoldsWhileWorking'
      <3>1. push[held[w]] # "pending" /\ status[held[w]] = "processing" /\ UNCHANGED push
        BY <1>0, <1>18, <2>a DEF RowMatchesStage, Finish
      <3>2. ASSUME NEW j \in Jobs
            PROVE  /\ push'[j] = "none" <=> status'[j] = "absent"
                   /\ push'[j] = "pending" => status'[j] = "queued" /\ j \notin Listed' /\ ~Held(j)'
        BY <1>0, <2>1, <2>a, <2>b, <2>d, <3>1 DEF OwnedByEnqueue
      <3> QED BY <2>c, <3>2 DEF OwnedByEnqueue
    <2>7. ProgressBehindItem'
      BY <1>0, <1>18, <2>1, <2>2 DEF ProgressBehindItem, RowMatchesStage, ExclusiveDelivery, TypeOK, Finish, Release, Terminal
    <2> QED BY <2>3, <2>4, <2>5, <2>6, <2>7 DEF IInv
  <1>19. ASSUME NEW w \in Workers, FinishFails(w) PROVE IInv'
    <2>1. Listed' = Listed /\ \A i, k \in 1..Len(list') : list'[i] = list'[k] => i = k
      BY <1>19, <1>s DEF FinishFails, Release
    <2>2. held[w] \in Jobs
      BY <1>0, <1>19 DEF FinishFails, Release, RowMatchesStage, TypeOK
    <2>3. TypeOK'
      BY <1>0, <1>19, <2>1, <2>2 DEF TypeOK, Stages, Status, Terminal, FinishFails, Release
    <2>4. ExclusiveDelivery'
      BY <1>0, <1>19, <2>1, <2>2 DEF ExclusiveDelivery, TypeOK, FinishFails, Release
    <2>5. RowMatchesStage'
      BY <1>0, <1>19, <2>1, <2>2 DEF RowMatchesStage, ExclusiveDelivery, TypeOK, FinishFails, Release
    <2>a. push[held[w]] = "done" /\ outcome[w] # "absent"
      BY <1>0, <1>19, <2>2 DEF HoldsWhileWorking, TypeOK, Terminal
    <2>b. \A j \in Jobs : status'[j] = status[j] \/ (j = held[w] /\ status'[j] = outcome[w])
      BY <1>0, <1>19, <2>2 DEF FinishFails, TypeOK
    <2>c. HoldsWhileWorking'
      BY <1>0, <1>19, <2>2 DEF HoldsWhileWorking, TypeOK, FinishFails, Release
    <2>d. \A j \in Jobs : Held(j)' => Held(j)
      BY <1>0, <1>19, <2>2 DEF Held, TypeOK, FinishFails, Release
    <2>6. OwnedByEnqueue' /\ HoldsWhileWorking'
      <3>1. push[held[w]] # "pending" /\ status[held[w]] = "processing" /\ UNCHANGED push
        BY <1>0, <1>19, <2>a DEF RowMatchesStage, FinishFails
      <3>2. ASSUME NEW j \in Jobs
            PROVE  /\ push'[j] = "none" <=> status'[j] = "absent"
                   /\ push'[j] = "pending" => status'[j] = "queued" /\ j \notin Listed' /\ ~Held(j)'
        BY <1>0, <2>1, <2>a, <2>b, <2>d, <3>1 DEF OwnedByEnqueue
      <3> QED BY <2>c, <3>2 DEF OwnedByEnqueue
    <2>7. ProgressBehindItem'
      BY <1>0, <1>19, <2>1, <2>2 DEF ProgressBehindItem, RowMatchesStage, ExclusiveDelivery, TypeOK, FinishFails, Release, Terminal
    <2> QED BY <2>3, <2>4, <2>5, <2>6, <2>7 DEF IInv
  <1>20. ASSUME NEW w \in Workers, Shutdown(w) PROVE IInv'
    <2>1. Listed' = Listed /\ \A i, k \in 1..Len(list') : list'[i] = list'[k] => i = k
      BY <1>20, <1>s DEF Shutdown, workerVars
    <2>3. TypeOK'
      BY <1>0, <1>20, <2>1 DEF TypeOK, Stages, Status, Terminal, Shutdown, workerVars
    <2>4. ExclusiveDelivery'
      BY <1>0, <1>20, <2>1 DEF ExclusiveDelivery, TypeOK, Shutdown, workerVars
    <2>5. RowMatchesStage'
      BY <1>0, <1>20, <2>1 DEF RowMatchesStage, ExclusiveDelivery, TypeOK, Shutdown, workerVars
    <2>6. OwnedByEnqueue' /\ HoldsWhileWorking'
      BY <1>0, <1>20, <2>1 DEF OwnedByEnqueue, HoldsWhileWorking, RowMatchesStage, Held, TypeOK, Shutdown, workerVars
    <2>7. ProgressBehindItem'
      BY <1>0, <1>20, <2>1 DEF ProgressBehindItem, RowMatchesStage, ExclusiveDelivery, TypeOK, Shutdown, workerVars
    <2> QED BY <2>3, <2>4, <2>5, <2>6, <2>7 DEF IInv
  <1>21. ASSUME NEW w \in Workers, Crash(w) PROVE IInv'
    <2>1. Listed' = Listed /\ \A i, k \in 1..Len(list') : list'[i] = list'[k] => i = k
      BY <1>21, <1>s DEF Crash
    <2>3. TypeOK'
      BY <1>0, <1>21, <2>1 DEF TypeOK, Stages, Status, Terminal, Crash
    <2>4. ExclusiveDelivery'
      BY <1>0, <1>21, <2>1 DEF ExclusiveDelivery, TypeOK, Crash
    <2>5. RowMatchesStage'
      BY <1>0, <1>21, <2>1 DEF RowMatchesStage, ExclusiveDelivery, TypeOK, Crash
    <2>6. OwnedByEnqueue' /\ HoldsWhileWorking'
      BY <1>0, <1>21, <2>1 DEF OwnedByEnqueue, HoldsWhileWorking, RowMatchesStage, Held, TypeOK, Crash
    <2>7. ProgressBehindItem'
      BY <1>0, <1>21, <2>1 DEF ProgressBehindItem, RowMatchesStage, ExclusiveDelivery, TypeOK, Crash
    <2> QED BY <2>3, <2>4, <2>5, <2>6, <2>7 DEF IInv
  <1>22. ASSUME NEW w \in Workers, Restart(w) PROVE IInv'
    <2>1. Listed' = Listed /\ \A i, k \in 1..Len(list') : list'[i] = list'[k] => i = k
      BY <1>22, <1>s DEF Restart
    <2>3. TypeOK'
      BY <1>0, <1>22, <2>1 DEF TypeOK, Stages, Status, Terminal, Restart
    <2>4. ExclusiveDelivery'
      BY <1>0, <1>22, <2>1 DEF ExclusiveDelivery, TypeOK, Restart
    <2>5. RowMatchesStage'
      BY <1>0, <1>22, <2>1 DEF RowMatchesStage, ExclusiveDelivery, TypeOK, Restart
    <2>6. OwnedByEnqueue' /\ HoldsWhileWorking'
      BY <1>0, <1>22, <2>1 DEF OwnedByEnqueue, HoldsWhileWorking, RowMatchesStage, Held, TypeOK, Restart
    <2>7. ProgressBehindItem'
      BY <1>0, <1>22, <2>1 DEF ProgressBehindItem, RowMatchesStage, ExclusiveDelivery, TypeOK, Restart
    <2> QED BY <2>3, <2>4, <2>5, <2>6, <2>7 DEF IInv
  <1>23. CASE UNCHANGED vars
    <2>1. Listed' = Listed
      BY <1>23 DEF vars, Listed
    <2> QED
      BY <1>0, <1>23, <2>1 DEF IInv, TypeOK, ExclusiveDelivery, RowMatchesStage,
         OwnedByEnqueue, HoldsWhileWorking, ProgressBehindItem, Held, vars
  <1> QED
    BY <1>2, <1>3, <1>4, <1>5, <1>6, <1>7, <1>8, <1>9, <1>10, <1>11, <1>12, <1>13,
       <1>14, <1>15, <1>16, <1>17, <1>18, <1>19, <1>20, <1>21, <1>22, <1>23
       DEF Next, Enqueue, Run, Dequeue

-----------------------------------------------------------------------------
(* Type correctness, exclusive delivery and the agreement of row and worker *)
(* hold in every reachable state of every instance: Mark*'s unguarded        *)
(* updates always have a single writer, which found the row as it expects.  *)
THEOREM DeliverySafety == Spec => [](TypeOK /\ ExclusiveDelivery /\ RowMatchesStage)
  <1>1. IInv => TypeOK /\ ExclusiveDelivery /\ RowMatchesStage
    BY DEF IInv
  <1> QED
    BY <1>1, InitIInv, NextIInv, PTL DEF Spec

(* JobQueue implements JobLifecycle: seen through its row, a job is started *)
(* once, never goes back in progress, and ends once, whatever fails.        *)
THEOREM Refinement == Spec => ImplementsLifecycle
  <1> USE JobQueueAssumption
  <1>1. Init => Lifecycle!Init
    BY DEF Init, Lifecycle!Init
  <1>2. IInv /\ [Next]_vars => [Lifecycle!Next]_(Lifecycle!vars)
    <2> SUFFICES ASSUME IInv, [Next]_vars, ~UNCHANGED <<status, progress>>
                 PROVE  Lifecycle!Next
      BY DEF Lifecycle!vars
    <2>0. TypeOK /\ RowMatchesStage /\ ProgressBehindItem
      BY DEF IInv
    <2>1. ASSUME NEW j \in Jobs, Enqueue(j) PROVE Lifecycle!Next
      BY <2>1 DEF Enqueue, Insert, LPush, LPushFails, Lifecycle!Next, Lifecycle!Create
    <2>2. ASSUME NEW w \in Workers, Run(w) PROVE Lifecycle!Next
      <3>1. CASE MarkProcessing(w) \/ MarkProcessingFails(w)
        <4>1. held[w] \in Jobs /\ status[held[w]] = "queued"
          BY <2>0, <3>1 DEF RowMatchesStage, TypeOK, MarkProcessing, MarkProcessingFails
        <4>2. Lifecycle!Start(held[w])
          BY <3>1, <4>1 DEF MarkProcessing, MarkProcessingFails, Lifecycle!Start
        <4> QED BY <4>1, <4>2 DEF Lifecycle!Next
      <3>2. CASE UpdateProgress(w)
        <4>1. held[w] \in Jobs /\ status[held[w]] = "processing"
          BY <2>0, <3>2 DEF RowMatchesStage, TypeOK, UpdateProgress
        <4>2. item[w] \in progress[held[w]]..Items
          BY <2>0, <3>2, <4>1 DEF ProgressBehindItem, TypeOK, UpdateProgress
        <4>3. Lifecycle!Advance(held[w])
          BY <3>2, <4>1, <4>2 DEF UpdateProgress, Lifecycle!Advance
        <4> QED BY <4>1, <4>3 DEF Lifecycle!Next
      <3>3. CASE Finish(w) \/ FinishFails(w)
        <4>1. held[w] \in Jobs /\ status[held[w]] = "processing"
          BY <2>0, <3>3 DEF RowMatchesStage, TypeOK, Finish, FinishFails
        <4>2. outcome[w] \in Lifecycle!Terminal
          BY <2>0 DEF TypeOK, Terminal, Lifecycle!Terminal
        <4>3. Lifecycle!Finish(held[w])
          BY <3>3, <4>1, <4>2 DEF Finish, FinishFails, Lifecycle!Finish
        <4> QED BY <4>1, <4>3 DEF Lifecycle!Next
      <3>4. CASE HandlerFails(w) \/ HandlerReturns(w)
        BY <3>4 DEF HandlerFails, HandlerReturns, Return
      <3>5. CASE Poll(w) \/ Quit(w) \/ Dequeue(w) \/ HandleItem(w)
        BY <3>5 DEF Poll, Quit, Dequeue, BRPop, BRPopEmpty, BRPopFails, GetByIDUnscoped,
           GetByIDUnscopedFails, HandleItem
      <3> QED BY <2>2, <3>1, <3>2, <3>3, <3>4, <3>5 DEF Run
    <2>3. ASSUME NEW w \in Workers, Shutdown(w) \/ Crash(w) \/ Restart(w) PROVE Lifecycle!Next
      BY <2>3 DEF Shutdown, Crash, Restart
    <2>4. CASE UNCHANGED vars
      BY <2>4 DEF vars
    <2> QED BY <2>1, <2>2, <2>3, <2>4 DEF Next
  <1> QED
    BY <1>1, <1>2, InitIInv, NextIInv, PTL DEF Spec, ImplementsLifecycle, Lifecycle!Spec

-----------------------------------------------------------------------------
(* The progress bar.  While Redis and Postgres answer, a worker that was not *)
(* told to stop has reported the last item by the time its handler can      *)
(* return well; one that was can no longer record that it did.             *)
ReportsAtEnd ==
  \A w \in Workers :
    ~cancelled[w] =>
      /\ pc[w] = "running" /\ item[w] = Items => progress[held[w]] = Items
      /\ pc[w] = "finishing" /\ outcome[w] # "failed" => progress[held[w]] = Items

ReportInv == ~Faults => ReportsAtEnd /\ CompletedIsFullyReported

LEMMA InitReportInv == Init => ReportInv
  BY DEF Init, ReportInv, ReportsAtEnd, CompletedIsFullyReported

(* Only the worker that holds a job touches its row once it is started. *)
LEMMA NextReportInv == IInv /\ ReportInv /\ [Next]_vars => ReportInv'
  <1> SUFFICES ASSUME IInv, ~Faults, ReportsAtEnd, CompletedIsFullyReported, [Next]_vars
               PROVE  ReportsAtEnd' /\ CompletedIsFullyReported'
    BY DEF ReportInv
  <1> USE JobQueueAssumption
  <1>0. TypeOK /\ ExclusiveDelivery /\ RowMatchesStage /\ HoldsWhileWorking
    BY DEF IInv
  <1>1. \A w, v \in Workers : held[w] = held[v] /\ held[w] # NoJob => w = v
    BY <1>0 DEF ExclusiveDelivery
  <1>2. \A w \in Workers : pc[w] \in {"running", "report", "finishing"} =>
          held[w] \in Jobs /\ held[w] # NoJob /\ status[held[w]] = "processing"
    BY <1>0 DEF RowMatchesStage, TypeOK
  <1>3. ASSUME NEW j \in Jobs, Enqueue(j) PROVE ReportsAtEnd' /\ CompletedIsFullyReported'
    <2>1. UNCHANGED <<progress, pc, held, item, outcome, cancelled>>
      BY <1>3 DEF Enqueue, Insert, LPush, LPushFails, workerVars
    <2>2. \A k \in Jobs : status'[k] \in {"completed", "completed_with_errors"} => status'[k] = status[k]
      BY <1>0, <1>3 DEF Enqueue, Insert, LPush, LPushFails, TypeOK
    <2> QED BY <2>1, <2>2 DEF ReportsAtEnd, CompletedIsFullyReported
  <1>4. ASSUME NEW w \in Workers, UpdateProgress(w) PROVE ReportsAtEnd' /\ CompletedIsFullyReported'
    <2>1. /\ pc[w] = "report" /\ pc' = [pc EXCEPT ![w] = "running"]
          /\ UNCHANGED <<status, held, cancelled, item, outcome>>
          /\ progress' = progress \/ progress' = [progress EXCEPT ![held[w]] = item[w]]
          /\ ~cancelled[w] /\ item[w] = Items => progress' = [progress EXCEPT ![held[w]] = item[w]]
      BY <1>0, <1>4 DEF UpdateProgress, TypeOK
    <2>2. held[w] \in Jobs /\ held[w] # NoJob /\ status[held[w]] = "processing"
      BY <1>2, <2>1
    <2>3. \A k \in Jobs : k # held[w] => progress'[k] = progress[k]
      BY <1>0, <2>1 DEF TypeOK
    <2>4. ~cancelled[w] /\ item[w] = Items => progress'[held[w]] = Items
      BY <1>0, <2>1, <2>2 DEF TypeOK
    <2>5. ASSUME NEW v \in Workers, v # w, pc[v] \in {"running", "finishing"}
          PROVE  progress'[held[v]] = progress[held[v]]
      BY <1>1, <1>2, <2>3, <2>5
    <2>6. ReportsAtEnd'
      BY <1>0, <2>1, <2>4, <2>5 DEF ReportsAtEnd, TypeOK
    <2>7. CompletedIsFullyReported'
      BY <2>1, <2>2, <2>3 DEF CompletedIsFullyReported
    <2> QED BY <2>6, <2>7
  <1>5. ASSUME NEW w \in Workers, Finish(w) PROVE ReportsAtEnd' /\ CompletedIsFullyReported'
    <2>1. /\ pc[w] = "finishing" /\ ~cancelled[w]
          /\ status' = [status EXCEPT ![held[w]] = outcome[w]]
          /\ pc' = [pc EXCEPT ![w] = "idle"]
          /\ held' = [held EXCEPT ![w] = NoJob]
          /\ UNCHANGED <<progress, cancelled, item, outcome>>
      BY <1>5 DEF Finish, Release
    <2>2. outcome[w] # "failed" => progress[held[w]] = Items
      BY <2>1 DEF ReportsAtEnd
    <2>3. ReportsAtEnd'
      BY <1>0, <2>1 DEF ReportsAtEnd, TypeOK
    <2>4. CompletedIsFullyReported'
      BY <1>0, <1>2, <2>1, <2>2 DEF CompletedIsFullyReported, TypeOK
    <2> QED BY <2>3, <2>4
  <1>6. ASSUME NEW w \in Workers, MarkProcessing(w) PROVE ReportsAtEnd' /\ CompletedIsFullyReported'
    <2>1. /\ item' = [item EXCEPT ![w] = 0] /\ pc' = [pc EXCEPT ![w] = "running"]
          /\ status' = [status EXCEPT ![held[w]] = "processing"]
          /\ UNCHANGED <<progress, held, cancelled, outcome>>
      BY <1>6 DEF MarkProcessing
    <2>2. ReportsAtEnd'
      BY <1>0, <2>1 DEF ReportsAtEnd, TypeOK
    <2>3. CompletedIsFullyReported'
      BY <1>0, <2>1 DEF CompletedIsFullyReported, TypeOK
    <2> QED BY <2>2, <2>3
  <1>7. ASSUME NEW w \in Workers, HandlerReturns(w) \/ HandlerFails(w)
        PROVE  ReportsAtEnd' /\ CompletedIsFullyReported'
    <2>1. /\ pc[w] = "running" /\ pc' = [pc EXCEPT ![w] = "finishing"]
          /\ UNCHANGED <<status, progress, held, cancelled, item>>
          /\ \/ item[w] = Items /\ \E o \in Terminal : outcome' = [outcome EXCEPT ![w] = o]
             \/ outcome' = [outcome EXCEPT ![w] = "failed"]
      BY <1>7 DEF HandlerReturns, HandlerFails, Return, Terminal
    <2>2. ReportsAtEnd'
      BY <1>0, <2>1 DEF ReportsAtEnd, TypeOK
    <2>3. CompletedIsFullyReported'
      BY <2>1 DEF CompletedIsFullyReported
    <2> QED BY <2>2, <2>3
  <1>8. ASSUME NEW w \in Workers, HandleItem(w) PROVE ReportsAtEnd' /\ CompletedIsFullyReported'
    <2>1. /\ pc' = [pc EXCEPT ![w] = "report"]
          /\ item' = [item EXCEPT ![w] = item[w] + 1]
          /\ UNCHANGED <<status, progress, held, cancelled, outcome>>
      BY <1>8 DEF HandleItem
    <2> QED BY <1>0, <2>1 DEF ReportsAtEnd, CompletedIsFullyReported, TypeOK
  <1>9. ASSUME NEW w \in Workers,
               \/ Poll(w) \/ Quit(w) \/ Dequeue(w) \/ MarkProcessingFails(w) \/ FinishFails(w)
               \/ Shutdown(w) \/ Crash(w) \/ Restart(w)
        PROVE  ReportsAtEnd' /\ CompletedIsFullyReported'
    <2>1. UNCHANGED <<status, progress, item, outcome>>
      BY <1>9
         DEF Poll, Quit, Dequeue, BRPop, BRPopEmpty, BRPopFails, GetByIDUnscoped,
             GetByIDUnscopedFails, MarkProcessingFails, FinishFails, Release, Shutdown, Crash,
             Restart, workerVars
    <2>2. \A v \in Workers \ {w} : pc'[v] = pc[v] /\ held'[v] = held[v] /\ cancelled'[v] = cancelled[v]
      BY <1>0, <1>9
         DEF Poll, Quit, Dequeue, BRPop, BRPopEmpty, BRPopFails, GetByIDUnscoped,
             GetByIDUnscopedFails, MarkProcessingFails, FinishFails, Release, Shutdown, Crash,
             Restart, workerVars, TypeOK
    <2>3. pc'[w] \notin {"running", "finishing"} \/ cancelled'[w]
      BY <1>0, <1>9
         DEF Poll, Quit, Dequeue, BRPop, BRPopEmpty, BRPopFails, GetByIDUnscoped,
             GetByIDUnscopedFails, MarkProcessingFails, FinishFails, Release, Shutdown, Crash,
             Restart, workerVars, TypeOK
    <2>4. ReportsAtEnd'
      BY <2>1, <2>2, <2>3 DEF ReportsAtEnd
    <2> QED BY <2>1, <2>4 DEF CompletedIsFullyReported
  <1>10. CASE UNCHANGED vars
    BY <1>10 DEF vars, ReportsAtEnd, CompletedIsFullyReported
  <1> QED
    BY <1>3, <1>4, <1>5, <1>6, <1>7, <1>8, <1>9, <1>10 DEF Next, Run

(* UpdateProgress is throttled and its errors are ignored, and yet a job that *)
(* ended well shows a full bar as long as the database answers.            *)
THEOREM FullReport == Spec => []CompletedIsFullyReported
  <1>1. ReportInv => CompletedIsFullyReported
    BY DEF ReportInv, CompletedIsFullyReported
  <1> QED
    BY <1>1, InitIInv, NextIInv, InitReportInv, NextReportInv, PTL DEF Spec
=============================================================================
