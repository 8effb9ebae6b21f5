---------------------------- MODULE WebhooksProofs ----------------------------
(* Proofs about Webhooks: without mishaps a job is delivered by one process,
   and the receiver is left alone once it has accepted it; every mishap lets
   through at most one delivery more, and only a failure of the process that
   holds a notification strands it. *)
EXTENDS Webhooks, FiniteSetTheorems, TLAPS

(* The job at place i of process p: 0 is the delivery in progress, i > 0 the
   i-th notification that waits. *)
Taken(p, i) ==
  \/ i = 0 /\ sending[p] # Nothing
  \/ i \in 1 .. Len(waiting[p])

JobAt(p, i) == IF i = 0 THEN sending[p] ELSE waiting[p][i]

(* What is on its way went through the idempotency key, once, and has not been
   accepted yet. *)
OneWay ==
  mishaps = 0 =>
    /\ \A p, q \in Processes : \A i, k \in Nat :
         (Taken(p, i) /\ Taken(q, k) /\ JobAt(p, i) = JobAt(q, k)) => p = q /\ i = k
    /\ \A p \in Processes : \A i \in Nat :
         Taken(p, i) => JobAt(p, i) \in keys /\ JobAt(p, i) \notin sent
    /\ sent \subseteq keys

IInv == TypeOK /\ OneWay

(* Type correctness; the queue of a process never grows beyond its bound,
   because put_nowait refuses what does not fit. *)
THEOREM TypeCorrect == Spec => []TypeOK
<1>1. Init => TypeOK
  BY WebhookConstants DEF Init, TypeOK
<1>2. TypeOK /\ [Next]_vars => TypeOK'
  <2> SUFFICES ASSUME TypeOK, [Next]_vars PROVE TypeOK'
    OBVIOUS
  <2> USE WebhookConstants DEF TypeOK, historyVars
  <2>1. ASSUME NEW p \in Processes, NEW j \in Jobs, Put(p, j)
        PROVE  /\ waiting' \in [Processes -> Seq(Jobs)]
               /\ \A q \in Processes : Len(waiting'[q]) <= QueueSize
               /\ refused' \subseteq Jobs
    <3>1. CASE Len(waiting[p]) < QueueSize
      <4>1. waiting[p] \in Seq(Jobs) /\ Len(Append(waiting[p], j)) = Len(waiting[p]) + 1
        OBVIOUS
      <4>2. waiting' = [waiting EXCEPT ![p] = Append(waiting[p], j)] /\ refused' = refused
        BY <2>1, <3>1 DEF Put
      <4>3. Append(waiting[p], j) \in Seq(Jobs) /\ Len(Append(waiting[p], j)) <= QueueSize
        BY <3>1, <4>1
      <4> QED BY <4>2, <4>3
    <3>2. CASE ~(Len(waiting[p]) < QueueSize)
      BY <2>1, <3>2 DEF Put
    <3> QED BY <3>1, <3>2
  <2>2. ASSUME NEW p \in Processes, NEW j \in Jobs, Notify(p, j) PROVE TypeOK'
    BY <2>1, <2>2 DEF Notify, Acquire
  <2>3. ASSUME NEW p \in Processes, NEW j \in Jobs, NotifySkipped(p, j) PROVE TypeOK'
    BY <2>3 DEF NotifySkipped
  <2>4. ASSUME NEW p \in Processes, NEW j \in Jobs, NotifyUnchecked(p, j) PROVE TypeOK'
    BY <2>1, <2>4 DEF NotifyUnchecked, Mishap
  <2>5. ASSUME NEW p \in Processes, Take(p) PROVE TypeOK'
    <3>1. waiting[p] \in Seq(Jobs) /\ waiting[p] # <<>>
      BY <2>5 DEF Take
    <3>2. /\ Head(waiting[p]) \in Jobs /\ Tail(waiting[p]) \in Seq(Jobs)
          /\ Len(Tail(waiting[p])) <= QueueSize
      BY <3>1
    <3>3. 1 \in 1 .. MaxRetries
      OBVIOUS
    <3> QED BY <2>5, <3>2, <3>3 DEF Take
  <2>6. ASSUME NEW p \in Processes, Finish(p)
        PROVE  /\ sending' \in [Processes -> Jobs \cup {Nothing}]
               /\ attempt' \in [Processes -> 1 .. MaxRetries]
    BY <2>6 DEF Finish
  <2>7. ASSUME NEW p \in Processes, MayReach(p) PROVE posts' \in [Jobs -> Nat]
    BY <2>7 DEF MayReach, Reaches
  <2>8. ASSUME NEW p \in Processes, Accepted(p) PROVE TypeOK'
    BY <2>6, <2>8 DEF Accepted, Reaches
  <2>9. ASSUME NEW p \in Processes, Rejected(p) PROVE TypeOK'
    <3>1. posts' \in [Jobs -> Nat] /\ sending[p] \in Jobs
      BY <2>7, <2>9 DEF Rejected
    <3>2. CASE attempt[p] < MaxRetries
      <4>1. attempt[p] + 1 \in 1 .. MaxRetries
        BY <3>2
      <4>2. /\ attempt' = [attempt EXCEPT ![p] = attempt[p] + 1]
            /\ UNCHANGED <<keys, waiting, sending, sent, failed, refused, calls, mishaps>>
        BY <2>9, <3>2 DEF Rejected, Retry
      <4> QED BY <3>1, <4>1, <4>2
    <3>3. CASE ~(attempt[p] < MaxRetries)
      <4>1. /\ Finish(p) /\ failed' = failed \cup {sending[p]}
            /\ UNCHANGED <<keys, waiting, sent, refused, calls, mishaps>>
        BY <2>9, <3>3 DEF Rejected, Retry
      <4> QED BY <2>6, <3>1, <4>1
    <3> QED BY <3>2, <3>3
  <2>10. ASSUME NEW p \in Processes, DeliveryBreaks(p) PROVE TypeOK'
    BY <2>6, <2>7, <2>10 DEF DeliveryBreaks, Mishap
  <2>11. ASSUME NEW p \in Processes, Crash(p) PROVE TypeOK'
    BY <2>6, <2>7, <2>11 DEF Crash, Mishap
  <2>12. ASSUME NEW j \in Jobs, KeyLapses(j) PROVE TypeOK'
    BY <2>12 DEF KeyLapses, Mishap
  <2>13. CASE UNCHANGED vars
    BY <2>13 DEF vars
  <2> QED
    BY <2>2, <2>3, <2>4, <2>5, <2>8, <2>9, <2>10, <2>11, <2>12, <2>13 DEF Next, Deliver
<1> QED
  BY <1>1, <1>2, PTL DEF Spec

(* Every step that is a mishap leaves nothing to show. *)
LEMMA MishapCounts ==
  ASSUME TypeOK, Mishap PROVE mishaps' # 0
BY DEF TypeOK, Mishap

(* A delivery that ends, or a failed attempt, adds no place. *)
LEMMA OneWayShrinks ==
  ASSUME TypeOK, OneWay, NEW p \in Processes,
         sending' \in {sending, [sending EXCEPT ![p] = Nothing]},
         UNCHANGED <<waiting, keys, sent, mishaps>>
  PROVE  OneWay'
<1>1. ASSUME NEW q \in Processes, NEW i \in Nat, Taken(q, i)'
      PROVE  Taken(q, i) /\ JobAt(q, i)' = JobAt(q, i)
  BY <1>1 DEF Taken, JobAt, TypeOK
<1> QED
  BY <1>1 DEF OneWay

(* A new notification: the key was free, so the job was nowhere. *)
LEMMA NotifyKeepsOneWay ==
  ASSUME TypeOK, OneWay, NEW p \in Processes, NEW j \in Jobs, Notify(p, j)
  PROVE  OneWay'
<1> SUFFICES ASSUME mishaps = 0 PROVE OneWay'
  BY DEF OneWay, Notify
<1> DEFINE New(q, i) == q = p /\ i = Len(waiting[p]) + 1
<1>1. j \notin keys /\ keys' = keys \cup {j} /\ UNCHANGED <<sending, sent, mishaps>>
  BY DEF Notify, Acquire
<1>2. ASSUME NEW q \in Processes, NEW i \in Nat, Taken(q, i)'
      PROVE  \/ Taken(q, i) /\ JobAt(q, i)' = JobAt(q, i)
             \/ New(q, i) /\ JobAt(q, i)' = j
  <2>1. CASE UNCHANGED waiting
    BY <1>1, <1>2, <2>1 DEF Taken, JobAt
  <2>2. CASE waiting' = [waiting EXCEPT ![p] = Append(@, j)]
    <3>1. waiting[q] \in Seq(Jobs) /\ waiting[p] \in Seq(Jobs)
      BY DEF TypeOK
    <3>2. CASE q # p
      BY <1>1, <1>2, <2>2, <3>2 DEF Taken, JobAt, TypeOK
    <3>3. CASE q = p
      <4>1. waiting'[p] = Append(waiting[p], j)
        BY <2>2 DEF TypeOK
      <4> QED
        BY <1>1, <1>2, <3>1, <3>3, <4>1 DEF Taken, JobAt
    <3> QED BY <3>2, <3>3
  <2> QED BY <2>1, <2>2 DEF Notify, Put
<1>3. ASSUME NEW q \in Processes, NEW i \in Nat, Taken(q, i)
      PROVE  JobAt(q, i) \in keys /\ JobAt(q, i) \notin sent /\ JobAt(q, i) # j
  BY <1>1, <1>3 DEF OneWay
<1>4. ASSUME NEW q \in Processes, NEW r \in Processes, NEW i \in Nat, NEW k \in Nat,
             Taken(q, i)', Taken(r, k)', JobAt(q, i)' = JobAt(r, k)'
      PROVE  q = r /\ i = k
  <2>1. CASE Taken(q, i) /\ JobAt(q, i)' = JobAt(q, i)
    BY <1>2, <1>3, <1>4, <2>1 DEF OneWay
  <2>2. CASE New(q, i) /\ JobAt(q, i)' = j
    BY <1>2, <1>3, <1>4, <2>2
  <2> QED BY <1>2, <1>4, <2>1, <2>2
<1>5. ASSUME NEW q \in Processes, NEW i \in Nat, Taken(q, i)'
      PROVE  JobAt(q, i)' \in keys' /\ JobAt(q, i)' \notin sent'
  BY <1>1, <1>2, <1>3, <1>5 DEF OneWay
<1>6. sent' \subseteq keys'
  BY <1>1 DEF OneWay
<1> QED
  BY <1>4, <1>5, <1>6 DEF OneWay

(* Taking the oldest notification moves every place of the queue by one. *)
LEMMA TakeKeepsOneWay ==
  ASSUME TypeOK, OneWay, NEW p \in Processes, Take(p)
  PROVE  OneWay'
<1> SUFFICES ASSUME mishaps = 0 PROVE OneWay'
  BY DEF OneWay, Take
<1> DEFINE Before(q, i) == IF q = p THEN i + 1 ELSE i
<1>1. /\ sending[p] = Nothing /\ waiting[p] # <<>> /\ waiting[p] \in Seq(Jobs)
      /\ sending'[p] = Head(waiting[p]) /\ waiting'[p] = Tail(waiting[p])
      /\ \A q \in Processes \ {p} : sending'[q] = sending[q] /\ waiting'[q] = waiting[q]
      /\ UNCHANGED <<keys, sent, mishaps>>
  BY DEF Take, TypeOK, historyVars
<1>2. ASSUME NEW q \in Processes, NEW i \in Nat, Taken(q, i)'
      PROVE  Taken(q, Before(q, i)) /\ JobAt(q, i)' = JobAt(q, Before(q, i))
  <2>1. CASE q # p
    BY <1>1, <1>2, <2>1 DEF Taken, JobAt
  <2>2. CASE q = p
    <3>1. /\ Len(waiting[p]) \in Nat \ {0} /\ Len(waiting'[p]) = Len(waiting[p]) - 1
          /\ sending'[p] = waiting[p][1]
          /\ \A n \in 1 .. Len(waiting'[p]) : waiting'[p][n] = waiting[p][n + 1]
      BY <1>1
    <3>2. CASE i = 0
      BY <2>2, <3>1, <3>2 DEF Taken, JobAt
    <3>3. CASE i # 0
      <4>1. i \in 1 .. Len(waiting'[p])
        BY <1>2, <2>2, <3>3 DEF Taken
      <4>2. i + 1 \in 1 .. Len(waiting[p]) /\ i + 1 # 0
        BY <3>1, <4>1
      <4> QED BY <2>2, <3>1, <3>3, <4>1, <4>2 DEF Taken, JobAt
    <3> QED BY <3>2, <3>3
  <2> QED BY <2>1, <2>2
<1>3. \A q \in Processes, i \in Nat : Before(q, i) \in Nat
  OBVIOUS
<1>4. ASSUME NEW q \in Processes, NEW r \in Processes, NEW i \in Nat, NEW k \in Nat,
             Taken(q, i)', Taken(r, k)', JobAt(q, i)' = JobAt(r, k)'
      PROVE  q = r /\ i = k
  <2>1. q = r /\ Before(q, i) = Before(r, k)
    BY <1>2, <1>3, <1>4 DEF OneWay
  <2> QED BY <2>1
<1>5. ASSUME NEW q \in Processes, NEW i \in Nat, Taken(q, i)'
      PROVE  JobAt(q, i)' \in keys' /\ JobAt(q, i)' \notin sent'
  <2>1. JobAt(q, i)' = JobAt(q, Before(q, i)) /\ Taken(q, Before(q, i))
    BY <1>2, <1>5
  <2> QED BY <1>1, <1>3, <2>1 DEF OneWay
<1>6. sent' \subseteq keys'
  BY <1>1 DEF OneWay
<1> QED
  BY <1>4, <1>5, <1>6 DEF OneWay

(* An accepted job leaves the only place it had. *)
LEMMA AcceptedKeepsOneWay ==
  ASSUME TypeOK, OneWay, NEW p \in Processes, Accepted(p)
  PROVE  OneWay'
<1> SUFFICES ASSUME mishaps = 0 PROVE OneWay'
  BY DEF OneWay, Accepted
<1>1. /\ sending[p] # Nothing /\ sent' = sent \cup {sending[p]}
      /\ sending' = [sending EXCEPT ![p] = Nothing]
      /\ UNCHANGED <<waiting, keys, mishaps>>
  BY DEF Accepted, Finish
<1>2. ASSUME NEW q \in Processes, NEW i \in Nat, Taken(q, i)'
      PROVE  /\ Taken(q, i) /\ JobAt(q, i)' = JobAt(q, i)
             /\ ~(q = p /\ i = 0)
  BY <1>1, <1>2 DEF Taken, JobAt, TypeOK
<1>3. Taken(p, 0) /\ JobAt(p, 0) = sending[p]
  BY <1>1 DEF Taken, JobAt
<1>4. ASSUME NEW q \in Processes, NEW i \in Nat, Taken(q, i)'
      PROVE  JobAt(q, i)' # sending[p]
  BY <1>2, <1>3, <1>4 DEF OneWay
<1>5. ASSUME NEW q \in Processes, NEW i \in Nat, Taken(q, i)'
      PROVE  JobAt(q, i)' \in keys' /\ JobAt(q, i)' \notin sent'
  BY <1>1, <1>2, <1>4, <1>5 DEF OneWay
<1>6. sent' \subseteq keys'
  BY <1>1, <1>3 DEF OneWay
<1> QED
  BY <1>2, <1>5, <1>6 DEF OneWay

LEMMA StepKeepsOneWay ==
  ASSUME TypeOK, OneWay, [Next]_vars PROVE OneWay'
<1>1. ASSUME NEW p \in Processes, NEW j \in Jobs, Notify(p, j) PROVE OneWay'
  BY <1>1, NotifyKeepsOneWay
<1>2. ASSUME NEW p \in Processes, NEW j \in Jobs, NotifySkipped(p, j) PROVE OneWay'
  BY <1>2, OneWayShrinks DEF NotifySkipped, historyVars
<1>3. ASSUME NEW p \in Processes, Take(p) PROVE OneWay'
  BY <1>3, TakeKeepsOneWay
<1>4. ASSUME NEW p \in Processes, Accepted(p) PROVE OneWay'
  BY <1>4, AcceptedKeepsOneWay
<1>5. ASSUME NEW p \in Processes, Rejected(p) PROVE OneWay'
  BY <1>5, OneWayShrinks DEF Rejected, Retry, Finish
<1>6. ASSUME Mishap PROVE OneWay'
  BY <1>6, MishapCounts DEF OneWay
<1>7. ASSUME UNCHANGED vars PROVE OneWay'
  BY <1>7 DEF vars, historyVars, OneWay, Taken, JobAt
<1> QED
  BY <1>1, <1>2, <1>3, <1>4, <1>5, <1>6, <1>7
  DEF Next, Deliver, NotifyUnchecked, DeliveryBreaks, Crash, KeyLapses

THEOREM Invariance == Spec => []IInv
<1>1. Init => OneWay
  BY WebhookConstants DEF Init, OneWay, Taken
<1>2. TypeOK /\ OneWay /\ [Next]_vars => OneWay'
  BY StepKeepsOneWay
<1> QED
  BY <1>1, <1>2, TypeCorrect, PTL DEF Spec, IInv

(* A job is on its way in one process only, whoever calls notify for it. *)
THEOREM DeliveredOnce == Spec => []SingleDelivery
<1>1. ASSUME IInv, mishaps = 0, NEW j \in Jobs PROVE Cardinality(Places(j)) <= 1
  <2>1. ASSUME NEW x \in Places(j)
        PROVE  /\ x = <<x[1], x[2]>> /\ x[1] \in Processes /\ x[2] \in Nat
               /\ Taken(x[1], x[2]) /\ JobAt(x[1], x[2]) = j
    BY <1>1, <2>1, WebhookConstants DEF Places, Taken, JobAt, IInv, TypeOK
  <2>2. \A x, y \in Places(j) : x = y
    <3> SUFFICES ASSUME NEW x \in Places(j), NEW y \in Places(j) PROVE x = y
      OBVIOUS
    <3>1. x[1] = y[1] /\ x[2] = y[2]
      BY <1>1, <2>1 DEF IInv, OneWay
    <3> QED BY <2>1, <3>1
  <2>3. CASE Places(j) = {}
    BY <2>3, FS_EmptySet
  <2>4. CASE Places(j) # {}
    <3>1. PICK x : Places(j) = {x}
      BY <2>2, <2>4
    <3>2. Cardinality({x}) = 1
      BY FS_Singleton
    <3> QED BY <3>1, <3>2
  <2> QED BY <2>3, <2>4
<1>2. IInv => SingleDelivery
  BY <1>1 DEF SingleDelivery
<1> QED
  BY <1>2, Invariance, PTL

(* The receiver sees nothing of a job it has accepted. *)
THEOREM Quiet == Spec => QuietAfterSuccess
<1>1. IInv /\ [Next]_vars =>
        [\A j \in Jobs : (j \in sent /\ mishaps = 0) => posts'[j] = posts[j]]_vars
  <2> SUFFICES ASSUME IInv, Next, NEW j \in Jobs, j \in sent, mishaps = 0
               PROVE  posts'[j] = posts[j]
    BY DEF vars, historyVars
  <2>1. \A p \in Processes : sending[p] # j
    BY WebhookConstants DEF IInv, OneWay, Taken, JobAt
  <2>2. ASSUME NEW p \in Processes, MayReach(p) PROVE posts'[j] = posts[j]
    BY <2>1, <2>2 DEF MayReach, Reaches, IInv, TypeOK
  <2>3. ASSUME NEW p \in Processes, Accepted(p) PROVE posts'[j] = posts[j]
    BY <2>1, <2>3 DEF Accepted, Reaches, IInv, TypeOK
  <2> QED
    BY <2>2, <2>3 DEF Next, Notify, NotifySkipped, NotifyUnchecked, Deliver, Take,
       Rejected, DeliveryBreaks, Crash, KeyLapses, historyVars
<1> QED
  BY <1>1, Invariance, PTL DEF QuietAfterSuccess, Spec

-----------------------------------------------------------------------------
(* Nothing vanishes *)

OnItsWay(j) == \E p \in Processes, i \in Nat : Taken(p, i) /\ JobAt(p, i) = j

(* A job whose key was taken is on its way, or something came of it. *)
Tracked ==
  mishaps = 0 => \A j \in keys : OnItsWay(j) \/ j \in sent \cup failed \cup refused

(* A step after which what was on its way still is, or something came of it. *)
LEMMA TrackedKept ==
  ASSUME Tracked, mishaps = 0, sent \subseteq sent', failed \subseteq failed',
         refused \subseteq refused',
         \A j \in keys' \ keys : OnItsWay(j)' \/ j \in sent' \cup failed' \cup refused',
         \A p \in Processes, i \in Nat : Taken(p, i) =>
           \/ JobAt(p, i) \in sent' \cup failed'
           \/ \E k \in Nat : Taken(p, k)' /\ JobAt(p, k)' = JobAt(p, i)
  PROVE  Tracked'
<1> SUFFICES ASSUME NEW j \in keys'
             PROVE  OnItsWay(j)' \/ j \in sent' \cup failed' \cup refused'
  BY DEF Tracked
<1>1. CASE j \notin keys
  BY <1>1
<1>2. CASE j \in keys /\ OnItsWay(j)
  <2>1. PICK p \in Processes, i \in Nat : Taken(p, i) /\ JobAt(p, i) = j
    BY <1>2 DEF OnItsWay
  <2>2. CASE JobAt(p, i) \in sent' \cup failed'
    BY <2>1, <2>2
  <2>3. CASE \E k \in Nat : Taken(p, k)' /\ JobAt(p, k)' = JobAt(p, i)
    <3>1. PICK k \in Nat : Taken(p, k)' /\ JobAt(p, k)' = j
      BY <2>1, <2>3
    <3> QED BY <3>1 DEF OnItsWay
  <2> QED BY <2>1, <2>2, <2>3
<1>3. CASE j \in keys /\ j \in sent \cup failed \cup refused
  BY <1>3
<1> QED BY <1>1, <1>2, <1>3 DEF Tracked

LEMMA NotifyTracks ==
  ASSUME TypeOK, Tracked, mishaps = 0, NEW p \in Processes, NEW j \in Jobs, Notify(p, j)
  PROVE  Tracked'
<1>1. keys' = keys \cup {j} /\ UNCHANGED <<sending, sent, failed>>
  BY DEF Notify, Acquire
<1>2. CASE waiting' = [waiting EXCEPT ![p] = Append(@, j)] /\ UNCHANGED refused
  <2>1. /\ waiting[p] \in Seq(Jobs) /\ waiting'[p] = Append(waiting[p], j)
        /\ \A q \in Processes \ {p} : waiting'[q] = waiting[q]
    BY <1>2 DEF TypeOK
  <2>2. ASSUME NEW q \in Processes, NEW i \in Nat, Taken(q, i)
        PROVE  Taken(q, i)' /\ JobAt(q, i)' = JobAt(q, i)
    BY <1>1, <2>1, <2>2 DEF Taken, JobAt
  <2>3. OnItsWay(j)'
    <3>1. PICK n \in Nat \ {0} : n = Len(waiting'[p]) /\ waiting'[p][n] = j
      BY <2>1
    <3>2. Taken(p, n)' /\ JobAt(p, n)' = j
      BY <3>1 DEF Taken, JobAt
    <3> QED BY <3>1, <3>2 DEF OnItsWay
  <2> QED BY <1>1, <1>2, <2>2, <2>3, TrackedKept
<1>3. CASE refused' = refused \cup {j} /\ UNCHANGED waiting
  <2>1. ASSUME NEW q \in Processes, NEW i \in Nat, Taken(q, i)
        PROVE  Taken(q, i)' /\ JobAt(q, i)' = JobAt(q, i)
    BY <1>1, <1>3, <2>1 DEF Taken, JobAt
  <2> QED BY <1>1, <1>3, <2>1, TrackedKept
<1> QED BY <1>2, <1>3 DEF Notify, Put

LEMMA TakeTracks ==
  ASSUME TypeOK, Tracked, mishaps = 0, NEW p \in Processes, Take(p)
  PROVE  Tracked'
<1>1. /\ sending[p] = Nothing /\ waiting[p] # <<>> /\ waiting[p] \in Seq(Jobs)
      /\ sending'[p] = Head(waiting[p]) /\ waiting'[p] = Tail(waiting[p])
      /\ \A q \in Processes \ {p} : sending'[q] = sending[q] /\ waiting'[q] = waiting[q]
      /\ UNCHANGED <<keys, sent, failed, refused>>
  BY DEF Take, TypeOK, historyVars
<1>2. /\ Len(waiting[p]) \in Nat \ {0} /\ Len(waiting'[p]) = Len(waiting[p]) - 1
      /\ sending'[p] = waiting[p][1] /\ sending'[p] \in Jobs
      /\ \A n \in 1 .. Len(waiting'[p]) : waiting'[p][n] = waiting[p][n + 1]
  BY <1>1
<1>3. ASSUME NEW q \in Processes, NEW i \in Nat, Taken(q, i)
      PROVE  \E k \in Nat : Taken(q, k)' /\ JobAt(q, k)' = JobAt(q, i)
  <2>1. CASE q # p
    <3>1. Taken(q, i)' /\ JobAt(q, i)' = JobAt(q, i)
      BY <1>1, <1>3, <2>1 DEF Taken, JobAt
    <3> QED BY <3>1
  <2>2. CASE q = p
    <3>1. i \in 1 .. Len(waiting[p])
      BY <1>1, <1>3, <2>2 DEF Taken
    <3>2. CASE i = 1
      <4>1. Taken(p, 0)' /\ JobAt(p, 0)' = JobAt(p, 1)
        BY <1>2, WebhookConstants DEF Taken, JobAt
      <4> QED BY <2>2, <3>2, <4>1
    <3>3. CASE i # 1
      <4>1. i - 1 \in 1 .. Len(waiting'[p]) /\ waiting'[p][i - 1] = waiting[p][i]
        BY <1>2, <3>1, <3>3
      <4>2. Taken(p, i - 1)' /\ JobAt(p, i - 1)' = JobAt(p, i) /\ i - 1 \in Nat
        BY <3>1, <4>1 DEF Taken, JobAt
      <4> QED BY <2>2, <4>2
    <3> QED BY <3>2, <3>3
  <2> QED BY <2>1, <2>2
<1> QED BY <1>1, <1>3, TrackedKept

(* A delivery that ends, or a failed attempt. *)
LEMMA DeliveryTracks ==
  ASSUME TypeOK, Tracked, mishaps = 0, NEW p \in Processes, Accepted(p) \/ Rejected(p)
  PROVE  Tracked'
<1>1. /\ UNCHANGED <<keys, waiting, refused>> /\ sent \subseteq sent' /\ failed \subseteq failed'
      /\ sending' = sending \/ (/\ sending' = [sending EXCEPT ![p] = Nothing]
                                /\ sending[p] \in sent' \cup failed')
  BY DEF Accepted, Rejected, Retry, Finish
<1>2. ASSUME NEW q \in Processes, NEW i \in Nat, Taken(q, i)
      PROVE  \/ JobAt(q, i) \in sent' \cup failed'
             \/ Taken(q, i)' /\ JobAt(q, i)' = JobAt(q, i)
  BY <1>1, <1>2 DEF Taken, JobAt, TypeOK
<1> QED BY <1>1, <1>2, TrackedKept

LEMMA StepTracks ==
  ASSUME TypeOK, Tracked, [Next]_vars PROVE Tracked'
<1> SUFFICES ASSUME mishaps' = 0 PROVE Tracked'
  BY DEF Tracked
<1>1. ~Mishap
  BY MishapCounts
<1>2. ASSUME NEW p \in Processes, NEW j \in Jobs, Notify(p, j) PROVE Tracked'
  BY <1>2, NotifyTracks DEF Notify
<1>3. ASSUME NEW p \in Processes, NEW j \in Jobs, NotifySkipped(p, j) PROVE Tracked'
  BY <1>3 DEF NotifySkipped, historyVars, Tracked, OnItsWay, Taken, JobAt
<1>4. ASSUME NEW p \in Processes, Take(p) PROVE Tracked'
  BY <1>4, TakeTracks DEF Take
<1>5. ASSUME NEW p \in Processes, Accepted(p) \/ Rejected(p) PROVE Tracked'
  BY <1>5, DeliveryTracks DEF Accepted, Rejected
<1>6. CASE UNCHANGED vars
  BY <1>6 DEF vars, historyVars, Tracked, OnItsWay, Taken, JobAt
<1> QED
  BY <1>1, <1>2, <1>3, <1>4, <1>5, <1>6
  DEF Next, Deliver, NotifyUnchecked, DeliveryBreaks, Crash, KeyLapses

(* Without mishaps a notification that was let through and is not on its way
   any more was delivered, given up after all attempts, or refused. *)
THEOREM NothingVanishes == Spec => []Accounted
<1>1. Init => Tracked
  BY DEF Init, Tracked
<1>2. TypeOK /\ Tracked /\ [Next]_vars => Tracked'
  BY StepTracks
<1>3. TypeOK /\ Tracked => Accounted
  <2> SUFFICES ASSUME TypeOK, Tracked, mishaps = 0, NEW j \in keys, OnItsWay(j)
               PROVE  Places(j) # {}
    BY DEF Accounted, Tracked
  <2>1. PICK p \in Processes, i \in Nat : Taken(p, i) /\ JobAt(p, i) = j
    BY DEF OnItsWay
  <2>2. <<p, i>> \in Places(j)
    <3>1. CASE i = 0
      BY <2>1, <3>1 DEF JobAt, Places
    <3>2. CASE i # 0
      <4>1. i \in 1 .. QueueSize /\ i <= Len(waiting[p]) /\ waiting[p][i] = j
        BY <2>1, <3>2, WebhookConstants DEF Taken, JobAt, TypeOK
      <4> QED BY <4>1 DEF Places
    <3> QED BY <3>1, <3>2
  <2> QED BY <2>2
<1> QED
  BY <1>1, <1>2, <1>3, TypeCorrect, PTL DEF Spec

-----------------------------------------------------------------------------
(* How often the receiver is called *)

(* The requests for a job that its deliveries may still make: one for every
   attempt left at every place where the job is. *)
Chances(j) ==
  {c \in Processes \X Nat \X (1 .. MaxRetries) :
     /\ Taken(c[1], c[2]) /\ JobAt(c[1], c[2]) = j
     /\ c[2] = 0 => c[3] >= attempt[c[1]]}

(* What may have been posted by now: a delivery for the key that is set, and
   one for every mishap. *)
Quota(j) == MaxRetries * (mishaps + IF j \in keys THEN 1 ELSE 0)

WithinQuota ==
  \A j \in Jobs :
    IsFiniteSet(Chances(j)) /\ posts[j] + Cardinality(Chances(j)) <= Quota(j)

LEMMA ChanceIs ==
  ASSUME NEW c, NEW j
  PROVE  c \in Chances(j) <=>
           \E p \in Processes, i \in Nat, n \in 1 .. MaxRetries :
             /\ c = <<p, i, n>> /\ Taken(p, i) /\ JobAt(p, i) = j
             /\ i = 0 => n >= attempt[p]
<1>1. ASSUME c \in Chances(j)
      PROVE  \E p \in Processes, i \in Nat, n \in 1 .. MaxRetries :
               /\ c = <<p, i, n>> /\ Taken(p, i) /\ JobAt(p, i) = j
               /\ i = 0 => n >= attempt[p]
  <2>1. /\ c[1] \in Processes /\ c[2] \in Nat /\ c[3] \in 1 .. MaxRetries
        /\ c = <<c[1], c[2], c[3]>>
        /\ Taken(c[1], c[2]) /\ JobAt(c[1], c[2]) = j
        /\ c[2] = 0 => c[3] >= attempt[c[1]]
    BY <1>1 DEF Chances
  <2> QED BY <2>1
<1>2. ASSUME NEW p \in Processes, NEW i \in Nat, NEW n \in 1 .. MaxRetries,
             c = <<p, i, n>>, Taken(p, i), JobAt(p, i) = j,
             i = 0 => n >= attempt[p]
      PROVE  c \in Chances(j)
  BY <1>2 DEF Chances
<1> QED BY <1>1, <1>2

(* The same of the next state. *)
LEMMA ChanceThen ==
  ASSUME NEW c, NEW j
  PROVE  c \in Chances(j)' <=>
           \E p \in Processes, i \in Nat, n \in 1 .. MaxRetries :
             /\ c = <<p, i, n>> /\ Taken(p, i)' /\ JobAt(p, i)' = j
             /\ i = 0 => n >= attempt'[p]
<1>1. ASSUME c \in Chances(j)'
      PROVE  \E p \in Processes, i \in Nat, n \in 1 .. MaxRetries :
               /\ c = <<p, i, n>> /\ Taken(p, i)' /\ JobAt(p, i)' = j
               /\ i = 0 => n >= attempt'[p]
  <2>1. /\ c[1] \in Processes /\ c[2] \in Nat /\ c[3] \in 1 .. MaxRetries
        /\ c = <<c[1], c[2], c[3]>>
        /\ Taken(c[1], c[2])' /\ JobAt(c[1], c[2])' = j
        /\ c[2] = 0 => c[3] >= attempt'[c[1]]
    BY <1>1 DEF Chances
  <2> QED BY <2>1
<1>2. ASSUME NEW p \in Processes, NEW i \in Nat, NEW n \in 1 .. MaxRetries,
             c = <<p, i, n>>, Taken(p, i)', JobAt(p, i)' = j,
             i = 0 => n >= attempt'[p]
      PROVE  c \in Chances(j)'
  BY <1>2 DEF Chances
<1> QED BY <1>1, <1>2

(* A delivery more, or a mishap more, raises the quota by MaxRetries. *)
LEMMA QuotaType ==
  ASSUME TypeOK, NEW j \in Jobs
  PROVE  /\ Quota(j) \in Nat
         /\ (mishaps' = mishaps /\ keys' = keys) => Quota(j)' = Quota(j)
         /\ (mishaps' = mishaps /\ j \notin keys /\ j \in keys') =>
              Quota(j)' = Quota(j) + MaxRetries
         /\ (mishaps' = mishaps + 1 /\ keys \subseteq keys') =>
              Quota(j)' >= Quota(j) + MaxRetries
         /\ (mishaps' = mishaps + 1) => Quota(j)' >= Quota(j)
<1> DEFINE here == IF j \in keys THEN 1 ELSE 0
           then == IF j \in keys' THEN 1 ELSE 0
<1>1. mishaps \in Nat /\ MaxRetries \in Nat /\ here \in 0 .. 1 /\ then \in 0 .. 1
  BY WebhookConstants DEF TypeOK
<1>2. \A m, n \in Nat : MaxRetries * (m + n) = MaxRetries * m + MaxRetries * n
  BY <1>1
<1>3. MaxRetries * 1 = MaxRetries /\ MaxRetries * 0 = 0 /\ MaxRetries * mishaps \in Nat
  BY <1>1
<1>4. Quota(j) = MaxRetries * mishaps + MaxRetries * here
  BY <1>1, <1>2 DEF Quota
<1>5. ASSUME mishaps' \in Nat
      PROVE  Quota(j)' = MaxRetries * mishaps' + MaxRetries * then
  BY <1>1, <1>2, <1>5 DEF Quota
<1>6. MaxRetries * (mishaps + 1) = MaxRetries * mishaps + MaxRetries
  BY <1>1, <1>2, <1>3
<1>7. /\ MaxRetries * here = (IF j \in keys THEN MaxRetries ELSE 0)
      /\ MaxRetries * then = (IF j \in keys' THEN MaxRetries ELSE 0)
  BY <1>3
<1> HIDE DEF here, then
<1>8. Quota(j) \in Nat
  BY <1>1, <1>3, <1>4, <1>7
<1>9. (mishaps' = mishaps /\ keys' = keys) => Quota(j)' = Quota(j)
  BY DEF Quota
<1>10. (mishaps' = mishaps /\ j \notin keys /\ j \in keys') =>
         Quota(j)' = Quota(j) + MaxRetries
  <2> SUFFICES ASSUME mishaps' = mishaps, j \notin keys, j \in keys'
               PROVE  Quota(j)' = Quota(j) + MaxRetries
    OBVIOUS
  <2>1. Quota(j)' = MaxRetries * mishaps + MaxRetries * then
    BY <1>1, <1>5
  <2> QED BY <1>1, <1>3, <1>4, <1>7, <2>1
<1>11. ASSUME mishaps' = mishaps + 1
       PROVE  Quota(j)' = MaxRetries * mishaps + MaxRetries + MaxRetries * then
  <2>1. Quota(j)' = MaxRetries * (mishaps + 1) + MaxRetries * then
    BY <1>1, <1>5, <1>11
  <2> QED BY <1>6, <2>1
<1>12. (mishaps' = mishaps + 1 /\ keys \subseteq keys') =>
         Quota(j)' >= Quota(j) + MaxRetries
  BY <1>1, <1>3, <1>4, <1>7, <1>11
<1>13. (mishaps' = mishaps + 1) => Quota(j)' >= Quota(j)
  BY <1>1, <1>3, <1>4, <1>7, <1>11
<1> QED BY <1>8, <1>9, <1>10, <1>12, <1>13

(* No place and no attempt is added. *)
LEMMA ChancesShrink ==
  ASSUME NEW j, IsFiniteSet(Chances(j)), Chances(j)' \subseteq Chances(j)
  PROVE  /\ IsFiniteSet(Chances(j)')
         /\ Cardinality(Chances(j)') <= Cardinality(Chances(j))
         /\ Cardinality(Chances(j)') \in Nat /\ Cardinality(Chances(j)) \in Nat
BY FS_Subset, FS_CardinalityType

(* A notification put on a queue adds all its attempts, if it fits. *)
LEMMA PutChances ==
  ASSUME TypeOK, NEW p \in Processes, NEW j \in Jobs, Put(p, j),
         UNCHANGED <<sending, attempt>>, NEW k \in Jobs, IsFiniteSet(Chances(k))
  PROVE  /\ IsFiniteSet(Chances(k)')
         /\ Cardinality(Chances(k)') \in Nat /\ Cardinality(Chances(k)) \in Nat
         /\ Cardinality(Chances(k)') <=
              Cardinality(Chances(k)) + (IF k = j THEN MaxRetries ELSE 0)
<1> DEFINE New == {<<p, Len(waiting[p]) + 1, n>> : n \in 1 .. MaxRetries}
<1>1. ASSUME NEW q \in Processes, NEW i \in Nat, Taken(q, i)'
      PROVE  \/ Taken(q, i) /\ JobAt(q, i)' = JobAt(q, i)
             \/ q = p /\ i = Len(waiting[p]) + 1 /\ JobAt(q, i)' = j
  <2>1. CASE UNCHANGED waiting
    BY <1>1, <2>1 DEF Taken, JobAt
  <2>2. CASE waiting' = [waiting EXCEPT ![p] = Append(@, j)]
    <3>1. waiting[q] \in Seq(Jobs) /\ waiting[p] \in Seq(Jobs)
      BY DEF TypeOK
    <3>2. CASE q # p
      BY <1>1, <2>2, <3>2 DEF Taken, JobAt, TypeOK
    <3>3. CASE q = p
      <4>1. waiting'[p] = Append(waiting[p], j)
        BY <2>2 DEF TypeOK
      <4> QED BY <1>1, <3>1, <3>3, <4>1 DEF Taken, JobAt
    <3> QED BY <3>2, <3>3
  <2> QED BY <2>1, <2>2 DEF Put
<1>2. Chances(k)' \subseteq Chances(k) \cup (IF k = j THEN New ELSE {})
  <2> SUFFICES ASSUME NEW c \in Chances(k)'
               PROVE  c \in Chances(k) \/ (k = j /\ c \in New)
    OBVIOUS
  <2>1. PICK q \in Processes, i \in Nat, n \in 1 .. MaxRetries :
          /\ c = <<q, i, n>> /\ Taken(q, i)' /\ JobAt(q, i)' = k
          /\ i = 0 => n >= attempt'[q]
    BY ChanceThen
  <2>2. CASE Taken(q, i) /\ JobAt(q, i)' = JobAt(q, i)
    BY <2>1, <2>2, ChanceIs
  <2>3. CASE q = p /\ i = Len(waiting[p]) + 1 /\ JobAt(q, i)' = j
    BY <2>1, <2>3
  <2> QED BY <1>1, <2>1, <2>2, <2>3
<1>3. IsFiniteSet(New) /\ Cardinality(New) \in Nat /\ Cardinality(New) <= MaxRetries
  <2>1. MaxRetries \in Nat \ {0}
    BY WebhookConstants
  <2>2. IsFiniteSet(1 .. MaxRetries) /\ Cardinality(1 .. MaxRetries) = MaxRetries
    BY <2>1, FS_Interval
  <2> DEFINE third == [c \in New |-> c[3]]
  <2>3. third \in Injection(New, 1 .. MaxRetries)
    BY DEF Injection, IsInjective
  <2> HIDE DEF third, New
  <2> QED BY <2>2, <2>3, FS_Injection, FS_CardinalityType
<1> HIDE DEF New
<1>4. CASE k = j
  <2>1. /\ IsFiniteSet(Chances(k) \cup New)
        /\ Cardinality(Chances(k) \cup New) =
             Cardinality(Chances(k)) + Cardinality(New) - Cardinality(Chances(k) \cap New)
    BY <1>3, FS_Union
  <2>2. Cardinality(Chances(k)) \in Nat /\ Cardinality(Chances(k) \cap New) \in Nat
    BY <1>3, FS_CardinalityType, FS_Intersection
  <2>3. /\ IsFiniteSet(Chances(k)') /\ Cardinality(Chances(k)') \in Nat
        /\ Cardinality(Chances(k)') <= Cardinality(Chances(k) \cup New)
    BY <1>2, <1>4, <2>1, FS_Subset, FS_CardinalityType
  <2> QED BY <1>3, <1>4, <2>1, <2>2, <2>3, WebhookConstants
<1>5. CASE k # j
  <2>1. Chances(k)' \subseteq Chances(k)
    BY <1>2, <1>5
  <2> QED BY <1>5, <2>1, ChancesShrink
<1> QED BY <1>4, <1>5

(* Taking a notification from the queue moves its attempts. *)
LEMMA TakeChances ==
  ASSUME TypeOK, NEW p \in Processes, Take(p), NEW k \in Jobs, IsFiniteSet(Chances(k))
  PROVE  /\ IsFiniteSet(Chances(k)')
         /\ Cardinality(Chances(k)') \in Nat /\ Cardinality(Chances(k)) \in Nat
         /\ Cardinality(Chances(k)') <= Cardinality(Chances(k))
<1> DEFINE Before(q, i) == IF q = p THEN i + 1 ELSE i
           before == [c \in Chances(k)' |-> <<c[1], Before(c[1], c[2]), c[3]>>]
<1>1. /\ sending[p] = Nothing /\ waiting[p] # <<>> /\ waiting[p] \in Seq(Jobs)
      /\ sending'[p] = Head(waiting[p]) /\ waiting'[p] = Tail(waiting[p])
      /\ \A q \in Processes \ {p} : /\ sending'[q] = sending[q]
                                    /\ waiting'[q] = waiting[q]
                                    /\ attempt'[q] = attempt[q]
  BY DEF Take, TypeOK
<1>2. /\ Len(waiting[p]) \in Nat \ {0} /\ Len(waiting'[p]) = Len(waiting[p]) - 1
      /\ sending'[p] = waiting[p][1]
      /\ \A n \in 1 .. Len(waiting'[p]) : waiting'[p][n] = waiting[p][n + 1]
  BY <1>1
<1>3. ASSUME NEW q \in Processes, NEW i \in Nat, Taken(q, i)'
      PROVE  Taken(q, Before(q, i)) /\ JobAt(q, i)' = JobAt(q, Before(q, i))
  <2>1. CASE q # p
    BY <1>1, <1>3, <2>1 DEF Taken, JobAt
  <2>2. CASE q = p /\ i = 0
    BY <1>2, <2>2 DEF Taken, JobAt
  <2>3. CASE q = p /\ i # 0
    <3>1. i \in 1 .. Len(waiting'[p])
      BY <1>3, <2>3 DEF Taken
    <3>2. i + 1 \in 1 .. Len(waiting[p]) /\ i + 1 # 0
      BY <1>2, <3>1
    <3> QED BY <1>2, <2>3, <3>1, <3>2 DEF Taken, JobAt
  <2> QED BY <2>1, <2>2, <2>3
<1>4. ASSUME NEW c \in Chances(k)'
      PROVE  /\ c[1] \in Processes /\ c[2] \in Nat /\ c = <<c[1], c[2], c[3]>>
             /\ <<c[1], Before(c[1], c[2]), c[3]>> \in Chances(k)
  <2>1. PICK q \in Processes, i \in Nat, n \in 1 .. MaxRetries :
          /\ c = <<q, i, n>> /\ Taken(q, i)' /\ JobAt(q, i)' = k
          /\ i = 0 => n >= attempt'[q]
    BY ChanceThen
  <2>2. Taken(q, Before(q, i)) /\ JobAt(q, Before(q, i)) = k /\ Before(q, i) \in Nat
    BY <1>3, <2>1
  <2>3. Before(q, i) = 0 => n >= attempt[q]
    BY <1>1, <2>1
  <2>4. <<q, Before(q, i), n>> \in Chances(k)
    BY <2>2, <2>3, ChanceIs
  <2> QED BY <2>1, <2>4
<1>5. before \in Injection(Chances(k)', Chances(k))
  <2>1. before \in [Chances(k)' -> Chances(k)]
    BY <1>4
  <2>2. ASSUME NEW c \in Chances(k)', NEW d \in Chances(k)', before[c] = before[d]
        PROVE  c = d
    <3>1. /\ before[c] = <<c[1], Before(c[1], c[2]), c[3]>>
          /\ before[d] = <<d[1], Before(d[1], d[2]), d[3]>>
      OBVIOUS
    <3>2. c[1] = d[1] /\ Before(c[1], c[2]) = Before(d[1], d[2]) /\ c[3] = d[3]
      BY <2>2, <3>1
    <3>3. c[2] = d[2]
      <4>1. c[2] \in Nat /\ d[2] \in Nat
        BY <1>4
      <4>2. CASE c[1] = p
        BY <3>2, <4>1, <4>2
      <4>3. CASE c[1] # p
        BY <3>2, <4>3
      <4> QED BY <4>2, <4>3
    <3> QED BY <1>4, <3>2, <3>3
  <2> QED BY <2>1, <2>2 DEF Injection, IsInjective
<1> HIDE DEF before
<1> QED BY <1>5, FS_Injection, FS_CardinalityType

(* An attempt that was made, or given up with its delivery, is not made again. *)
LEMMA AttemptSpent ==
  ASSUME TypeOK, NEW p \in Processes,
         \/ attempt' = [attempt EXCEPT ![p] = @ + 1] /\ UNCHANGED sending
         \/ Finish(p),
         waiting' \in {waiting, [waiting EXCEPT ![p] = <<>>]},
         NEW k \in Jobs
  PROVE  /\ Chances(k)' \subseteq Chances(k)
         /\ sending[p] = k =>
              /\ <<p, 0, attempt[p]>> \in Chances(k)
              /\ <<p, 0, attempt[p]>> \notin Chances(k)'
<1>1. attempt[p] \in 1 .. MaxRetries /\ attempt \in [Processes -> 1 .. MaxRetries]
  BY DEF TypeOK
<1>2. ASSUME NEW q \in Processes, NEW i \in Nat, Taken(q, i)'
      PROVE  /\ Taken(q, i) /\ JobAt(q, i)' = JobAt(q, i)
             /\ q = p /\ i = 0 => attempt'[p] = attempt[p] + 1
             /\ q # p => attempt'[q] = attempt[q]
  BY SMTT(30), <1>2 DEF Taken, JobAt, TypeOK, Finish
<1>3. ASSUME NEW c \in Chances(k)' PROVE c \in Chances(k) /\ c # <<p, 0, attempt[p]>>
  <2>1. PICK q \in Processes, i \in Nat, n \in 1 .. MaxRetries :
          /\ c = <<q, i, n>> /\ Taken(q, i)' /\ JobAt(q, i)' = k
          /\ i = 0 => n >= attempt'[q]
    BY ChanceThen
  <2>2. i = 0 => n >= attempt[q] /\ (q = p => n # attempt[p])
    BY <1>1, <1>2, <2>1
  <2>3. c \in Chances(k)
    BY <1>2, <2>1, <2>2, ChanceIs
  <2> QED BY <2>1, <2>2, <2>3
<1>4. ASSUME sending[p] = k PROVE <<p, 0, attempt[p]>> \in Chances(k)
  <2>1. Taken(p, 0) /\ JobAt(p, 0) = k
    BY <1>4, WebhookConstants DEF Taken, JobAt
  <2> QED BY <1>1, <2>1, ChanceIs
<1> QED BY <1>3, <1>4

(* So a request and the attempt it was balance. *)
LEMMA RequestBalanced ==
  ASSUME TypeOK, NEW p \in Processes, MayReach(p),
         \/ attempt' = [attempt EXCEPT ![p] = @ + 1] /\ UNCHANGED sending
         \/ Finish(p),
         waiting' \in {waiting, [waiting EXCEPT ![p] = <<>>]},
         NEW k \in Jobs, IsFiniteSet(Chances(k))
  PROVE  /\ IsFiniteSet(Chances(k)')
         /\ Cardinality(Chances(k)') \in Nat /\ Cardinality(Chances(k)) \in Nat
         /\ posts'[k] + Cardinality(Chances(k)') <= posts[k] + Cardinality(Chances(k))
         /\ posts'[k] \in Nat
<1>1. /\ Chances(k)' \subseteq Chances(k)
      /\ sending[p] = k =>
           /\ <<p, 0, attempt[p]>> \in Chances(k)
           /\ <<p, 0, attempt[p]>> \notin Chances(k)'
  BY AttemptSpent
<1>2. posts[k] \in Nat /\ posts'[k] \in Nat
      /\ \/ posts'[k] = posts[k]
         \/ sending[p] = k /\ posts'[k] = posts[k] + 1
  BY DEF MayReach, Reaches, TypeOK
<1>3. /\ IsFiniteSet(Chances(k)')
      /\ Cardinality(Chances(k)') <= Cardinality(Chances(k))
      /\ Cardinality(Chances(k)') \in Nat /\ Cardinality(Chances(k)) \in Nat
      /\ Cardinality(Chances(k)') = Cardinality(Chances(k)) => Chances(k)' = Chances(k)
  BY <1>1, ChancesShrink, FS_Subset
<1>4. CASE sending[p] = k
  <2>1. Cardinality(Chances(k)') # Cardinality(Chances(k))
    BY <1>1, <1>3, <1>4
  <2> QED BY <1>2, <1>3, <2>1
<1>5. CASE posts'[k] = posts[k]
  BY <1>2, <1>3, <1>5
<1> QED BY <1>2, <1>3, <1>4, <1>5

LEMMA StepWithinQuota ==
  ASSUME TypeOK, WithinQuota, [Next]_vars PROVE WithinQuota'
<1> SUFFICES ASSUME NEW k \in Jobs
             PROVE  /\ IsFiniteSet(Chances(k)')
                    /\ posts'[k] + Cardinality(Chances(k)') <= Quota(k)'
  BY DEF WithinQuota
<1>1. /\ IsFiniteSet(Chances(k)) /\ posts[k] + Cardinality(Chances(k)) <= Quota(k)
      /\ Cardinality(Chances(k)) \in Nat /\ posts[k] \in Nat
      /\ MaxRetries \in Nat
  BY FS_CardinalityType, WebhookConstants DEF WithinQuota, TypeOK
<1>2. ASSUME NEW p \in Processes, NEW j \in Jobs, Notify(p, j)
      PROVE  /\ IsFiniteSet(Chances(k)')
             /\ posts'[k] + Cardinality(Chances(k)') <= Quota(k)'
  <2>1. /\ j \notin keys /\ keys' = keys \cup {j} /\ Put(p, j)
        /\ UNCHANGED <<sending, attempt, posts, mishaps>>
    BY <1>2 DEF Notify, Acquire
  <2>2. /\ IsFiniteSet(Chances(k)') /\ Cardinality(Chances(k)') \in Nat
        /\ Cardinality(Chances(k)') <=
             Cardinality(Chances(k)) + (IF k = j THEN MaxRetries ELSE 0)
    BY <1>1, <2>1, PutChances
  <2>3. Quota(k) \in Nat /\ Quota(k)' = Quota(k) + (IF k = j THEN MaxRetries ELSE 0)
    <3>1. CASE k = j
      BY <2>1, <3>1, QuotaType
    <3>2. CASE k # j
      BY <1>1, <2>1, <3>2, QuotaType DEF Quota
    <3> QED BY <3>1, <3>2
  <2> QED BY <1>1, <2>1, <2>2, <2>3
<1>3. ASSUME NEW p \in Processes, NEW j \in Jobs, NotifyUnchecked(p, j)
      PROVE  /\ IsFiniteSet(Chances(k)')
             /\ posts'[k] + Cardinality(Chances(k)') <= Quota(k)'
  <2>1. /\ mishaps' = mishaps + 1 /\ keys \subseteq keys' /\ Put(p, j)
        /\ UNCHANGED <<sending, attempt, posts>>
    BY <1>3 DEF NotifyUnchecked, Mishap
  <2>2. /\ IsFiniteSet(Chances(k)') /\ Cardinality(Chances(k)') \in Nat
        /\ Cardinality(Chances(k)') <= Cardinality(Chances(k)) + MaxRetries
    BY <1>1, <2>1, PutChances
  <2>3. Quota(k) \in Nat /\ Quota(k)' >= Quota(k) + MaxRetries /\ Quota(k)' \in Nat
    BY <1>1, <2>1, QuotaType DEF Quota, TypeOK
  <2> QED BY <1>1, <2>1, <2>2, <2>3
<1>4. ASSUME NEW p \in Processes, Take(p)
      PROVE  /\ IsFiniteSet(Chances(k)')
             /\ posts'[k] + Cardinality(Chances(k)') <= Quota(k)'
  <2>1. UNCHANGED <<keys, posts, mishaps>>
    BY <1>4 DEF Take, historyVars
  <2> QED BY <1>1, <1>4, <2>1, TakeChances, QuotaType
<1>5. ASSUME NEW p \in Processes, Accepted(p) \/ Rejected(p)
      PROVE  /\ IsFiniteSet(Chances(k)')
             /\ posts'[k] + Cardinality(Chances(k)') <= Quota(k)'
  <2>1. /\ MayReach(p) /\ UNCHANGED <<keys, waiting, mishaps>>
        /\ \/ attempt' = [attempt EXCEPT ![p] = @ + 1] /\ UNCHANGED sending
           \/ Finish(p)
    BY <1>5 DEF Accepted, Rejected, Retry, MayReach
  <2>2. /\ IsFiniteSet(Chances(k)') /\ Cardinality(Chances(k)') \in Nat
        /\ posts'[k] + Cardinality(Chances(k)') <= posts[k] + Cardinality(Chances(k))
        /\ posts'[k] \in Nat
    BY <1>1, <2>1, RequestBalanced
  <2>3. Quota(k) \in Nat /\ Quota(k)' = Quota(k)
    BY <2>1, QuotaType
  <2> QED BY <1>1, <2>2, <2>3
<1>6. ASSUME NEW p \in Processes, DeliveryBreaks(p) \/ Crash(p)
      PROVE  /\ IsFiniteSet(Chances(k)')
             /\ posts'[k] + Cardinality(Chances(k)') <= Quota(k)'
  <2>1. /\ MayReach(p) /\ Finish(p) /\ UNCHANGED keys /\ mishaps' = mishaps + 1
        /\ waiting' \in {waiting, [waiting EXCEPT ![p] = <<>>]}
    BY <1>6 DEF DeliveryBreaks, Crash, Mishap
  <2>2. /\ IsFiniteSet(Chances(k)') /\ Cardinality(Chances(k)') \in Nat
        /\ posts'[k] + Cardinality(Chances(k)') <= posts[k] + Cardinality(Chances(k))
        /\ posts'[k] \in Nat
    BY <1>1, <2>1, RequestBalanced
  <2>3. Quota(k) \in Nat /\ Quota(k)' >= Quota(k) /\ Quota(k)' \in Nat
    BY <1>1, <2>1, QuotaType DEF Quota, TypeOK
  <2> QED BY <1>1, <2>2, <2>3
<1>7. CASE (\E p \in Processes, j \in Jobs : NotifySkipped(p, j)) \/ UNCHANGED vars
  <2>1. UNCHANGED <<keys, waiting, sending, attempt, posts, mishaps>>
    BY <1>7 DEF NotifySkipped, vars, historyVars
  <2>2. Chances(k)' = Chances(k)
    BY <2>1 DEF Chances, Taken, JobAt
  <2> QED BY <1>1, <2>1, <2>2, QuotaType
<1>8. ASSUME NEW j \in Jobs, KeyLapses(j)
      PROVE  /\ IsFiniteSet(Chances(k)')
             /\ posts'[k] + Cardinality(Chances(k)') <= Quota(k)'
  <2>1. UNCHANGED <<waiting, sending, attempt, posts>> /\ mishaps' = mishaps + 1
    BY <1>8 DEF KeyLapses, Mishap, historyVars
  <2>2. Chances(k)' = Chances(k)
    BY <2>1 DEF Chances, Taken, JobAt
  <2>3. Quota(k) \in Nat /\ Quota(k)' >= Quota(k) /\ Quota(k)' \in Nat
    BY <1>1, <2>1, QuotaType DEF Quota, TypeOK
  <2> QED BY <1>1, <2>1, <2>2, <2>3
<1> QED
  BY <1>2, <1>3, <1>4, <1>5, <1>6, <1>7, <1>8 DEF Next, Deliver

(* The receiver is called at most MaxRetries times for a job, and at most
   MaxRetries times more for every mishap: _deliver_with_retries never makes
   more attempts than it has, and the key in Redis lets a second delivery
   through only if it was lost or could not be read. *)
THEOREM CallsBounded == Spec => []PostsBounded
<1>1. Init => WithinQuota
  <2> SUFFICES ASSUME Init, NEW j \in Jobs
               PROVE  IsFiniteSet(Chances(j)) /\ posts[j] + Cardinality(Chances(j)) <= Quota(j)
    BY DEF WithinQuota
  <2>1. Chances(j) = {}
    BY DEF Init, Chances, Taken
  <2>2. posts[j] = 0 /\ Quota(j) = 0
    BY WebhookConstants DEF Init, Quota
  <2> QED BY <2>1, <2>2, FS_EmptySet
<1>2. TypeOK /\ WithinQuota /\ [Next]_vars => WithinQuota'
  BY StepWithinQuota
<1>3. TypeOK /\ WithinQuota => PostsBounded
  <2> SUFFICES ASSUME TypeOK, WithinQuota, NEW j \in Jobs
               PROVE  posts[j] <= MaxRetries * (mishaps + 1)
    BY DEF PostsBounded
  <2>1. posts[j] + Cardinality(Chances(j)) <= Quota(j) /\ posts[j] \in Nat
        /\ Cardinality(Chances(j)) \in Nat
    BY FS_CardinalityType DEF WithinQuota, TypeOK
  <2>2. /\ MaxRetries \in Nat /\ mishaps \in Nat
        /\ \A m, n \in Nat : MaxRetries * (m + n) = MaxRetries * m + MaxRetries * n
    BY WebhookConstants DEF TypeOK
  <2>3. /\ MaxRetries * 1 = MaxRetries /\ MaxRetries * 0 = 0
        /\ MaxRetries * mishaps \in Nat
    BY <2>2
  <2>4. /\ MaxRetries * (mishaps + 1) = MaxRetries * mishaps + MaxRetries
        /\ MaxRetries * (mishaps + 0) = MaxRetries * mishaps
    BY <2>2, <2>3
  <2>5. Quota(j) <= MaxRetries * (mishaps + 1) /\ Quota(j) \in Nat
        /\ MaxRetries * (mishaps + 1) \in Nat
    BY <2>2, <2>3, <2>4 DEF Quota
  <2> QED BY <2>1, <2>5
<1> QED
  BY <1>1, <1>2, <1>3, TypeCorrect, PTL DEF Spec
-----------------------------------------------------------------------------
(* What strands a notification *)

Holds(q, j) == \E i \in Nat : Taken(q, i) /\ JobAt(q, i) = j

Settled(j) == j \in sent \cup failed \cup refused

(* The processes of P lose nothing: a job on its way there still is, or
   something came of it; and a key newly taken has its notification. *)
Kept(P) ==
  /\ \A j \in Jobs : Settled(j) => Settled(j)'
  /\ \A j \in keys' \ keys : Settled(j)' \/ \E q \in Processes : Holds(q, j)'
  /\ \A q \in P, j \in Jobs : Holds(q, j) => Settled(j)' \/ Holds(q, j)'

(* Nothing comes of a job whose key is there, unless it is on its way. *)
NoneRevived ==
  \A j \in keys :
    /\ j \in keys'
    /\ Settled(j)' => Settled(j) \/ \E q \in Processes : Holds(q, j)
    /\ \A q \in Processes : Holds(q, j)' => Holds(q, j)

Located(j) ==
  /\ Places(j) \subseteq Processes \X (0 .. QueueSize)
  /\ \A q \in Processes : Holds(q, j) <=> \E i \in 0 .. QueueSize : <<q, i>> \in Places(j)

LEMMA PlacesHeld ==
  ASSUME TypeOK, NEW j \in Jobs PROVE Located(j)
<1>1. Places(j) \subseteq Processes \X (0 .. QueueSize)
  BY WebhookConstants DEF Places
<1>2. ASSUME NEW q \in Processes, NEW i \in Nat, Taken(q, i), JobAt(q, i) = j
      PROVE  i \in 0 .. QueueSize /\ <<q, i>> \in Places(j)
  <2>1. CASE i = 0
    BY <1>2, <2>1, WebhookConstants DEF JobAt, Places
  <2>2. CASE i # 0
    <3>1. i \in 1 .. QueueSize /\ i <= Len(waiting[q]) /\ waiting[q][i] = j
      BY <1>2, <2>2, WebhookConstants DEF Taken, JobAt, TypeOK
    <3> QED BY <3>1, WebhookConstants DEF Places
  <2> QED BY <2>1, <2>2
<1>3. ASSUME NEW q \in Processes, NEW i \in 0 .. QueueSize, <<q, i>> \in Places(j)
      PROVE  i \in Nat /\ Taken(q, i) /\ JobAt(q, i) = j
  BY <1>3, WebhookConstants DEF Places, Taken, JobAt, TypeOK
<1> QED
  BY <1>1, <1>2, <1>3 DEF Located, Holds

LEMMA PutHolds ==
  ASSUME TypeOK, NEW p \in Processes, NEW j \in Jobs, Put(p, j), UNCHANGED sending
  PROVE  /\ Holds(p, j)' \/ j \in refused'
         /\ refused \subseteq refused' /\ refused' \subseteq refused \cup {j}
         /\ \A q \in Processes, k \in Jobs : Holds(q, k) => Holds(q, k)'
         /\ \A q \in Processes, k \in Jobs \ {j} : Holds(q, k)' => Holds(q, k)
<1>1. CASE waiting' = [waiting EXCEPT ![p] = Append(@, j)] /\ UNCHANGED refused
  <2>1. /\ waiting[p] \in Seq(Jobs) /\ waiting'[p] = Append(waiting[p], j)
        /\ \A q \in Processes \ {p} : waiting'[q] = waiting[q]
    BY <1>1 DEF TypeOK
  <2>2. ASSUME NEW q \in Processes, NEW i \in Nat, Taken(q, i)
        PROVE  Taken(q, i)' /\ JobAt(q, i)' = JobAt(q, i)
    BY <2>1, <2>2 DEF Taken, JobAt
  <2>3. ASSUME NEW q \in Processes, NEW i \in Nat, Taken(q, i)', JobAt(q, i)' # j
        PROVE  Taken(q, i) /\ JobAt(q, i) = JobAt(q, i)'
    BY <2>1, <2>3 DEF Taken, JobAt
  <2>4. Holds(p, j)'
    <3>1. PICK n \in Nat \ {0} : n = Len(waiting'[p]) /\ waiting'[p][n] = j
      BY <2>1
    <3> QED BY <3>1 DEF Holds, Taken, JobAt
  <2>5. \A q \in Processes, k \in Jobs : Holds(q, k) => Holds(q, k)'
    BY <2>2 DEF Holds
  <2>6. \A q \in Processes, k \in Jobs \ {j} : Holds(q, k)' => Holds(q, k)
    BY <2>3 DEF Holds
  <2> QED BY <1>1, <2>4, <2>5, <2>6 DEF Settled
<1>2. CASE refused' = refused \cup {j} /\ UNCHANGED waiting
  <2>1. \A q, k : Holds(q, k)' <=> Holds(q, k)
    BY <1>2 DEF Holds, Taken, JobAt
  <2> QED BY <1>2, <2>1 DEF Settled
<1> QED
  BY <1>1, <1>2 DEF Put

LEMMA TakeHolds ==
  ASSUME TypeOK, NEW p \in Processes, Take(p)
  PROVE  \A q \in Processes, k \in Jobs : Holds(q, k)' <=> Holds(q, k)
<1>1. /\ sending[p] = Nothing /\ waiting[p] # <<>> /\ waiting[p] \in Seq(Jobs)
      /\ sending'[p] = Head(waiting[p]) /\ waiting'[p] = Tail(waiting[p])
      /\ \A q \in Processes \ {p} : sending'[q] = sending[q] /\ waiting'[q] = waiting[q]
  BY DEF Take, TypeOK
<1>2. /\ Len(waiting[p]) \in Nat \ {0} /\ Len(waiting'[p]) = Len(waiting[p]) - 1
      /\ sending'[p] = waiting[p][1] /\ sending'[p] \in Jobs
      /\ \A n \in 1 .. Len(waiting'[p]) : waiting'[p][n] = waiting[p][n + 1]
  BY <1>1
<1>3. ASSUME NEW q \in Processes, q # p, NEW k
      PROVE  Holds(q, k)' <=> Holds(q, k)
  BY <1>1, <1>3 DEF Holds, Taken, JobAt
<1>4. ASSUME NEW k, NEW i \in Nat, Taken(p, i), JobAt(p, i) = k
      PROVE  Holds(p, k)'
  <2>1. i \in 1 .. Len(waiting[p]) /\ waiting[p][i] = k
    BY <1>1, <1>4 DEF Taken, JobAt
  <2>2. CASE i = 1
    <3>1. Taken(p, 0)' /\ JobAt(p, 0)' = k
      BY <1>2, <2>1, <2>2, WebhookConstants DEF Taken, JobAt
    <3> QED BY <3>1 DEF Holds
  <2>3. CASE i # 1
    <3>1. PICK n \in Nat \ {0} : n = i - 1
      BY <2>1, <2>3
    <3>2. Taken(p, n)' /\ JobAt(p, n)' = k
      BY <1>2, <2>1, <3>1 DEF Taken, JobAt
    <3> QED BY <3>2 DEF Holds
  <2> QED BY <2>2, <2>3
<1>5. ASSUME NEW k, NEW i \in Nat, Taken(p, i)', JobAt(p, i)' = k
      PROVE  Holds(p, k)
  <2>1. i + 1 \in 1 .. Len(waiting[p]) /\ waiting[p][i + 1] = k
    BY <1>2, <1>5 DEF Taken, JobAt
  <2>2. PICK n \in Nat \ {0} : n = i + 1
    OBVIOUS
  <2>3. Taken(p, n) /\ JobAt(p, n) = k
    BY <2>1, <2>2 DEF Taken, JobAt
  <2> QED BY <2>3 DEF Holds
<1>6. ASSUME NEW k PROVE Holds(p, k)' <=> Holds(p, k)
  <2>1. Holds(p, k) => Holds(p, k)'
    <3> SUFFICES ASSUME Holds(p, k) PROVE Holds(p, k)'
      OBVIOUS
    <3>1. PICK i \in Nat : Taken(p, i) /\ JobAt(p, i) = k
      BY DEF Holds
    <3> QED BY <1>4, <3>1
  <2>2. Holds(p, k)' => Holds(p, k)
    <3> SUFFICES ASSUME Holds(p, k)' PROVE Holds(p, k)
      OBVIOUS
    <3>1. PICK i \in Nat : Taken(p, i)' /\ JobAt(p, i)' = k
      BY DEF Holds
    <3> QED BY <1>5, <3>1
  <2> QED BY <2>1, <2>2
<1> QED BY <1>3, <1>6

(* A delivery of p that ends or goes on, with or without what waits behind. *)
LEMMA EndHolds ==
  ASSUME TypeOK, NEW p \in Processes, sending' \in {sending, [sending EXCEPT ![p] = Nothing]},
         waiting' \in {waiting, [waiting EXCEPT ![p] = <<>>]}
  PROVE  /\ \A q \in Processes, k \in Jobs : Holds(q, k)' => Holds(q, k)
         /\ \A q \in Processes \ {p}, k \in Jobs : Holds(q, k) => Holds(q, k)'
         /\ waiting' = waiting => \A k \in Jobs : Holds(p, k) => k = sending[p] \/ Holds(p, k)'
         /\ waiting' = waiting /\ sending' = sending =>
              \A k \in Jobs : Holds(p, k) => Holds(p, k)'
<1>1. ASSUME NEW q \in Processes, NEW i \in Nat, Taken(q, i)'
      PROVE  Taken(q, i) /\ JobAt(q, i) = JobAt(q, i)'
  BY SMTT(30), <1>1 DEF Taken, JobAt, TypeOK
<1>2. ASSUME NEW q \in Processes \ {p}, NEW i \in Nat, Taken(q, i)
      PROVE  Taken(q, i)' /\ JobAt(q, i)' = JobAt(q, i)
  BY <1>2 DEF Taken, JobAt, TypeOK
<1>3. ASSUME waiting' = waiting, NEW i \in Nat, Taken(p, i), JobAt(p, i) # sending[p]
      PROVE  Taken(p, i)' /\ JobAt(p, i)' = JobAt(p, i)
  BY <1>3 DEF Taken, JobAt, TypeOK
<1>4. ASSUME waiting' = waiting, sending' = sending, NEW i \in Nat, Taken(p, i)
      PROVE  Taken(p, i)' /\ JobAt(p, i)' = JobAt(p, i)
  BY <1>4 DEF Taken, JobAt, TypeOK
<1> QED
  BY <1>1, <1>2, <1>3, <1>4 DEF Holds

LEMMA StepHolds ==
  ASSUME TypeOK, [Next]_vars
  PROVE  \/ Kept(Processes) /\ (Mishap \/ NoneRevived)
         \/ Mishap /\ \E p \in Processes : Kept(Processes \ {p})
<1>1. ASSUME NEW p \in Processes, NEW j \in Jobs, Put(p, j), UNCHANGED <<sending, sent, failed>>,
             keys' \in {keys, keys \cup {j}}
      PROVE  Kept(Processes) /\ ((j \notin keys /\ keys' = keys \cup {j}) => NoneRevived)
  <2>1. Holds(p, j)' \/ Settled(j)'
    BY <1>1, PutHolds DEF Settled
  <2>2. \A k \in Jobs : Settled(k) => Settled(k)'
    BY <1>1, PutHolds DEF Settled
  <2>3. Kept(Processes)
    BY <1>1, <2>1, <2>2, PutHolds DEF Kept
  <2>4. ASSUME j \notin keys, keys' = keys \cup {j}, NEW k \in keys
        PROVE  /\ k \in keys' /\ (Settled(k)' => Settled(k))
               /\ \A q \in Processes : Holds(q, k)' => Holds(q, k)
    BY <1>1, <2>4, PutHolds DEF Settled, TypeOK
  <2> QED BY <2>3, <2>4 DEF NoneRevived
<1>2. ASSUME UNCHANGED <<keys, waiting, sending, sent, failed, refused>>
      PROVE  Kept(Processes) /\ NoneRevived
  BY <1>2 DEF Kept, NoneRevived, Settled, Holds, Taken, JobAt
<1>3. ASSUME NEW p \in Processes, NEW j \in Jobs, Notify(p, j)
      PROVE  Kept(Processes) /\ NoneRevived
  BY <1>1, <1>3 DEF Notify, Acquire
<1>4. ASSUME NEW p \in Processes, NEW j \in Jobs, NotifySkipped(p, j)
      PROVE  Kept(Processes) /\ NoneRevived
  BY <1>2, <1>4 DEF NotifySkipped, historyVars
<1>5. ASSUME NEW p \in Processes, NEW j \in Jobs, NotifyUnchecked(p, j)
      PROVE  Kept(Processes) /\ Mishap
  BY <1>1, <1>5 DEF NotifyUnchecked
<1>6. ASSUME NEW p \in Processes, Take(p)
      PROVE  Kept(Processes) /\ NoneRevived
  <2>1. UNCHANGED <<keys, sent, failed, refused>>
    BY <1>6 DEF Take, historyVars
  <2>2. \A k : Settled(k)' <=> Settled(k)
    BY <2>1 DEF Settled
  <2> QED BY <1>6, <2>1, <2>2, TakeHolds DEF Kept, NoneRevived, TypeOK
<1>7. ASSUME NEW p \in Processes, Accepted(p) \/ Rejected(p)
      PROVE  Kept(Processes) /\ NoneRevived
  <2>1. PICK j \in Jobs : j = sending[p]
    BY <1>7 DEF Accepted, Rejected, TypeOK
  <2>2. /\ UNCHANGED <<keys, waiting, refused>>
        /\ \/ sending' = sending /\ UNCHANGED <<sent, failed>>
           \/ /\ sending' = [sending EXCEPT ![p] = Nothing]
              /\ sent' \cup failed' = sent \cup failed \cup {j}
    BY <1>7, <2>1 DEF Accepted, Rejected, Retry, Finish
  <2>3. Holds(p, j)
    <3>1. Taken(p, 0) /\ JobAt(p, 0) = j
      BY <2>1, WebhookConstants DEF Taken, JobAt
    <3> QED BY <3>1 DEF Holds
  <2>4. \A k : Settled(k)' => Settled(k) \/ k = j
    BY <2>2 DEF Settled
  <2>5. \A k : Settled(k) => Settled(k)'
    BY <2>2 DEF Settled
  <2>6. sending' # sending => Settled(j)'
    BY <2>2 DEF Settled
  <2>7. NoneRevived
    BY <2>2, <2>3, <2>4, EndHolds DEF NoneRevived, TypeOK
  <2>8. \A q \in Processes, k \in Jobs : Holds(q, k) => Settled(k)' \/ Holds(q, k)'
    BY <2>1, <2>2, <2>6, EndHolds
  <2>9. Kept(Processes)
    BY <2>2, <2>5, <2>8 DEF Kept
  <2> QED BY <2>7, <2>9
<1>8. ASSUME NEW p \in Processes, DeliveryBreaks(p) \/ Crash(p)
      PROVE  Mishap /\ Kept(Processes \ {p})
  <2>1. /\ Mishap /\ UNCHANGED <<keys, sent, failed, refused>>
        /\ sending' = [sending EXCEPT ![p] = Nothing]
        /\ waiting' \in {waiting, [waiting EXCEPT ![p] = <<>>]}
    BY <1>8 DEF DeliveryBreaks, Crash, Finish
  <2>2. \A k : Settled(k) => Settled(k)'
    BY <2>1 DEF Settled
  <2> QED BY <2>1, <2>2, EndHolds DEF Kept
<1>9. ASSUME NEW j \in Jobs, KeyLapses(j)
      PROVE  Kept(Processes) /\ Mishap
  <2>1. UNCHANGED <<waiting, sending, sent, failed, refused>> /\ keys' \subseteq keys /\ Mishap
    BY <1>9 DEF KeyLapses, historyVars
  <2> QED BY <2>1 DEF Kept, Settled, Holds, Taken, JobAt
<1>10. CASE UNCHANGED vars
  BY <1>2, <1>10 DEF vars, historyVars
<1> QED
  BY <1>3, <1>4, <1>5, <1>6, <1>7, <1>8, <1>9, <1>10 DEF Next, Deliver

LEMMA StrandedStep ==
  ASSUME TypeOK, [Next]_vars, NEW j \in Jobs, Located(j), Located(j)', Stranded(j)', ~Stranded(j)
  PROVE  /\ mishaps' > mishaps /\ Places(j) # {}
         /\ \E p \in Processes : Places(j) \subseteq {p} \X (0 .. QueueSize)
<1>1. Mishap => mishaps' > mishaps
  BY DEF Mishap, TypeOK
<1>2. j \in keys' /\ ~Settled(j)' /\ \A q \in Processes : ~Holds(q, j)'
  BY DEF Located, Stranded, Settled
<1>3. j \in keys => Settled(j) \/ \E q \in Processes : Holds(q, j)
  BY DEF Located, Stranded, Settled
<1>4. ~Kept(Processes)
  BY <1>2, <1>3 DEF Kept
<1>5. PICK p \in Processes : Mishap /\ Kept(Processes \ {p})
  BY <1>4, StepHolds
<1>6. PICK q \in Processes : Holds(q, j)
  BY <1>2, <1>3, <1>5 DEF Kept
<1>7. \A r \in Processes \ {p} : ~Holds(r, j)
  BY <1>2, <1>5 DEF Kept
<1>8. Places(j) # {}
  BY <1>6 DEF Located
<1>9. ASSUME NEW s \in Places(j) PROVE s \in {p} \X (0 .. QueueSize)
  <2>1. PICK r \in Processes, i \in 0 .. QueueSize : s = <<r, i>>
    BY DEF Located
  <2>2. r = p
    BY <1>7, <2>1 DEF Located
  <2> QED BY <2>1, <2>2
<1> QED
  BY <1>1, <1>5, <1>8, <1>9

LEMMA RevivedStep ==
  ASSUME TypeOK, [Next]_vars, NEW j \in Jobs, Located(j), Located(j)', Stranded(j), ~Stranded(j)'
  PROVE  mishaps' > mishaps
<1>1. Mishap => mishaps' > mishaps
  BY DEF Mishap, TypeOK
<1>2. j \in keys /\ ~Settled(j) /\ \A q \in Processes : ~Holds(q, j)
  BY DEF Located, Stranded, Settled
<1>3. j \in keys' => Settled(j)' \/ \E q \in Processes : Holds(q, j)'
  BY DEF Located, Stranded, Settled
<1>4. ~NoneRevived
  BY <1>2, <1>3 DEF NoneRevived
<1> QED
  BY <1>1, <1>4, StepHolds

(* For any number of processes, jobs, calls and failures: a notification is
   stranded only by a failure of the one process that holds it all, and comes
   back only if its key lapses or cannot be read. *)
THEOREM StrandedOnlyByMishap == Spec => StrandedByMishap
<1> DEFINE Moved ==
      \A j \in Jobs :
        /\ (Stranded(j)' /\ ~Stranded(j)) =>
             /\ mishaps' > mishaps /\ Places(j) # {}
             /\ \E p \in Processes : Places(j) \subseteq {p} \X (0 .. QueueSize)
        /\ (Stranded(j) /\ ~Stranded(j)') => mishaps' > mishaps
<1>1. TypeOK => \A j \in Jobs : Located(j)
  BY PlacesHeld
<1>2. ASSUME TypeOK, \A j \in Jobs : Located(j), \A j \in Jobs : Located(j)', [Next]_vars
      PROVE  Moved
  <2> SUFFICES ASSUME NEW j \in Jobs
               PROVE  /\ (Stranded(j)' /\ ~Stranded(j)) =>
                           /\ mishaps' > mishaps /\ Places(j) # {}
                           /\ \E p \in Processes : Places(j) \subseteq {p} \X (0 .. QueueSize)
                      /\ (Stranded(j) /\ ~Stranded(j)') => mishaps' > mishaps
    OBVIOUS
  <2>1. CASE Stranded(j)' /\ ~Stranded(j)
    BY <1>2, <2>1, StrandedStep
  <2>2. CASE Stranded(j) /\ ~Stranded(j)'
    BY <1>2, <2>2, RevivedStep
  <2> QED BY <2>1, <2>2
<1>3. TypeOK /\ (\A j \in Jobs : Located(j)) /\ (\A j \in Jobs : Located(j))' /\ [Next]_vars
        => [Moved]_vars
  BY <1>2
<1> QED
  BY <1>1, <1>3, TypeCorrect, PTL DEF StrandedByMishap, Spec
=============================================================================
