------------------------------- MODULE Webhooks -------------------------------
(***************************************************************************)
(* Webhook notifications about finished verifications.  Each process puts  *)
(* accepted notifications on a bounded queue of its own; a background task *)
(* posts them one at a time to the receiver and retries.  The Redis key    *)
(* webhook:sent:{job} lets one call per job through, from any process.     *)
(***************************************************************************)
EXTENDS Naturals, Sequences, FiniteSets

CONSTANTS
  Jobs,          \* jobs to notify about
  Processes,     \* processes with a WebhookService: API and workers
  Nothing,       \* no job being delivered
  QueueSize,     \* WEBHOOK_QUEUE_SIZE
  MaxRetries,    \* WEBHOOK_MAX_RETRIES
  MaxCalls,      \* bound on the notify calls of a behaviour
  MaxMishaps     \* bound on the mishaps of a behaviour

ASSUME WebhookConstants ==
  /\ Nothing \notin Jobs
  /\ {QueueSize, MaxRetries} \subseteq Nat \ {0}
  /\ {MaxCalls, MaxMishaps} \subseteq Nat

VARIABLES
  keys,      \* Redis: jobs whose idempotency key is set
  waiting,   \* per process: WebhookService._queue
  sending,   \* per process: the job _deliver_with_retries is busy with
  attempt,   \* per process: which attempt is next
  posts,     \* history: POST requests that reached the receiver, per job
  sent,      \* history: jobs whose delivery ended with a 2xx answer
  failed,    \* history: jobs given up after the last attempt
  refused,   \* history: jobs refused by a full queue
  calls,     \* notify calls so far
  mishaps    \* mishaps so far

historyVars == <<posts, sent, failed, refused>>
vars == <<keys, waiting, sending, attempt, historyVars, calls, mishaps>>

TypeOK ==
  /\ keys \subseteq Jobs
  /\ waiting \in [Processes -> Seq(Jobs)]
  /\ \A p \in Processes : Len(waiting[p]) <= QueueSize
  /\ sending \in [Processes -> Jobs \cup {Nothing}]
  /\ attempt \in [Processes -> 1 .. MaxRetries]
  /\ posts \in [Jobs -> Nat]
  /\ sent \subseteq Jobs /\ failed \subseteq Jobs /\ refused \subseteq Jobs
  /\ calls \in 0 .. MaxCalls
  /\ mishaps \in 0 .. MaxMishaps

Init ==
  /\ keys = {}
  /\ waiting = [p \in Processes |-> <<>>]
  /\ sending = [p \in Processes |-> Nothing]
  /\ attempt = [p \in Processes |-> 1]
  /\ posts = [j \in Jobs |-> 0]
  /\ sent = {} /\ failed = {} /\ refused = {}
  /\ calls = 0
  /\ mishaps = 0

Mishap == mishaps < MaxMishaps /\ mishaps' = mishaps + 1

(* Mutant of Put: the queue is created without its bound. *)
PutUnbounded(p, j) ==
  /\ waiting' = [waiting EXCEPT ![p] = Append(@, j)]
  /\ UNCHANGED refused

(* Mutant of Put: the oldest notification makes room. *)
PutDroppingOldest(p, j) ==
  /\ waiting' = [waiting EXCEPT ![p] = IF Len(@) < QueueSize THEN Append(@, j)
                                       ELSE Append(Tail(@), j)]
  /\ UNCHANGED refused

(* put_nowait; QueueFull drops the notification. *)
Put(p, j) ==
  IF Len(waiting[p]) < QueueSize
  THEN waiting' = [waiting EXCEPT ![p] = Append(@, j)] /\ UNCHANGED refused
  ELSE refused' = refused \cup {j} /\ UNCHANGED waiting

(* Mutant of Acquire: SET without NX always succeeds. *)
AcquireAlways(j) == keys' = keys \cup {j}

(* SET NX of the key, taken. *)
Acquire(j) == j \notin keys /\ keys' = keys \cup {j}

(* notify: no await between taking the key and the queue.  Every caller has a
   running event loop, so notify_sync never delivers without the queue. *)
Notify(p, j) ==
  /\ calls < MaxCalls /\ calls' = calls + 1
  /\ Acquire(j)
  /\ Put(p, j)
  /\ UNCHANGED <<sending, attempt, posts, sent, failed, mishaps>>

(* The key is there: the call is a duplicate and skipped. *)
NotifySkipped(p, j) ==
  /\ calls < MaxCalls /\ calls' = calls + 1
  /\ j \in keys
  /\ UNCHANGED <<keys, waiting, sending, attempt, historyVars, mishaps>>

(* Redis fails: rather a duplicate than a loss.  The key may have been set. *)
NotifyUnchecked(p, j) ==
  /\ calls < MaxCalls /\ calls' = calls + 1
  /\ Mishap
  /\ keys' \in {keys, keys \cup {j}}
  /\ Put(p, j)
  /\ UNCHANGED <<sending, attempt, posts, sent, failed>>

(* _run takes the oldest notification. *)
Take(p) ==
  /\ sending[p] = Nothing /\ waiting[p] # <<>>
  /\ sending' = [sending EXCEPT ![p] = Head(waiting[p])]
  /\ waiting' = [waiting EXCEPT ![p] = Tail(waiting[p])]
  /\ attempt' = [attempt EXCEPT ![p] = 1]
  /\ UNCHANGED <<keys, historyVars, calls, mishaps>>

Finish(p) ==
  /\ sending' = [sending EXCEPT ![p] = Nothing]
  /\ attempt' = [attempt EXCEPT ![p] = 1]

Reaches(j) == posts' = [posts EXCEPT ![j] = @ + 1]

(* The request in progress, if any, may have reached the receiver. *)
MayReach(p) ==
  \/ sending[p] # Nothing /\ Reaches(sending[p])
  \/ UNCHANGED posts

(* Mutant of Accepted: the loop goes on after a success. *)
AcceptedOnward(p) ==
  LET j == sending[p] IN
  /\ j # Nothing
  /\ Reaches(j)
  /\ sent' = sent \cup {j}
  /\ IF attempt[p] < MaxRetries
     THEN attempt' = [attempt EXCEPT ![p] = @ + 1] /\ UNCHANGED sending
     ELSE Finish(p)
  /\ UNCHANGED <<keys, waiting, failed, refused, calls, mishaps>>

(* A 2xx answer ends the delivery. *)
Accepted(p) ==
  LET j == sending[p] IN
  /\ j # Nothing
  /\ Reaches(j)
  /\ sent' = sent \cup {j}
  /\ Finish(p)
  /\ UNCHANGED <<keys, waiting, failed, refused, calls, mishaps>>

(* Mutant of Retry: some answers are final, and nobody notes that. *)
RetryOrDrop(p) ==
  \/ /\ attempt[p] < MaxRetries
     /\ attempt' = [attempt EXCEPT ![p] = @ + 1]
     /\ UNCHANGED <<sending, failed>>
  \/ Finish(p) /\ UNCHANGED failed

(* After a failure comes the next attempt, or the delivery is given up. *)
Retry(p) ==
  IF attempt[p] < MaxRetries
  THEN attempt' = [attempt EXCEPT ![p] = @ + 1] /\ UNCHANGED <<sending, failed>>
  ELSE Finish(p) /\ failed' = failed \cup {sending[p]}

(* Another status, a timeout or a connection error: the receiver may have got
   the request. *)
Rejected(p) ==
  /\ sending[p] # Nothing
  /\ MayReach(p)
  /\ Retry(p)
  /\ UNCHANGED <<keys, waiting, sent, refused, calls, mishaps>>

(* Any other exception is logged by _run, which goes on with the next one. *)
DeliveryBreaks(p) ==
  /\ sending[p] # Nothing /\ Mishap
  /\ MayReach(p)
  /\ Finish(p)
  /\ UNCHANGED <<keys, waiting, sent, failed, refused, calls>>

(* The process ends: its queue is lost, the keys are not. *)
Crash(p) ==
  /\ Mishap
  /\ waiting' = [waiting EXCEPT ![p] = <<>>]
  /\ MayReach(p)
  /\ Finish(p)
  /\ UNCHANGED <<keys, sent, failed, refused, calls>>

(* WEBHOOK_IDEMPOTENCY_TTL_S is over. *)
KeyLapses(j) ==
  /\ j \in keys /\ Mishap
  /\ keys' = keys \ {j}
  /\ UNCHANGED <<waiting, sending, attempt, historyVars, calls>>

Deliver(p) == Take(p) \/ Accepted(p) \/ Rejected(p)

Next ==
  \/ \E p \in Processes :
       \/ \E j \in Jobs : Notify(p, j) \/ NotifySkipped(p, j) \/ NotifyUnchecked(p, j)
       \/ Deliver(p) \/ DeliveryBreaks(p) \/ Crash(p)
  \/ \E j \in Jobs : KeyLapses(j)

Spec == Init /\ [][Next]_vars

(* The background task of each process is run by its event loop; every attempt
   ends, if only by its timeout. *)
FairSpec == Spec /\ \A p \in Processes : WF_vars(Deliver(p))

-----------------------------------------------------------------------------
Places(j) ==
  {<<p, 0>> : p \in {q \in Processes : sending[q] = j}} \cup
  {s \in Processes \X (1 .. QueueSize) :
     s[2] <= Len(waiting[s[1]]) /\ waiting[s[1]][s[2]] = j}

(* A job is on its way in one process only, whoever else calls notify for it. *)
SingleDelivery ==
  mishaps = 0 => \A j \in Jobs : Cardinality(Places(j)) <= 1

(* The receiver sees a job at most MaxRetries times; every failure of Redis and
   every lapsed key can add one more delivery. *)
PostsBounded == \A j \in Jobs : posts[j] <= MaxRetries * (mishaps + 1)

(* Once the receiver has accepted a job it is not bothered with it again. *)
QuietAfterSuccess ==
  [][\A j \in Jobs : (j \in sent /\ mishaps = 0) => posts'[j] = posts[j]]_vars

(* A notification that was let through and is not on its way any more was
   delivered, given up after all attempts, or refused by a full queue. *)
Accounted ==
  mishaps = 0 => \A j \in keys : Places(j) # {} \/ j \in sent \cup failed \cup refused

(* The key of a job says that it was notified about, but nothing came of the
   notification and none is on its way. *)
Stranded(j) == j \in keys /\ Places(j) = {} /\ j \notin sent \cup failed \cup refused

(* The key is in Redis, the queue in memory.  A notification is stranded only
   by a failure of the one process that holds it all; and then no later call
   of notify, whoever makes it, brings it back, as long as its key is there
   and can be read. *)
StrandedByMishap ==
  [][\A j \in Jobs :
       /\ (Stranded(j)' /\ ~Stranded(j)) =>
            /\ mishaps' > mishaps /\ Places(j) # {}
            /\ \E p \in Processes : Places(j) \subseteq {p} \X (0 .. QueueSize)
       /\ (Stranded(j) /\ ~Stranded(j)') => mishaps' > mishaps]_vars

(* A slow or dead receiver holds up the queue, but every notification is
   settled in the end. *)
Settles ==
  \A j \in Jobs : j \in keys ~> (j \in sent \cup failed \cup refused \/ mishaps > 0)
=============================================================================
