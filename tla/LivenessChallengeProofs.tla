----------------------- MODULE LivenessChallengeProofs -----------------------
(* Proofs about LivenessChallenge, for any number of processes, connections,
   requests and mishaps. *)
EXTENDS LivenessChallenge, FiniteSetTheorems, TLAPS

(* An open connection has a process and a challenge that was issued. *)
Served ==
  \A c \in Connections : pc[c] # "closed" => what[c] \in issued /\ proc[c] \in Processes

(* A marked challenge is never fresh again. *)
Closed == \A k \in marked : chal[k] # "fresh"

(* A token that was used and has lost its marker is over: it has expired, and
   no request is about to consume it. *)
Spent ==
  mishaps = 0 =>
    \A t \in Tokens :
      /\ uses[t] <= 1
      /\ (uses[t] = 1 /\ t \notin markers) =>
           token[t] = "expired" /\ \A r \in Requests : claiming[r] # t

IInv == TypeOK /\ Served /\ Closed /\ PermitsKept

-----------------------------------------------------------------------------
(* How many connections of p hold a permit. *)
Held(p) == Cardinality(Holding(p))

LEMMA HeldFinite ==
  \A p \in Processes : IsFiniteSet(Holding(p)) /\ Held(p) \in Nat
<1> TAKE p \in Processes
<1>1. Holding(p) \subseteq Connections
  BY DEF Holding
<1>2. IsFiniteSet(Holding(p))
  BY <1>1, ChallengeConstants, FS_Subset
<1> QED
  BY <1>2, FS_CardinalityType DEF Held

LEMMA HeldFinitePrimed ==
  \A p \in Processes : IsFiniteSet(Holding(p)') /\ Held(p)' \in Nat
<1> TAKE p \in Processes
<1>1. Holding(p)' \subseteq Connections
  BY DEF Holding
<1>2. IsFiniteSet(Holding(p)')
  BY <1>1, ChallengeConstants, FS_Subset
<1> QED
  BY <1>2, FS_CardinalityType DEF Held

(* A permit that is returned was held, so there is room for it, and the balance
   of every process stays what it was. *)
LEMMA Closing ==
  ASSUME IInv, NEW c \in Connections, NEW q \in Processes, c \in Holding(q), Close(c),
         mishaps' \in Nat, mishaps <= mishaps'
  PROVE  permits' \in [Processes -> 0 .. MaxConcurrent] /\ PermitsKept'
<1>1. q = proc[c] /\ permits[q] \in Nat /\ mishaps \in Nat /\ MaxConcurrent \in Nat
  BY ChallengeConstants DEF IInv, Served, TypeOK, Holding
<1>2. Holding(q)' = Holding(q) \ {c}
  BY <1>1 DEF Close, Hangup, Holding, IInv, TypeOK
<1>3. Held(q)' = Held(q) - 1 /\ Held(q) \in Nat /\ Held(q)' \in Nat
  BY <1>1, <1>2, HeldFinite, HeldFinitePrimed, FS_RemoveElement DEF Held
<1>4. permits' = [permits EXCEPT ![q] = permits[q] + 1]
  BY <1>1 DEF Close
<1>5. permits[q] + Held(q) <= MaxConcurrent /\ MaxConcurrent <= permits[q] + Held(q) + mishaps
  BY <1>1 DEF IInv, PermitsKept, Held
<1>6. permits[q] + 1 \in 0 .. MaxConcurrent
  BY <1>1, <1>3, <1>5
<1>7. permits' \in [Processes -> 0 .. MaxConcurrent]
  BY <1>4, <1>6 DEF IInv, TypeOK
<1>8. ASSUME NEW p \in Processes
      PROVE  /\ permits'[p] + Held(p)' <= MaxConcurrent
             /\ MaxConcurrent <= permits'[p] + Held(p)' + mishaps'
  <2>1. CASE p = q
    BY <1>1, <1>3, <1>4, <1>5, <2>1 DEF IInv, TypeOK
  <2>2. CASE p # q
    <3>1. Holding(p)' = Holding(p)
      BY <1>1, <2>2 DEF Close, Hangup, Holding, IInv, TypeOK
    <3>2. permits'[p] = permits[p] /\ permits[p] \in Nat
      BY <1>4, <2>2 DEF IInv, TypeOK
    <3>3. permits[p] + Held(p) <= MaxConcurrent /\ MaxConcurrent <= permits[p] + Held(p) + mishaps
      BY DEF IInv, PermitsKept, Held
    <3>4. Held(p)' = Held(p) /\ Held(p) \in Nat
      BY <3>1, HeldFinite DEF Held
    <3> QED BY <1>1, <3>2, <3>3, <3>4
  <2> QED BY <2>1, <2>2
<1> QED
  BY <1>7, <1>8 DEF PermitsKept, Held

(* A step that leaves permits and their holders alone keeps the balance. *)
LEMMA Holds ==
  ASSUME IInv, \A p \in Processes : Holding(p)' = Holding(p), permits' = permits,
         mishaps' \in Nat, mishaps <= mishaps'
  PROVE  PermitsKept'
<1> SUFFICES ASSUME NEW p \in Processes
             PROVE  /\ permits'[p] + Held(p)' <= MaxConcurrent
                    /\ MaxConcurrent <= permits'[p] + Held(p)' + mishaps'
  BY DEF PermitsKept, Held
<1>1. Held(p)' = Held(p) /\ Held(p) \in Nat /\ permits[p] \in Nat
  BY HeldFinite DEF Held, IInv, TypeOK
<1>2. mishaps \in Nat /\ MaxConcurrent \in Nat
  BY ChallengeConstants DEF IInv, TypeOK
<1> QED
  BY <1>1, <1>2 DEF IInv, PermitsKept, Held

(* A failed mark loses a permit, at the price of a mishap. *)
LEMMA Leaking ==
  ASSUME IInv, NEW c \in Connections, MarkFails(c)
  PROVE  PermitsKept'
<1>1. PICK q \in Processes : q = proc[c] /\ c \in Holding(q)
  BY DEF MarkFails, IInv, Served, Holding
<1>2. MaxConcurrent \in Nat /\ mishaps \in Nat /\ mishaps' = mishaps + 1 /\ permits' = permits
  BY ChallengeConstants DEF MarkFails, Mishap, IInv, TypeOK
<1> SUFFICES ASSUME NEW p \in Processes
             PROVE  /\ permits'[p] + Held(p)' <= MaxConcurrent
                    /\ MaxConcurrent <= permits'[p] + Held(p)' + mishaps'
  BY DEF PermitsKept, Held
<1>3. /\ permits[p] \in Nat /\ Held(p) \in Nat
      /\ permits[p] + Held(p) <= MaxConcurrent /\ MaxConcurrent <= permits[p] + Held(p) + mishaps
  BY HeldFinite DEF IInv, TypeOK, PermitsKept, Held
<1>4. CASE p = q
  <2>1. Holding(p)' = Holding(p) \ {c}
    BY <1>1, <1>4 DEF MarkFails, Hangup, Holding, IInv, TypeOK
  <2>2. Held(p)' = Held(p) - 1
    BY <1>1, <1>4, <2>1, HeldFinite, FS_RemoveElement DEF Held
  <2> QED BY <1>2, <1>3, <2>2, HeldFinitePrimed
<1>5. CASE p # q
  <2>1. Holding(p)' = Holding(p)
    BY <1>1, <1>5 DEF MarkFails, Hangup, Holding, IInv, TypeOK
  <2>2. Held(p)' = Held(p)
    BY <2>1 DEF Held
  <2> QED BY <1>2, <1>3, <2>2
<1> QED
  BY <1>4, <1>5

(* A permit that is taken is held. *)
LEMMA Acquiring ==
  ASSUME IInv, NEW c \in Connections, AcquirePermit(c)
  PROVE  permits' \in [Processes -> 0 .. MaxConcurrent] /\ PermitsKept'
<1>1. PICK q \in Processes : q = proc[c] /\ c \notin Holding(q)
  BY DEF AcquirePermit, IInv, Served, Holding
<1>2. MaxConcurrent \in Nat /\ mishaps \in Nat /\ mishaps' = mishaps
  BY ChallengeConstants DEF AcquirePermit, IInv, TypeOK
<1>3. permits[q] \in 1 .. MaxConcurrent /\ permits' = [permits EXCEPT ![q] = permits[q] - 1]
  BY <1>1, <1>2 DEF AcquirePermit, IInv, TypeOK
<1>4. permits' \in [Processes -> 0 .. MaxConcurrent]
  BY <1>2, <1>3 DEF IInv, TypeOK
<1> SUFFICES ASSUME NEW p \in Processes
             PROVE  /\ permits'[p] + Held(p)' <= MaxConcurrent
                    /\ MaxConcurrent <= permits'[p] + Held(p)' + mishaps'
  BY <1>4 DEF PermitsKept, Held
<1>5. /\ permits[p] \in Nat /\ Held(p) \in Nat
      /\ permits[p] + Held(p) <= MaxConcurrent /\ MaxConcurrent <= permits[p] + Held(p) + mishaps
  BY HeldFinite DEF IInv, TypeOK, PermitsKept, Held
<1>6. CASE p = q
  <2>1. Holding(p)' = Holding(p) \cup {c}
    BY <1>1, <1>6 DEF AcquirePermit, Goto, Holding, IInv, TypeOK
  <2>2. Held(p)' = Held(p) + 1
    <3>1. IsFiniteSet(Holding(p)) /\ c \notin Holding(p)
      BY <1>1, <1>6, HeldFinite
    <3>2. Cardinality(Holding(p) \cup {c}) = Cardinality(Holding(p)) + 1
      BY <3>1, FS_AddElement
    <3> QED BY <2>1, <3>2 DEF Held
  <2>3. permits'[p] = permits[p] - 1
    BY <1>3, <1>6 DEF IInv, TypeOK
  <2> QED BY <1>2, <1>5, <2>2, <2>3
<1>7. CASE p # q
  <2>1. Holding(p)' = Holding(p)
    BY <1>1, <1>7 DEF AcquirePermit, Goto, Holding, IInv, TypeOK
  <2>2. Held(p)' = Held(p)
    BY <2>1 DEF Held
  <2>3. permits'[p] = permits[p]
    BY <1>3, <1>7 DEF IInv, TypeOK
  <2> QED BY <1>2, <1>5, <2>2, <2>3
<1> QED
  BY <1>6, <1>7

(* A new process has all its permits, and no connections. *)
LEMMA Restarting ==
  ASSUME IInv, NEW q \in Processes, Restart(q)
  PROVE  PermitsKept'
<1>1. MaxConcurrent \in Nat /\ mishaps \in Nat /\ mishaps' = mishaps + 1
  BY ChallengeConstants DEF Restart, Mishap, IInv, TypeOK
<1> SUFFICES ASSUME NEW p \in Processes
             PROVE  /\ permits'[p] + Held(p)' <= MaxConcurrent
                    /\ MaxConcurrent <= permits'[p] + Held(p)' + mishaps'
  BY DEF PermitsKept, Held
<1>2. CASE p = q
  <2>1. \A c \in Connections : proc[c] = q => proc'[c] = None
    BY DEF Restart, Hangup
  <2>2. \A c \in Connections : proc[c] # q => proc'[c] = proc[c]
    BY DEF Restart, Hangup
  <2>3. Holding(p)' = {}
    BY <1>2, <2>1, <2>2, ChallengeConstants DEF Holding
  <2>4. Held(p)' = 0
    BY <2>3, FS_EmptySet DEF Held
  <2>5. permits'[p] = MaxConcurrent
    BY <1>2 DEF Restart, IInv, TypeOK
  <2> QED BY <1>1, <2>4, <2>5
<1>3. CASE p # q
  <2>1. Holding(p)' = Holding(p)
    BY <1>3, ChallengeConstants DEF Restart, Hangup, Holding, IInv, TypeOK
  <2>2. Held(p)' = Held(p) /\ Held(p) \in Nat
    BY <2>1, HeldFinite DEF Held
  <2>3. permits'[p] = permits[p] /\ permits[p] \in Nat
    BY <1>3 DEF Restart, IInv, TypeOK
  <2>4. permits[p] + Held(p) <= MaxConcurrent /\ MaxConcurrent <= permits[p] + Held(p) + mishaps
    BY DEF IInv, PermitsKept, Held
  <2> QED BY <1>1, <2>2, <2>3, <2>4
<1> QED
  BY <1>2, <1>3

-----------------------------------------------------------------------------
LEMMA Initially == Init => IInv
<1> SUFFICES ASSUME Init PROVE IInv
  OBVIOUS
<1>1. TypeOK /\ Served /\ Closed
  BY ChallengeConstants DEF Init, TypeOK, Served, Closed
<1>2. ASSUME NEW p \in Processes
      PROVE  permits[p] + Cardinality(Holding(p)) = MaxConcurrent
  <2>1. Holding(p) = {}
    BY DEF Init, Holding
  <2> QED BY <2>1, FS_EmptySet, ChallengeConstants DEF Init
<1>3. mishaps = 0 /\ MaxConcurrent \in Nat
  BY ChallengeConstants DEF Init
<1>4. PermitsKept
  BY <1>2, <1>3 DEF PermitsKept
<1> QED
  BY <1>1, <1>4 DEF IInv

(* Connections that hang up keep the types, and those that stay are served. *)
LEMMA HangingUp ==
  ASSUME IInv, NEW C \in SUBSET Connections, Hangup(C), issued' = issued
  PROVE  /\ pc' \in [Connections -> {"closed", "permit", "mark", "stream", "finish", "send"}]
         /\ proc' \in [Connections -> Processes \cup {None}]
         /\ what' \in [Connections -> Challenges \cup {None}]
         /\ made' \in [Connections -> Tokens \cup {None}]
         /\ Served'
BY DEF Hangup, IInv, TypeOK, Served

(* What every step that closes a stream does to connections and permits. *)
LEMMA Closes ==
  ASSUME IInv, NEW c \in Connections, pc[c] \in {"stream", "finish", "send"}, Close(c),
         issued' = issued, mishaps' \in {mishaps, mishaps + 1}
  PROVE  /\ pc' \in [Connections -> {"closed", "permit", "mark", "stream", "finish", "send"}]
         /\ proc' \in [Connections -> Processes \cup {None}]
         /\ what' \in [Connections -> Challenges \cup {None}]
         /\ made' \in [Connections -> Tokens \cup {None}]
         /\ permits' \in [Processes -> 0 .. MaxConcurrent]
         /\ Served' /\ PermitsKept'
<1>1. PICK q \in Processes : c \in Holding(q)
  BY DEF IInv, Served, Holding
<1>2. mishaps' \in Nat /\ mishaps <= mishaps'
  BY ChallengeConstants DEF IInv, TypeOK
<1>3. permits' \in [Processes -> 0 .. MaxConcurrent] /\ PermitsKept'
  BY <1>1, <1>2, Closing
<1>4. Hangup({c})
  BY DEF Close
<1> QED
  BY <1>3, <1>4, HangingUp

LEMMA Step == IInv /\ [Next]_vars => IInv'
<1> SUFFICES ASSUME IInv, [Next]_vars PROVE IInv'
  OBVIOUS
<1> USE DEF tokenVars, streamVars
<1>0. /\ TypeOK /\ Served /\ Closed /\ PermitsKept
      /\ mishaps \in Nat /\ mishaps <= mishaps
      /\ MaxMishaps \in Nat
  BY ChallengeConstants DEF IInv, TypeOK
<1>1. ASSUME Mishap PROVE mishaps' \in 0 .. MaxMishaps /\ mishaps' = mishaps + 1
  BY <1>0, <1>1 DEF Mishap, TypeOK
<1>2. ASSUME NEW k \in Challenges, InitChallenge(k) PROVE IInv'
  <2>1. TypeOK' /\ Served' /\ Closed'
    BY <1>0, <1>2 DEF InitChallenge, TypeOK, Served, Closed
  <2>2. PermitsKept'
    BY <1>0, <1>2, Holds DEF InitChallenge, Holding
  <2> QED BY <2>1, <2>2 DEF IInv
<1>3. ASSUME NEW k \in Challenges, ChallengeLapses(k) PROVE IInv'
  <2>1. TypeOK' /\ Served' /\ Closed'
    BY <1>0, <1>3 DEF ChallengeLapses, TypeOK, Served, Closed
  <2>2. PermitsKept'
    BY <1>0, <1>3, Holds DEF ChallengeLapses, Holding
  <2> QED BY <2>1, <2>2 DEF IInv
<1>4. ASSUME NEW c \in Connections, NEW p \in Processes, NEW k \in Challenges, Open(c, p, k)
      PROVE  IInv'
  <2>1. TypeOK' /\ Served' /\ Closed'
    BY <1>0, <1>4 DEF Open, TypeOK, Served, Closed
  <2>2. \A q \in Processes : Holding(q)' = Holding(q)
    BY <1>0, <1>4 DEF Open, Holding, TypeOK
  <2>3. PermitsKept'
    BY <1>0, <1>4, <2>2, Holds DEF Open
  <2> QED BY <2>1, <2>3 DEF IInv
<1>5. ASSUME NEW c \in Connections, AcquirePermit(c) PROVE IInv'
  <2>1. permits' \in [Processes -> 0 .. MaxConcurrent] /\ PermitsKept'
    BY <1>5, Acquiring
  <2>2. TypeOK' /\ Served' /\ Closed'
    BY <1>0, <1>5, <2>1 DEF AcquirePermit, Goto, TypeOK, Served, Closed
  <2> QED BY <2>1, <2>2 DEF IInv
<1>6. ASSUME NEW c \in Connections, Busy(c) PROVE IInv'
  <2>1. TypeOK' /\ Served' /\ Closed'
    BY <1>0, <1>6, HangingUp DEF Busy, TypeOK, Closed
  <2>2. \A q \in Processes : Holding(q)' = Holding(q)
    BY <1>0, <1>6 DEF Busy, Hangup, Holding, TypeOK
  <2>3. PermitsKept'
    BY <1>0, <1>6, <2>2, Holds DEF Busy
  <2> QED BY <2>1, <2>3 DEF IInv
<1>7. ASSUME NEW c \in Connections, Mark(c) PROVE IInv'
  <2>1. what[c] \in issued /\ issued \subseteq Challenges
    BY <1>0, <1>7 DEF Mark, Served, TypeOK
  <2>2. TypeOK' /\ Served' /\ Closed'
    BY <1>0, <1>7, <2>1 DEF Mark, SetStreaming, Goto, TypeOK, Served, Closed
  <2>3. \A q \in Processes : Holding(q)' = Holding(q)
    BY <1>0, <1>7 DEF Mark, Goto, Holding, TypeOK
  <2>4. PermitsKept'
    BY <1>0, <1>7, <2>3, Holds DEF Mark
  <2> QED BY <2>2, <2>4 DEF IInv
<1>8. ASSUME NEW c \in Connections, MarkFails(c) PROVE IInv'
  <2>1. what[c] \in issued /\ issued \subseteq Challenges
    BY <1>0, <1>8 DEF MarkFails, Served, TypeOK
  <2>2. /\ chal' \in [Challenges -> {"none", "fresh", "streaming", "used"}]
        /\ marked' \subseteq issued
        /\ Closed'
    BY <1>0, <1>8, <2>1 DEF MarkFails, SetStreaming, TypeOK, Closed
  <2>3. TypeOK' /\ Served'
    BY <1>0, <1>1, <1>8, <2>2, HangingUp DEF MarkFails, TypeOK
  <2> QED BY <1>8, <2>2, <2>3, Leaking DEF IInv
<1>9. ASSUME NEW c \in Connections, NEW t \in Tokens, Live(c, t) PROVE IInv'
  <2>1. TypeOK' /\ Served' /\ Closed'
    BY <1>0, <1>9 DEF Live, Goto, TypeOK, Served, Closed
  <2>2. \A q \in Processes : Holding(q)' = Holding(q)
    BY <1>0, <1>9 DEF Live, Goto, Holding, TypeOK
  <2>3. PermitsKept'
    BY <1>0, <1>9, <2>2, Holds DEF Live
  <2> QED BY <2>1, <2>3 DEF IInv
<1>10. ASSUME NEW c \in Connections, NotLive(c) PROVE IInv'
  <2>1. TypeOK' /\ Served' /\ Closed'
    BY <1>0, <1>10 DEF NotLive, Goto, TypeOK, Served, Closed
  <2>2. \A q \in Processes : Holding(q)' = Holding(q)
    BY <1>0, <1>10 DEF NotLive, Goto, Holding, TypeOK
  <2>3. PermitsKept'
    BY <1>0, <1>10, <2>2, Holds DEF NotLive
  <2> QED BY <2>1, <2>3 DEF IInv
<1>11. ASSUME NEW c \in Connections, NEW t \in Tokens, IssueFails(c, t) PROVE IInv'
  <2>1. token' \in [Tokens -> {"none", "valid", "expired"}] /\ Closed'
    BY <1>0, <1>11 DEF IssueFails, TypeOK, Closed
  <2>2. TypeOK' /\ Served' /\ PermitsKept'
    BY <1>0, <1>1, <1>11, <2>1, Closes DEF IssueFails, TypeOK
  <2> QED BY <2>1, <2>2 DEF IInv
<1>12. ASSUME NEW c \in Connections, Disconnect(c) PROVE IInv'
  <2>1. Closed'
    BY <1>0, <1>12 DEF Disconnect, Closed
  <2>2. TypeOK' /\ Served' /\ PermitsKept'
    BY <1>0, <1>12, Closes DEF Disconnect, TypeOK
  <2> QED BY <2>1, <2>2 DEF IInv
<1>13. ASSUME NEW c \in Connections, Finish(c) PROVE IInv'
  <2>1. TypeOK' /\ Served' /\ Closed'
    BY <1>0, <1>13 DEF Finish, Goto, TypeOK, Served, Closed
  <2>2. \A q \in Processes : Holding(q)' = Holding(q)
    BY <1>0, <1>13 DEF Finish, Goto, Holding, TypeOK
  <2>3. PermitsKept'
    BY <1>0, <1>13, <2>2, Holds DEF Finish
  <2> QED BY <2>1, <2>3 DEF IInv
<1>14. ASSUME NEW c \in Connections, FinishFails(c) PROVE IInv'
  <2>1. chal' \in [Challenges -> {"none", "fresh", "streaming", "used"}] /\ Closed'
    BY <1>0, <1>14 DEF FinishFails, TypeOK, Closed
  <2>2. TypeOK' /\ Served' /\ PermitsKept'
    BY <1>0, <1>1, <1>14, <2>1, Closes DEF FinishFails, TypeOK
  <2> QED BY <2>1, <2>2 DEF IInv
<1>15. ASSUME NEW c \in Connections, SendResult(c) PROVE IInv'
  <2>1. told' \subseteq Tokens /\ Closed'
    BY <1>0, <1>15 DEF SendResult, TypeOK, Closed
  <2>2. TypeOK' /\ Served' /\ PermitsKept'
    BY <1>0, <1>15, <2>1, Closes DEF SendResult, TypeOK
  <2> QED BY <2>1, <2>2 DEF IInv
<1>16. ASSUME NEW p \in Processes, Restart(p) PROVE IInv'
  <2>1. permits' \in [Processes -> 0 .. MaxConcurrent] /\ Closed'
    BY <1>0, <1>16, ChallengeConstants DEF Restart, TypeOK, Closed
  <2>2. {c \in Connections : proc[c] = p} \in SUBSET Connections
    OBVIOUS
  <2>3. TypeOK' /\ Served'
    BY <1>0, <1>1, <1>16, <2>1, <2>2, HangingUp DEF Restart, TypeOK
  <2> QED BY <1>16, <2>1, <2>3, Restarting DEF IInv
<1>17. ASSUME UNCHANGED <<chal, issued, marked, permits, pc, proc, what, made>>,
              mishaps' \in 0 .. MaxMishaps, mishaps <= mishaps'
       PROVE  Served' /\ Closed' /\ PermitsKept'
  <2>1. PermitsKept'
    BY <1>0, <1>17, Holds DEF Holding
  <2> QED BY <1>0, <1>17, <2>1 DEF Served, Closed
<1>18. ASSUME NEW r \in Requests, Claim(r) PROVE IInv'
  <2>1. TypeOK'
    BY <1>0, <1>18 DEF Claim, TypeOK
  <2> QED BY <1>0, <1>17, <1>18, <2>1 DEF Claim, IInv, TypeOK
<1>19. ASSUME NEW r \in Requests, ClaimFails(r) PROVE IInv'
  <2>1. TypeOK' /\ mishaps <= mishaps'
    BY <1>0, <1>1, <1>19 DEF ClaimFails, TypeOK
  <2> QED BY <1>17, <1>19, <2>1 DEF ClaimFails, IInv, TypeOK
<1>20. ASSUME NEW r \in Requests, NEW t \in Tokens, Present(r, t) PROVE IInv'
  <2>1. TypeOK'
    BY <1>0, <1>20 DEF Present, TypeOK
  <2> QED BY <1>0, <1>17, <1>20, <2>1 DEF Present, IInv, TypeOK
<1>21. ASSUME NEW t \in Tokens, TokenLapses(t) PROVE IInv'
  <2>1. TypeOK'
    BY <1>0, <1>21 DEF TokenLapses, TypeOK
  <2> QED BY <1>0, <1>17, <1>21, <2>1 DEF TokenLapses, IInv, TypeOK
<1>22. ASSUME NEW t \in Tokens, MarkerLapses(t) PROVE IInv'
  <2>1. TypeOK' /\ mishaps <= mishaps'
    BY <1>0, <1>1, <1>22 DEF MarkerLapses, TypeOK
  <2> QED BY <1>17, <1>22, <2>1 DEF MarkerLapses, IInv, TypeOK
<1>23. ASSUME UNCHANGED vars PROVE IInv'
  BY <1>0, <1>17, <1>23 DEF vars, IInv, TypeOK
<1> QED
  BY <1>2, <1>3, <1>4, <1>5, <1>6, <1>7, <1>8, <1>9, <1>10, <1>11, <1>12, <1>13, <1>14,
     <1>15, <1>16, <1>18, <1>19, <1>20, <1>21, <1>22, <1>23 DEF Next, Serve, Break

THEOREM Invariance == Spec => []IInv
BY Initially, Step, PTL DEF Spec

(* Type correctness: among others, a semaphore never has more permits than it
   was created with, so nobody returns a permit that was not taken. *)
THEOREM TypeCorrect == Spec => []TypeOK
<1>1. IInv => TypeOK
  BY DEF IInv
<1> QED
  BY <1>1, Invariance, PTL

(* Every stream returns its permit exactly once, but for the mishaps. *)
THEOREM Permits == Spec => []PermitsKept
<1>1. IInv => PermitsKept
  BY DEF IInv
<1> QED
  BY <1>1, Invariance, PTL

(* No connection gets through that arrives after a challenge was marked, however
   many streams write its state and whatever fails. *)
THEOREM LateRefused == Spec => LateConnectionsRefused
<1>1. IInv /\ [Next]_vars =>
        [\A c \in Connections :
           (pc[c] = "closed" /\ pc'[c] # "closed") => what'[c] \notin marked]_vars
  <2> SUFFICES ASSUME IInv, Next, NEW c \in Connections, pc[c] = "closed", pc'[c] # "closed"
               PROVE  what'[c] \notin marked
    BY DEF vars
  <2> USE DEF IInv, TypeOK
  <2>1. ASSUME NEW d \in Connections, NEW p \in Processes, NEW k \in Challenges, Open(d, p, k)
        PROVE  what'[c] \notin marked
    BY <2>1 DEF Open, Closed
  <2>2. ASSUME NEW C \in SUBSET Connections, Hangup(C) PROVE FALSE
    BY <2>2 DEF Hangup
  <2>3. ASSUME NEW d \in Connections, pc[d] # "closed", NEW stage, Goto(d, stage) PROVE FALSE
    BY <2>3 DEF Goto
  <2>4. ASSUME NEW d \in Connections, Serve(d) PROVE FALSE
    BY <2>2, <2>3, <2>4 DEF Serve, AcquirePermit, Busy, Mark, Live, NotLive, Finish,
       SendResult, Close
  <2>5. ASSUME NEW d \in Connections, Break(d) PROVE FALSE
    BY <2>2, <2>5 DEF Break, MarkFails, IssueFails, Disconnect, FinishFails, Close
  <2>6. ASSUME NEW p \in Processes, Restart(p) PROVE FALSE
    BY <2>2, <2>6 DEF Restart
  <2> QED
    BY <2>1, <2>4, <2>5, <2>6 DEF Next, InitChallenge, ChallengeLapses, Claim, ClaimFails,
       Present, TokenLapses, MarkerLapses, streamVars
<1> QED
  BY <1>1, Invariance, PTL DEF LateConnectionsRefused, Spec

(* A token is consumed once, however its expiry and that of its marker fall
   between the steps of the requests that present it. *)
THEOREM UsedOnce == Spec => []TokenUsedOnce
<1>1. Init => Spent
  BY DEF Init, Spent
<1>2. TypeOK /\ Spent /\ [Next]_vars => Spent'
  <2> SUFFICES ASSUME TypeOK, Spent, [Next]_vars, mishaps' = 0, NEW t \in Tokens
               PROVE  /\ uses'[t] <= 1
                      /\ (uses'[t] = 1 /\ t \notin markers') =>
                           token'[t] = "expired" /\ \A r \in Requests : claiming'[r] # t
    BY DEF Spent
  <2> USE DEF TypeOK, tokenVars
  <2>1. ~Mishap
    BY ChallengeConstants DEF Mishap
  <2>2. CASE UNCHANGED <<mishaps, token, uses, markers, claiming>>
    BY <2>2 DEF Spent
  <2>3. ASSUME NEW c \in Connections, NEW u \in Tokens, Live(c, u)
        PROVE  /\ uses'[t] <= 1
               /\ (uses'[t] = 1 /\ t \notin markers') =>
                    token'[t] = "expired" /\ \A r \in Requests : claiming'[r] # t
    BY <2>3 DEF Live, Spent
  <2>4. ASSUME NEW r \in Requests, Claim(r)
        PROVE  /\ uses'[t] <= 1
               /\ (uses'[t] = 1 /\ t \notin markers') =>
                    token'[t] = "expired" /\ \A q \in Requests : claiming'[q] # t
    <3>1. mishaps = 0 /\ claiming[r] \in Tokens
      BY <2>4 DEF Claim
    <3>2. CASE claiming[r] # t
      BY <2>4, <3>1, <3>2, ChallengeConstants DEF Claim, Spent
    <3>3. CASE claiming[r] = t
      BY <2>4, <3>1, <3>3, ChallengeConstants DEF Claim, Spent
    <3> QED BY <3>2, <3>3
  <2>5. ASSUME NEW r \in Requests, NEW u \in Tokens, Present(r, u)
        PROVE  /\ uses'[t] <= 1
               /\ (uses'[t] = 1 /\ t \notin markers') =>
                    token'[t] = "expired" /\ \A q \in Requests : claiming'[q] # t
    BY <2>5 DEF Present, Spent
  <2>6. ASSUME NEW u \in Tokens, TokenLapses(u)
        PROVE  /\ uses'[t] <= 1
               /\ (uses'[t] = 1 /\ t \notin markers') =>
                    token'[t] = "expired" /\ \A q \in Requests : claiming'[q] # t
    BY <2>6 DEF TokenLapses, Spent
  <2>7. ASSUME NEW u \in Tokens, MarkerLapses(u)
        PROVE  /\ uses'[t] <= 1
               /\ (uses'[t] = 1 /\ t \notin markers') =>
                    token'[t] = "expired" /\ \A q \in Requests : claiming'[q] # t
    BY <2>1, <2>7 DEF MarkerLapses, Spent
  <2> QED
    BY <2>1, <2>2, <2>3, <2>4, <2>5, <2>6, <2>7 DEF Next, Serve, Break, InitChallenge,
       ChallengeLapses, Open, AcquirePermit, Busy, Mark, MarkFails, NotLive, IssueFails,
       Disconnect, Finish, FinishFails, SendResult, Restart, ClaimFails, vars
<1>3. Spent => TokenUsedOnce
  BY DEF Spent, TokenUsedOnce
<1>4. IInv => TypeOK
  BY DEF IInv
<1> QED
  BY <1>1, <1>2, <1>3, <1>4, Invariance, PTL DEF Spec
=============================================================================
