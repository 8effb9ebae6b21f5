-------------------------- MODULE LivenessChallenge --------------------------
(***************************************************************************)
(* The active liveness challenge: POST /liveness/challenge/init stores a   *)
(* challenge in Redis, the WebSocket /liveness/challenge/stream judges the *)
(* frames a client streams for it and issues a token, and a verification   *)
(* request consumes the token.  API processes share Redis; the semaphore   *)
(* that limits parallel streams is private to each of them.                *)
(*                                                                         *)
(* Frames are abstracted to their verdict.  Mishaps (failed commands, dead *)
(* processes, a request that stalls for a whole TTL) are bounded by        *)
(* MaxMishaps.                                                             *)
(***************************************************************************)
EXTENDS Naturals, FiniteSets

CONSTANTS
  Challenges,     \* challenge ids, each a fresh UUID
  Connections,    \* WebSocket connections that can be open at once
  Requests,       \* verification requests that can be in progress at once
  Tokens,         \* liveness tokens, each a fresh UUID
  Processes,      \* API processes
  None,           \* no challenge, no token, no process
  MaxConcurrent,  \* LIVENESS_WS_MAX_CONCURRENT
  MaxMishaps      \* bound on the mishaps of a behaviour

ASSUME ChallengeConstants ==
  /\ None \notin Challenges \cup Tokens \cup Processes
  /\ IsFiniteSet(Connections)
  /\ MaxConcurrent \in Nat \ {0} /\ MaxMishaps \in Nat

VARIABLES
  chal,      \* Redis lvchk:{id}: "none", "fresh", "streaming" or "used"
  issued,    \* history: challenges created so far
  marked,    \* history: challenges some stream has marked as streaming
  permits,   \* per process: free permits of _WS_SEM
  pc,        \* per connection: what it does next
  proc,      \* per connection: the process that serves it
  what,      \* per connection: its challenge
  made,      \* per connection: the token issued in it
  token,     \* Redis lvtoken:{token}: "none", "valid" or "expired"
  told,      \* history: tokens sent to a client
  markers,   \* Redis lvtoken:used:{token}: tokens whose marker is there
  uses,      \* history: requests that consumed a token
  claiming,  \* per request: the token it has read and is about to consume
  mishaps    \* mishaps so far

streamVars == <<chal, issued, marked, permits, pc, proc, what, made>>
tokenVars  == <<token, told, markers, uses, claiming>>
vars == <<streamVars, tokenVars, mishaps>>

Holding(p) == {c \in Connections : proc[c] = p /\ pc[c] \in {"mark", "stream", "finish", "send"}}

TypeOK ==
  /\ chal \in [Challenges -> {"none", "fresh", "streaming", "used"}]
  /\ issued \subseteq Challenges /\ marked \subseteq issued
  /\ permits \in [Processes -> 0 .. MaxConcurrent]
  /\ pc \in [Connections -> {"closed", "permit", "mark", "stream", "finish", "send"}]
  /\ proc \in [Connections -> Processes \cup {None}]
  /\ what \in [Connections -> Challenges \cup {None}]
  /\ made \in [Connections -> Tokens \cup {None}]
  /\ token \in [Tokens -> {"none", "valid", "expired"}]
  /\ told \subseteq Tokens /\ markers \subseteq Tokens
  /\ uses \in [Tokens -> Nat]
  /\ claiming \in [Requests -> Tokens \cup {None}]
  /\ mishaps \in 0 .. MaxMishaps

Init ==
  /\ chal = [k \in Challenges |-> "none"]
  /\ issued = {} /\ marked = {}
  /\ permits = [p \in Processes |-> MaxConcurrent]
  /\ pc = [c \in Connections |-> "closed"]
  /\ proc = [c \in Connections |-> None]
  /\ what = [c \in Connections |-> None]
  /\ made = [c \in Connections |-> None]
  /\ token = [t \in Tokens |-> "none"]
  /\ told = {} /\ markers = {}
  /\ uses = [t \in Tokens |-> 0]
  /\ claiming = [r \in Requests |-> None]
  /\ mishaps = 0

Mishap == mishaps < MaxMishaps /\ mishaps' = mishaps + 1

Goto(c, stage) == pc' = [pc EXCEPT ![c] = stage] /\ UNCHANGED <<proc, what>>

(* The connections of C are over. *)
Hangup(C) ==
  /\ pc' = [c \in Connections |-> IF c \in C THEN "closed" ELSE pc[c]]
  /\ proc' = [c \in Connections |-> IF c \in C THEN None ELSE proc[c]]
  /\ what' = [c \in Connections |-> IF c \in C THEN None ELSE what[c]]
  /\ made' = [c \in Connections |-> IF c \in C THEN None ELSE made[c]]

(* Mutant of Close: the permit is returned after a sent result only. *)
CloseKeeping(c) ==
  /\ Hangup({c})
  /\ permits' = IF pc[c] = "send" THEN [permits EXCEPT ![proc[c]] = @ + 1] ELSE permits

(* The finally block: the permit is returned whatever happened. *)
Close(c) == Hangup({c}) /\ permits' = [permits EXCEPT ![proc[c]] = @ + 1]

-----------------------------------------------------------------------------
(* init_challenge *)

InitChallenge(k) ==
  /\ k \notin issued
  /\ issued' = issued \cup {k}
  /\ chal' = [chal EXCEPT ![k] = "fresh"]
  /\ UNCHANGED <<marked, permits, pc, proc, what, made, tokenVars, mishaps>>

-----------------------------------------------------------------------------
(* stream *)

(* The challenge is read; a missing, used or streaming one, or a token that is
   not its own, closes the connection at once. *)
Open(c, p, k) ==
  /\ pc[c] = "closed" /\ k \in issued
  /\ chal[k] = "fresh"
  /\ pc' = [pc EXCEPT ![c] = "permit"]
  /\ proc' = [proc EXCEPT ![c] = p]
  /\ what' = [what EXCEPT ![c] = k]
  /\ UNCHANGED <<chal, issued, marked, permits, made, tokenVars, mishaps>>

AcquirePermit(c) ==
  /\ pc[c] = "permit" /\ permits[proc[c]] > 0
  /\ permits' = [permits EXCEPT ![proc[c]] = @ - 1]
  /\ Goto(c, "mark")
  /\ UNCHANGED <<chal, issued, marked, made, tokenVars, mishaps>>

(* Mutant of Busy: the connection waits for a permit without a timeout. *)
BusyWaits(c) == FALSE /\ UNCHANGED vars

(* No permit within the tenth of a second: the connection is refused. *)
Busy(c) ==
  /\ pc[c] = "permit" /\ permits[proc[c]] = 0
  /\ Hangup({c})
  /\ UNCHANGED <<chal, issued, marked, permits, tokenVars, mishaps>>

SetStreaming(c) ==
  /\ chal' = [chal EXCEPT ![what[c]] = "streaming"]
  /\ marked' = marked \cup {what[c]}

(* SETEX of what was read, with the flag "streaming", even if the challenge has
   expired or another connection has marked it meanwhile. *)
Mark(c) ==
  /\ pc[c] = "mark"
  /\ SetStreaming(c)
  /\ Goto(c, "stream")
  /\ UNCHANGED <<issued, permits, made, tokenVars, mishaps>>

(* It raises outside the try block, whether applied or not: the permit is not
   returned. *)
MarkFails(c) ==
  /\ pc[c] = "mark" /\ Mishap
  /\ SetStreaming(c) \/ UNCHANGED <<chal, marked>>
  /\ Hangup({c})
  /\ UNCHANGED <<issued, permits, tokenVars>>

(* Frames are read until the client is done or cancels, or a limit is reached;
   then they are judged.  A live client gets a new token. *)
Live(c, t) ==
  /\ pc[c] = "stream" /\ token[t] = "none"
  /\ token' = [token EXCEPT ![t] = "valid"]
  /\ made' = [made EXCEPT ![c] = t]
  /\ Goto(c, "finish")
  /\ UNCHANGED <<chal, issued, marked, permits, told, markers, uses, claiming, mishaps>>

NotLive(c) ==
  /\ pc[c] = "stream"
  /\ Goto(c, "finish")
  /\ UNCHANGED <<chal, issued, marked, permits, made, tokenVars, mishaps>>

(* The token cannot be stored, or is stored and nobody learns of it. *)
IssueFails(c, t) ==
  /\ pc[c] = "stream" /\ token[t] = "none" /\ Mishap
  /\ token' \in {token, [token EXCEPT ![t] = "valid"]}
  /\ Close(c)
  /\ UNCHANGED <<chal, issued, marked, told, markers, uses, claiming>>

(* The client leaves: accepting, receiving or sending raises, and there is no
   verdict, or nobody to tell it. *)
Disconnect(c) ==
  /\ pc[c] \in {"stream", "send"}
  /\ Close(c)
  /\ UNCHANGED <<chal, issued, marked, tokenVars, mishaps>>

(* Mutant of Finish: only the flag "streaming" is taken back. *)
FinishUnused(c) ==
  /\ pc[c] = "finish"
  /\ chal' = [chal EXCEPT ![what[c]] = "fresh"]
  /\ Goto(c, "send")
  /\ UNCHANGED <<issued, marked, permits, made, tokenVars, mishaps>>

(* The challenge is marked used, whatever the verdict. *)
Finish(c) ==
  /\ pc[c] = "finish"
  /\ chal' = [chal EXCEPT ![what[c]] = "used"]
  /\ Goto(c, "send")
  /\ UNCHANGED <<issued, marked, permits, made, tokenVars, mishaps>>

FinishFails(c) ==
  /\ pc[c] = "finish" /\ Mishap
  /\ chal' \in {chal, [chal EXCEPT ![what[c]] = "used"]}
  /\ Close(c)
  /\ UNCHANGED <<issued, marked, tokenVars>>

(* Mutant of SendResult: a client that is not live is told a token, too. *)
SendAnyToken(c) ==
  /\ pc[c] = "send"
  /\ told' = told \cup {made[c]}
  /\ Close(c)
  /\ UNCHANGED <<chal, issued, marked, token, markers, uses, claiming, mishaps>>

(* The result, and a live client's token. *)
SendResult(c) ==
  /\ pc[c] = "send"
  /\ told' = told \cup ({made[c]} \ {None})
  /\ Close(c)
  /\ UNCHANGED <<chal, issued, marked, token, markers, uses, claiming, mishaps>>

(* LIVENESS_CHALLENGE_TTL_S is over; every SETEX starts it anew. *)
ChallengeLapses(k) ==
  /\ chal[k] # "none"
  /\ chal' = [chal EXCEPT ![k] = "none"]
  /\ UNCHANGED <<issued, marked, permits, pc, proc, what, made, tokenVars, mishaps>>

(* The process dies with its connections; its semaphore is a new one. *)
Restart(p) ==
  /\ Mishap
  /\ Hangup({c \in Connections : proc[c] = p})
  /\ permits' = [permits EXCEPT ![p] = MaxConcurrent]
  /\ UNCHANGED <<chal, issued, marked, tokenVars>>

-----------------------------------------------------------------------------
(* consume_liveness_token *)

(* The token is read; one that is unknown or expired is refused. *)
Present(r, t) ==
  /\ claiming[r] = None
  /\ t \in told /\ token[t] = "valid"
  /\ claiming' = [claiming EXCEPT ![r] = t]
  /\ UNCHANGED <<streamVars, token, told, markers, uses, mishaps>>

(* Mutant of Claim: SET without NX. *)
ClaimAlways(r) ==
  LET t == claiming[r] IN
  /\ t # None
  /\ uses' = [uses EXCEPT ![t] = @ + 1] /\ markers' = markers \cup {t}
  /\ claiming' = [claiming EXCEPT ![r] = None]
  /\ UNCHANGED <<streamVars, token, told, mishaps>>

(* SET NX of the marker: the first one wins, the others are refused. *)
Claim(r) ==
  LET t == claiming[r] IN
  /\ t # None
  /\ IF t \in markers THEN UNCHANGED <<markers, uses>>
     ELSE uses' = [uses EXCEPT ![t] = @ + 1] /\ markers' = markers \cup {t}
  /\ claiming' = [claiming EXCEPT ![r] = None]
  /\ UNCHANGED <<streamVars, token, told, mishaps>>

(* The request fails; the marker may have been set. *)
ClaimFails(r) ==
  LET t == claiming[r] IN
  /\ t # None /\ Mishap
  /\ markers' \in {markers, markers \cup {t}}
  /\ claiming' = [claiming EXCEPT ![r] = None]
  /\ UNCHANGED <<streamVars, token, told, uses>>

(* LIVENESS_TOKEN_TTL_S is over. *)
TokenLapses(t) ==
  /\ token[t] = "valid"
  /\ token' = [token EXCEPT ![t] = "expired"]
  /\ UNCHANGED <<streamVars, told, markers, uses, claiming, mishaps>>

(* The marker has the same TTL and is set later, so it goes after the token.  A
   request that read the token before and still has not set the marker has
   stalled. *)
MarkerLapses(t) ==
  /\ t \in markers /\ token[t] = "expired"
  /\ IF \E r \in Requests : claiming[r] = t THEN Mishap ELSE UNCHANGED mishaps
  /\ markers' = markers \ {t}
  /\ UNCHANGED <<streamVars, token, told, uses, claiming>>

Serve(c) ==
  \/ AcquirePermit(c) \/ Busy(c) \/ Mark(c) \/ NotLive(c) \/ Finish(c) \/ SendResult(c)
  \/ \E t \in Tokens : Live(c, t)

Break(c) ==
  \/ MarkFails(c) \/ Disconnect(c) \/ FinishFails(c)
  \/ \E t \in Tokens : IssueFails(c, t)

Next ==
  \/ \E k \in Challenges : InitChallenge(k) \/ ChallengeLapses(k)
  \/ \E c \in Connections, p \in Processes, k \in Challenges : Open(c, p, k)
  \/ \E c \in Connections : Serve(c) \/ Break(c)
  \/ \E p \in Processes : Restart(p)
  \/ \E r \in Requests : Claim(r) \/ ClaimFails(r)
  \/ \E r \in Requests, t \in Tokens : Present(r, t)
  \/ \E t \in Tokens : TokenLapses(t) \/ MarkerLapses(t)

Spec == Init /\ [][Next]_vars

(* asyncio goes on with every connection; the waits for a permit and for a
   frame have timeouts, and the frames of a stream are limited. *)
FairSpec == Spec /\ \A c \in Connections : WF_vars(Serve(c))

-----------------------------------------------------------------------------
(* Once a stream has marked a challenge, no connection that arrives later gets
   through, whatever flags overlapping streams write over each other's, and
   however often the key expires. *)
LateConnectionsRefused ==
  [][\A c \in Connections :
       (pc[c] = "closed" /\ pc'[c] # "closed") => what'[c] \notin marked]_vars

(* Every way out of a stream returns its permit exactly once: a process never
   has more permits than it started with, and is short of at most one for each
   mishap. *)
PermitsKept ==
  \A p \in Processes :
    LET all == permits[p] + Cardinality(Holding(p))
    IN  all <= MaxConcurrent /\ MaxConcurrent <= all + mishaps

(* A token is good for one verification, however many requests present it at
   the same time, up to and beyond the expiry of token and marker. *)
TokenUsedOnce == mishaps = 0 => \A t \in Tokens : uses[t] <= 1

(* A client is never left waiting: a connection that was let in is refused,
   judged or cut off, even when permits have been lost. *)
ConnectionEnds == \A c \in Connections : pc[c] = "permit" ~> pc[c] = "closed"

(* The semaphore limits streams that run: without one all permits are free. *)
PermitsReturned ==
  \A p \in Processes : Holding(p) = {} => permits[p] = MaxConcurrent
=============================================================================
