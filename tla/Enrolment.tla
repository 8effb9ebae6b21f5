------------------------------ MODULE Enrolment ------------------------------
(***************************************************************************)
(* Enrolling a face and searching for one.  Requests run in API processes; *)
(* they share the tables users and embeddings in PostgreSQL and the search *)
(* cache in Redis, while the FAISS index is private to each process.  An   *)
(* enrolment replaces the templates of its user; a search asks the cache,  *)
(* then the index, then the table.                                         *)
(*                                                                         *)
(* A vector is abstracted to the template it was enrolled as, a query to   *)
(* the user whose face it shows, and an answer to the templates of that    *)
(* user it was chosen from: the user is found when there is one.  Mishaps  *)
(* (failed commands, restarts) are bounded by MaxMishaps.                  *)
(***************************************************************************)
EXTENDS Naturals, FiniteSets

CONSTANTS
  Users,         \* rows of the table users, existing or to be created
  Known,         \* those that exist at the start
  Templates,     \* face templates; every enrolment produces a new one
  Handlers,      \* requests that can be in progress at once
  Processes,     \* API processes behind api_lb
  None,          \* no user, no template, no handler, no cached answer
  FaissEnabled,  \* FAISS_ENABLED
  MaxMishaps     \* bound on the mishaps of a behaviour

ASSUME EnrolmentConstants ==
  /\ Known \subseteq Users
  /\ None \notin Users \cup Templates \cup Handlers \cup Processes
  /\ IsFiniteSet(Handlers) /\ IsFiniteSet(Templates)
  /\ FaissEnabled \in BOOLEAN /\ MaxMishaps \in Nat

VARIABLES
  users,     \* table users, committed rows
  pending,   \* per user: the request whose transaction has inserted the row
  rows,      \* table embeddings: committed templates
  owner,     \* embeddings.user_id of each template ever committed
  author,    \* history: the request and process that committed a template
  newest,    \* history: per user, the template committed last
  index,     \* per process: templates in its FAISS index
  cache,     \* Redis faceid:search:*: the cached answer of each query
  filler,    \* history: process whose FAISS search filled an entry, or None
  pc,        \* per request: what it does next
  proc,      \* per request: the process that serves it
  who,       \* per request: its user
  tpl,       \* per enrolment: the template of its image
  seen,      \* per request: rows selected, or result of the search
  keys,      \* per enrolment: cache keys found by SCAN
  mishaps    \* mishaps so far

tableVars   == <<users, pending, rows, owner, author, newest>>
searchVars  == <<index, cache, filler>>
requestVars == <<pc, proc, who, tpl, seen, keys>>
vars == <<tableVars, searchVars, requestVars, mishaps>>

Enrolling == {"find", "insert", "image", "select", "delete", "create", "scan", "purge"}
Searching == {"lookup", "store", "topk", "all", "keep"}

TypeOK ==
  /\ users \subseteq Users
  /\ pending \in [Users -> Handlers \cup {None}]
  /\ rows \subseteq Templates
  /\ owner \in [Templates -> Users \cup {None}]
  /\ author \in [Templates -> (Handlers \X Processes) \cup {None}]
  /\ newest \in [Users -> Templates \cup {None}]
  /\ index \in [Processes -> SUBSET Templates]
  /\ cache \in [Users -> (SUBSET Templates) \cup {None}]
  /\ filler \in [Users -> Processes \cup {None}]
  /\ pc \in [Handlers -> {"idle"} \cup Enrolling \cup Searching]
  /\ proc \in [Handlers -> Processes \cup {None}]
  /\ who \in [Handlers -> Users \cup {None}]
  /\ tpl \in [Handlers -> Templates \cup {None}]
  /\ seen \in [Handlers -> SUBSET Templates]
  /\ keys \in [Handlers -> SUBSET Users]
  /\ mishaps \in 0 .. MaxMishaps

Init ==
  /\ users = Known
  /\ pending = [u \in Users |-> None]
  /\ rows = {}
  /\ owner = [t \in Templates |-> None]
  /\ author = [t \in Templates |-> None]
  /\ newest = [u \in Users |-> None]
  /\ index = [p \in Processes |-> {}]
  /\ cache = [u \in Users |-> None]
  /\ filler = [u \in Users |-> None]
  /\ pc = [h \in Handlers |-> "idle"]
  /\ proc = [h \in Handlers |-> None]
  /\ who = [h \in Handlers |-> None]
  /\ tpl = [h \in Handlers |-> None]
  /\ seen = [h \in Handlers |-> {}]
  /\ keys = [h \in Handlers |-> {}]
  /\ mishaps = 0

Mishap == mishaps < MaxMishaps /\ mishaps' = mishaps + 1

TemplatesOf(u, S) == {t \in S : owner[t] = u}

(* Request h can run: no other request of its process is between two
   synchronous Redis calls, where the event loop is blocked. *)
Runs(h) ==
  \A g \in Handlers : (g # h /\ proc[g] = proc[h]) => pc[g] \notin {"purge", "store"}

At(h, stage) == pc[h] = stage /\ Runs(h)

Goto(h, stage, S, K) ==
  /\ pc' = [pc EXCEPT ![h] = stage]
  /\ seen' = [seen EXCEPT ![h] = S]
  /\ keys' = [keys EXCEPT ![h] = K]
  /\ UNCHANGED <<proc, who, tpl>>

(* The requests of H are answered or die: they forget everything. *)
Forget(H) ==
  /\ pc' = [h \in Handlers |-> IF h \in H THEN "idle" ELSE pc[h]]
  /\ proc' = [h \in Handlers |-> IF h \in H THEN None ELSE proc[h]]
  /\ who' = [h \in Handlers |-> IF h \in H THEN None ELSE who[h]]
  /\ tpl' = [h \in Handlers |-> IF h \in H THEN None ELSE tpl[h]]
  /\ seen' = [h \in Handlers |-> IF h \in H THEN {} ELSE seen[h]]
  /\ keys' = [h \in Handlers |-> IF h \in H THEN {} ELSE keys[h]]

(* Mutant of Rollback: sessions are not closed when a request fails. *)
RollbackNothing(H) == UNCHANGED pending

(* get_db closes the session: an uncommitted insert is rolled back. *)
Rollback(H) ==
  pending' = [u \in Users |-> IF pending[u] \in H THEN None ELSE pending[u]]

Begin(h, p, u, t, stage) ==
  /\ pc[h] = "idle"
  /\ \A g \in Handlers : proc[g] = p => pc[g] \notin {"purge", "store"}
  /\ pc' = [pc EXCEPT ![h] = stage]
  /\ proc' = [proc EXCEPT ![h] = p]
  /\ who' = [who EXCEPT ![h] = u]
  /\ tpl' = [tpl EXCEPT ![h] = t]
  /\ UNCHANGED <<tableVars, searchVars, seen, keys, mishaps>>

Fresh(t) == owner[t] = None /\ \A h \in Handlers : tpl[h] # t

-----------------------------------------------------------------------------
(* enroll_face *)

(* POST /upload finds or creates its user, PUT /update-reference takes it for
   granted. *)
UploadFace(h, p, u, t)      == Fresh(t) /\ Begin(h, p, u, t, "find")
UpdateReference(h, p, u, t) == Fresh(t) /\ Begin(h, p, u, t, "image")

(* Mutant of FindUser: the old templates are cleared before the image is judged. *)
ClearFirst(h) ==
  /\ At(h, "find")
  /\ Goto(h, IF who[h] \in users THEN "image" ELSE "insert", {}, {})
  /\ rows' = rows \ TemplatesOf(who[h], rows)
  /\ UNCHANGED <<users, pending, owner, author, newest, searchVars, mishaps>>

(* get_or_create: the SELECT sees committed rows only. *)
FindUser(h) ==
  /\ At(h, "find")
  /\ Goto(h, IF who[h] \in users THEN "image" ELSE "insert", {}, {})
  /\ UNCHANGED <<tableVars, searchVars, mishaps>>

(* get_or_create: the INSERT waits for a transaction that inserted the same
   external_id; if that one commits, the unique index refuses this one. *)
InsertUser(h) ==
  /\ At(h, "insert")
  /\ pending[who[h]] = None
  /\ IF who[h] \in users
     THEN Forget({h}) /\ UNCHANGED pending
     ELSE Goto(h, "image", {}, {}) /\ pending' = [pending EXCEPT ![who[h]] = h]
  /\ UNCHANGED <<users, rows, owner, author, newest, searchVars, mishaps>>

(* The pipeline accepts the image. *)
AcceptImage(h) ==
  /\ At(h, "image")
  /\ Goto(h, "select", {}, {})
  /\ UNCHANGED <<tableVars, searchVars, mishaps>>

(* The pipeline rejects the image, or a statement before the first commit
   fails: nothing of the request remains. *)
RefuseImage(h) ==
  /\ pc[h] \in {"find", "insert", "image", "select"} /\ Runs(h)
  /\ IF pc[h] = "image" THEN UNCHANGED mishaps ELSE Mishap
  /\ Forget({h}) /\ Rollback({h})
  /\ UNCHANGED <<users, rows, owner, author, newest, searchVars>>

(* delete_by_user_id: SELECT, then DELETE of the rows selected and COMMIT,
   which also commits a user inserted before. *)
SelectOld(h) ==
  /\ At(h, "select")
  /\ Goto(h, "delete", TemplatesOf(who[h], rows), {})
  /\ UNCHANGED <<tableVars, searchVars, mishaps>>

CommitUser(h) ==
  /\ users' = users \cup {u \in Users : pending[u] = h}
  /\ Rollback({h})

(* Mutant of DeleteOld: /upload keeps the old templates, as it once did. *)
KeepOld(h) ==
  /\ At(h, "delete")
  /\ CommitUser(h)
  /\ Goto(h, "create", {}, {})
  /\ UNCHANGED <<rows, owner, author, newest, searchVars, mishaps>>

DeleteOld(h) ==
  /\ At(h, "delete")
  /\ rows' = rows \ seen[h]
  /\ CommitUser(h)
  /\ Goto(h, "create", {}, {})
  /\ UNCHANGED <<owner, author, newest, searchVars, mishaps>>

(* The COMMIT raises: it may have been applied. *)
DeleteFails(h) ==
  /\ At(h, "delete") /\ Mishap
  /\ \/ rows' = rows \ seen[h] /\ CommitUser(h)
     \/ UNCHANGED <<rows, users>> /\ Rollback({h})
  /\ Forget({h})
  /\ UNCHANGED <<owner, author, newest, searchVars>>

(* Mutant of AddRow: ON CONFLICT DO NOTHING instead of a second row. *)
AddRowIfNone(h) ==
  /\ who[h] \in users
  /\ rows' = IF TemplatesOf(who[h], rows) = {} THEN rows \cup {tpl[h]} ELSE rows
  /\ owner' = [owner EXCEPT ![tpl[h]] = who[h]]
  /\ author' = [author EXCEPT ![tpl[h]] = <<h, proc[h]>>]
  /\ newest' = [newest EXCEPT ![who[h]] = tpl[h]]

(* create_embedding, up to its COMMIT. *)
AddRow(h) ==
  /\ who[h] \in users
  /\ rows' = rows \cup {tpl[h]}
  /\ owner' = [owner EXCEPT ![tpl[h]] = who[h]]
  /\ author' = [author EXCEPT ![tpl[h]] = <<h, proc[h]>>]
  /\ newest' = [newest EXCEPT ![who[h]] = tpl[h]]

CreateRow(h) ==
  /\ At(h, "create")
  /\ AddRow(h)
  /\ Goto(h, "scan", {}, {})
  /\ UNCHANGED <<users, pending, searchVars, mishaps>>

(* The user does not exist (foreign key), or the transaction raises: it may
   have been applied, but cache and index are not touched any more. *)
CreateFails(h) ==
  /\ At(h, "create")
  /\ \/ who[h] \notin users /\ UNCHANGED <<rows, owner, author, newest, mishaps>>
     \/ Mishap /\ (AddRow(h) \/ UNCHANGED <<rows, owner, author, newest>>)
  /\ Forget({h})
  /\ UNCHANGED <<users, pending, searchVars>>

(* Mutant of ScanCache: the values are collected instead of the keys. *)
ScanValues(h) ==
  /\ At(h, "scan")
  /\ Goto(h, "purge", {}, {cache[u] : u \in Users} \ {None})
  /\ UNCHANGED <<tableVars, searchVars, mishaps>>

(* invalidate_cache: SCAN, then DEL of the keys found.  A failing SCAN finds
   nothing to delete. *)
ScanCache(h) ==
  /\ At(h, "scan")
  /\ \/ Goto(h, "purge", {}, {u \in Users : cache[u] # None}) /\ UNCHANGED mishaps
     \/ Goto(h, "purge", {}, {}) /\ Mishap
  /\ UNCHANGED <<tableVars, searchVars>>

(* Mutant of IndexAfter: add_embedding left to a task queue that is off. *)
IndexUnchanged(h) == index

(* SearchService.add_embedding: the index of this process only. *)
IndexAfter(h) ==
  IF FaissEnabled THEN [index EXCEPT ![proc[h]] = @ \cup {tpl[h]}] ELSE index

(* Mutant of Purge: the cache is not invalidated. *)
AddOnly(h) ==
  /\ pc[h] = "purge"
  /\ index' = IndexAfter(h)
  /\ Forget({h})
  /\ UNCHANGED <<tableVars, cache, filler, mishaps>>

(* A failing DEL is swallowed; then the index is extended and the response sent. *)
Purge(h) ==
  /\ pc[h] = "purge"
  /\ \/ cache' = [u \in Users |-> IF u \in keys[h] THEN None ELSE cache[u]] /\ UNCHANGED mishaps
     \/ UNCHANGED cache /\ Mishap
  /\ index' = IndexAfter(h)
  /\ Forget({h})
  /\ UNCHANGED <<tableVars, filler>>

-----------------------------------------------------------------------------
(* search_top_k *)

Search(h, p, u) == Begin(h, p, u, None, "lookup")

(* Cache, then the process's own index; an empty index sends the query to the
   table.  A failing GET counts as a miss. *)
Lookup(h) ==
  /\ At(h, "lookup")
  /\ \/ cache[who[h]] # None /\ Forget({h}) /\ UNCHANGED mishaps
     \/ /\ IF cache[who[h]] = None THEN UNCHANGED mishaps ELSE Mishap
        /\ IF index[proc[h]] # {}
           THEN Goto(h, "store", TemplatesOf(who[h], index[proc[h]]), {})
           ELSE Goto(h, "topk", {}, {})
  /\ UNCHANGED <<tableVars, searchVars>>

(* SETEX of the answer; a failing one is ignored. *)
FillCache(h, p) ==
  \/ /\ cache' = [cache EXCEPT ![who[h]] = seen[h]]
     /\ filler' = [filler EXCEPT ![who[h]] = p]
     /\ UNCHANGED mishaps
  \/ UNCHANGED <<cache, filler>> /\ Mishap

(* What FAISS found is cached before the threshold is applied; with nothing
   above it the table is asked. *)
Store(h) ==
  /\ pc[h] = "store"
  /\ FillCache(h, proc[h])
  /\ IF seen[h] = {} THEN Goto(h, "topk", {}, {}) ELSE Forget({h})
  /\ UNCHANGED <<tableVars, index>>

(* find_top_k, and get_all_vectors when it finds no row or raises. *)
ReadTable(h) ==
  /\ pc[h] \in {"topk", "all"} /\ Runs(h)
  /\ \/ rows # {} /\ Goto(h, "keep", TemplatesOf(who[h], rows), {}) /\ UNCHANGED mishaps
     \/ /\ rows = {} /\ UNCHANGED mishaps
        /\ IF pc[h] = "topk" THEN Goto(h, "all", {}, {}) ELSE Forget({h})
     \/ /\ Mishap
        /\ IF pc[h] = "topk" THEN Goto(h, "all", {}, {}) ELSE Forget({h})
  /\ UNCHANGED <<tableVars, searchVars>>

(* The answer from the table is cached when the awaiting request resumes. *)
Keep(h) ==
  /\ At(h, "keep")
  /\ FillCache(h, None)
  /\ Forget({h})
  /\ UNCHANGED <<tableVars, index>>

-----------------------------------------------------------------------------
(* The hour of a cache entry is over. *)
Lapse(u) ==
  /\ cache[u] # None
  /\ cache' = [cache EXCEPT ![u] = None]
  /\ UNCHANGED <<tableVars, index, filler, requestVars, mishaps>>

(* A process dies with its requests; lifespan rebuilds its index from the
   table before it serves again. *)
Restart(p) ==
  /\ Mishap
  /\ LET mine == {h \in Handlers : proc[h] = p}
     IN  Forget(mine) /\ Rollback(mine)
  /\ index' = IF FaissEnabled THEN [index EXCEPT ![p] = rows] ELSE index
  /\ UNCHANGED <<users, rows, owner, author, newest, cache, filler>>

Enrol(h) ==
  \/ FindUser(h) \/ InsertUser(h) \/ AcceptImage(h) \/ RefuseImage(h)
  \/ SelectOld(h) \/ DeleteOld(h) \/ DeleteFails(h) \/ CreateRow(h) \/ CreateFails(h)
  \/ ScanCache(h) \/ Purge(h)

Find(h) == Lookup(h) \/ Store(h) \/ ReadTable(h) \/ Keep(h)

Next ==
  \/ \E h \in Handlers :
       \/ \E p \in Processes, u \in Users :
            \/ \E t \in Templates : UploadFace(h, p, u, t) \/ UpdateReference(h, p, u, t)
            \/ Search(h, p, u)
       \/ Enrol(h) \/ Find(h)
  \/ \E u \in Users : Lapse(u)
  \/ \E p \in Processes : Restart(p)

Spec == Init /\ [][Next]_vars

(* The ready queue of asyncio is first come first served, and PostgreSQL wakes
   every transaction that waits for another when that one ends: a request that
   can go on again and again does. *)
FairSpec == Spec /\ \A h \in Handlers : SF_vars(Enrol(h) \/ Find(h))

-----------------------------------------------------------------------------
(* Concurrent enrolments of one user may leave several templates, but never
   two of the same request slot: replacing the old ones keeps their number
   within that of the requests in progress at once. *)
TemplatesBounded ==
  /\ \A u \in Users : Cardinality(TemplatesOf(u, rows)) <= Cardinality(Handlers)
  /\ \A s, t \in rows : (s # t /\ owner[s] = owner[t]) => author[s][1] # author[t][1]

(* The template committed last is in the table, unless an enrolment of the
   same user is about to replace it, or a mishap cut one off in between. *)
NewestKept ==
  \A u \in Users :
    (newest[u] # None /\ newest[u] \notin rows /\ mishaps = 0) =>
      \E h \in Handlers : who[h] = u /\ pc[h] = "create"

(* A user who had a template and is left without any, and nobody is about to
   commit one. *)
Bare(u) ==
  /\ newest[u] # None /\ TemplatesOf(u, rows) = {}
  /\ ~\E h \in Handlers : who[h] = u /\ pc[h] = "create"

(* DELETE and INSERT are two transactions.  What falls between them is the only
   way to lose a user: a failure that ends an enrolment of that very user, at
   its DELETE or after it.  No refused image, no enrolment of another user and
   no order of several enrolments of one does. *)
BareOnlyByCut ==
  [][\A u \in Users : (Bare(u)' /\ ~Bare(u)) =>
       /\ mishaps' > mishaps
       /\ \E h \in Handlers : who[h] = u /\ pc[h] \in {"delete", "create"} /\ pc'[h] = "idle"]_vars

(* No false no_match: an enrolment that has been answered is in the index of
   the process that served it, for as long as its template is in the table. *)
IndexCovers ==
  FaissEnabled /\ mishaps = 0 =>
    \A t \in rows :
      \/ t \in index[author[t][2]]
      \/ \E h \in Handlers : pc[h] \in {"scan", "purge"} /\ tpl[h] = t

(* An answer cached from the index of the process that served the latest
   enrolment of a user, once that is done, contains its template: nothing in
   that process can come between invalidating the cache and extending the
   index. *)
FaissAnswersFresh ==
  \A u \in Users :
    LET t == newest[u]
    IN  (FaissEnabled /\ mishaps = 0 /\ t # None /\ cache[u] # None) =>
          \/ t \in cache[u]
          \/ filler[u] # author[t][2]
          \/ \E h \in Handlers : pc[h] \in {"scan", "purge"} /\ tpl[h] = t

(* Two requests that create the same user wait for each other's transaction,
   never for ever: every enrolment is answered. *)
EnrolmentEnds == \A h \in Handlers : pc[h] = "find" ~> pc[h] = "idle"

(* One template per user. *)
OneTemplate ==
  mishaps = 0 => \A u \in Users : Cardinality(TemplatesOf(u, rows)) <= 1

(* A replaced template matches no one any more. *)
ReplacedForgotten ==
  mishaps = 0 =>
    \A t \in Templates :
      (owner[t] # None /\ t \notin rows /\ \A h \in Handlers : pc[h] \notin Enrolling) =>
        \A p \in Processes : t \notin index[p]
=============================================================================
