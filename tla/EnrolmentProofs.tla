--------------------------- MODULE EnrolmentProofs ---------------------------
(* Proofs that concurrent enrolments, with any number of failures and restarts,
   cannot pile up templates of one user; and that without them the newest
   template stays in the table, in the index of its process and in what that
   process caches.  Only a failure between DELETE and INSERT leaves a user
   without any template. *)
EXTENDS Enrolment, FiniteSetTheorems, TLAPS

Before == {"find", "insert", "image", "select", "delete", "create"}

(* A request in progress has a user and a process; an enrolment has a template,
   which before the commit is its own and in no table. *)
Prepared ==
  \A h \in Handlers :
    /\ pc[h] # "idle" => who[h] \in Users /\ proc[h] \in Processes
    /\ pc[h] \in Enrolling => tpl[h] \in Templates
    /\ pc[h] \in Before =>
         owner[tpl[h]] = None /\ \A g \in Handlers : g # h => tpl[g] # tpl[h]

(* A template in the table has an owner and an author. *)
Registered ==
  \A t \in rows : owner[t] \in Users /\ author[t] \in Handlers \X Processes

(* What request h itself has committed for its user before. *)
Own(h) == {t \in rows : owner[t] = who[h] /\ author[t][1] = h}

(* Between SELECT and DELETE the own templates are among those selected, and
   then they are gone: only h could commit another one. *)
Replacing ==
  \A h \in Handlers :
    /\ pc[h] = "delete" => Own(h) \subseteq seen[h]
    /\ pc[h] = "create" => Own(h) = {}

OnePerAuthor ==
  \A s, t \in rows : (s # t /\ owner[s] = owner[t]) => author[s][1] # author[t][1]

Inner == Prepared /\ Registered /\ Replacing /\ OnePerAuthor
IInv  == TypeOK /\ Inner

(* Ways in which a step that adds no row may treat request h: it stays, is
   over, or goes on for the same user with the same template. *)
Stays(h) ==
  /\ pc'[h] = pc[h] /\ who'[h] = who[h] /\ proc'[h] = proc[h]
  /\ tpl'[h] = tpl[h] /\ seen'[h] = seen[h]

Over(h) == pc'[h] = "idle" /\ tpl'[h] = None

GoesOn(h) ==
  /\ pc[h] # "idle" /\ who'[h] = who[h] /\ proc'[h] = proc[h] /\ tpl'[h] = tpl[h]
  /\ pc'[h] \in Enrolling => pc[h] \in Enrolling
  /\ pc'[h] \in Before => pc[h] \in Before
  /\ pc'[h] = "delete" => seen'[h] = TemplatesOf(who[h], rows)
  /\ pc'[h] = "create" => pc[h] = "delete" /\ rows' = rows \ seen[h]

-----------------------------------------------------------------------------
LEMMA NoRowAdded ==
  ASSUME IInv, rows' \subseteq rows, UNCHANGED <<owner, author>>,
         \A h \in Handlers : Stays(h) \/ Over(h) \/ GoesOn(h)
  PROVE  Inner'
<1> USE EnrolmentConstants
<1>1. Prepared'
  <2> SUFFICES ASSUME NEW h \in Handlers
               PROVE  /\ pc'[h] # "idle" => who'[h] \in Users /\ proc'[h] \in Processes
                      /\ pc'[h] \in Enrolling => tpl'[h] \in Templates
                      /\ pc'[h] \in Before =>
                           /\ owner[tpl'[h]] = None
                           /\ \A g \in Handlers : g # h => tpl'[g] # tpl'[h]
    BY DEF Prepared
  <2>1. \A g \in Handlers : tpl'[g] \in {tpl[g], None}
    BY DEF Stays, Over, GoesOn
  <2>2. CASE Over(h)
    BY <2>2 DEF Over, Enrolling, Before
  <2>3. CASE Stays(h) \/ GoesOn(h)
    <3>1. pc'[h] \in Before => pc[h] \in Before /\ tpl[h] \in Templates
      BY <2>3 DEF Stays, GoesOn, IInv, Inner, Prepared, Before, Enrolling
    <3>2. /\ pc'[h] # "idle" => who'[h] \in Users /\ proc'[h] \in Processes
          /\ pc'[h] \in Enrolling => tpl'[h] \in Templates
          /\ tpl'[h] = tpl[h]
      BY <2>3 DEF Stays, GoesOn, IInv, Inner, Prepared
    <3>3. pc'[h] \in Before => owner[tpl'[h]] = None
      BY <3>1, <3>2 DEF IInv, Inner, Prepared
    <3>4. ASSUME pc'[h] \in Before, NEW g \in Handlers, g # h PROVE tpl'[g] # tpl'[h]
      BY <2>1, <3>1, <3>2, <3>4 DEF IInv, Inner, Prepared
    <3> QED BY <3>2, <3>3, <3>4
  <2> QED BY <2>2, <2>3
<1>2. Registered'
  BY DEF IInv, Inner, Registered
<1>3. Replacing'
  <2> SUFFICES ASSUME NEW h \in Handlers
               PROVE  /\ pc'[h] = "delete" => Own(h)' \subseteq seen'[h]
                      /\ pc'[h] = "create" => Own(h)' = {}
    BY DEF Replacing
  <2>1. CASE Stays(h)
    BY <2>1 DEF Stays, Own, IInv, Inner, Replacing
  <2>2. CASE Over(h)
    BY <2>2 DEF Over
  <2>3. CASE GoesOn(h)
    <3>1. Own(h)' \subseteq Own(h)
      BY <2>3 DEF GoesOn, Own
    <3>2. pc'[h] = "delete" => Own(h) \subseteq seen'[h]
      BY <2>3 DEF GoesOn, Own, TemplatesOf
    <3>3. ASSUME pc'[h] = "create" PROVE Own(h)' = {}
      <4>1. rows' = rows \ seen[h] /\ Own(h) \subseteq seen[h]
        BY <2>3, <3>3 DEF GoesOn, IInv, Inner, Replacing
      <4> QED BY <3>1, <4>1 DEF Own
    <3> QED BY <3>1, <3>2, <3>3
  <2> QED BY <2>1, <2>2, <2>3
<1>4. OnePerAuthor'
  BY DEF IInv, Inner, OnePerAuthor
<1> QED
  BY <1>1, <1>2, <1>3, <1>4 DEF Inner

(* A new request takes a template nobody has. *)
LEMMA Begun ==
  ASSUME IInv, NEW h \in Handlers, NEW p \in Processes, NEW u \in Users,
         NEW t \in Templates \cup {None}, NEW stage \in {"find", "image", "lookup"},
         Begin(h, p, u, t, stage), (stage = "lookup" /\ t = None) \/ (t \in Templates /\ Fresh(t))
  PROVE  Inner'
<1> USE EnrolmentConstants
<1>1. /\ pc[h] = "idle" /\ pc'[h] = stage /\ who'[h] = u /\ proc'[h] = p /\ tpl'[h] = t
      /\ \A g \in Handlers \ {h} : Stays(g)
      /\ UNCHANGED <<rows, owner, author>>
  BY DEF Begin, Stays, IInv, TypeOK, tableVars
<1>2. stage \notin {"delete", "create"} /\ (stage \in Enrolling => stage # "lookup")
  BY DEF Enrolling
<1>5. t = None \/ Fresh(t)
  OBVIOUS
<1>3. Prepared'
  <2> SUFFICES ASSUME NEW g \in Handlers
               PROVE  /\ pc'[g] # "idle" => who'[g] \in Users /\ proc'[g] \in Processes
                      /\ pc'[g] \in Enrolling => tpl'[g] \in Templates
                      /\ pc'[g] \in Before =>
                           /\ owner[tpl'[g]] = None
                           /\ \A k \in Handlers : k # g => tpl'[k] # tpl'[g]
    BY <1>1 DEF Prepared
  <2>1. CASE g = h
    BY <1>1, <1>2, <2>1 DEF Fresh, Stays, Before, Enrolling
  <2>2. CASE g # h
    <3>1. Stays(g)
      BY <1>1, <2>2
    <3>2. pc[g] \in Before => tpl[g] \in Templates
      BY DEF IInv, Inner, Prepared, Before, Enrolling
    <3>3. pc[g] \in Before => t # tpl[g]
      BY <1>5, <3>2 DEF Fresh
    <3> QED
      BY <1>1, <3>1, <3>2, <3>3 DEF Stays, IInv, Inner, Prepared
  <2> QED BY <2>1, <2>2
<1>4. Replacing'
  <2> SUFFICES ASSUME NEW g \in Handlers
               PROVE  /\ pc'[g] = "delete" => Own(g)' \subseteq seen'[g]
                      /\ pc'[g] = "create" => Own(g)' = {}
    BY DEF Replacing
  <2>1. CASE g = h
    BY <1>1, <1>2, <2>1
  <2>2. CASE g # h
    BY <1>1, <2>2 DEF Stays, Own, IInv, Inner, Replacing
  <2> QED BY <2>1, <2>2
<1> QED
  BY <1>1, <1>3, <1>4 DEF IInv, Inner, Registered, OnePerAuthor

(* The one step that adds a row: h has no other one, by Replacing. *)
LEMMA RowAdded ==
  ASSUME IInv, NEW h \in Handlers, pc[h] = "create", AddRow(h),
         \A g \in Handlers \ {h} : Stays(g),
         Over(h) \/ (pc'[h] = "scan" /\ GoesOn(h))
  PROVE  Inner'
<1> USE EnrolmentConstants
<1> DEFINE t == tpl[h]
<1>1. /\ t \in Templates /\ who[h] \in Users /\ proc[h] \in Processes /\ owner[t] = None
      /\ \A g \in Handlers \ {h} : tpl[g] # t
  BY DEF IInv, Inner, Prepared, Before, Enrolling
<1>2. /\ t \notin rows /\ rows' = rows \cup {t}
      /\ owner'[t] = who[h] /\ author'[t] = <<h, proc[h]>>
      /\ \A s \in Templates \ {t} : owner'[s] = owner[s] /\ author'[s] = author[s]
  BY <1>1 DEF AddRow, IInv, TypeOK, Inner, Registered
<1>3. pc'[h] \notin Before
  BY DEF Over, Before
<1>4. Prepared'
  <2> SUFFICES ASSUME NEW g \in Handlers
               PROVE  /\ pc'[g] # "idle" => who'[g] \in Users /\ proc'[g] \in Processes
                      /\ pc'[g] \in Enrolling => tpl'[g] \in Templates
                      /\ pc'[g] \in Before =>
                           /\ owner'[tpl'[g]] = None
                           /\ \A k \in Handlers : k # g => tpl'[k] # tpl'[g]
    BY DEF Prepared
  <2>1. CASE g = h
    BY <1>1, <1>3, <2>1 DEF Over, GoesOn, Enrolling
  <2>2. CASE g # h
    <3>1. Stays(g) /\ \A k \in Handlers : tpl'[k] \in {tpl[k], None}
      BY <2>2 DEF Stays, Over, GoesOn
    <3>2. pc[g] \in Before => tpl[g] \in Templates
      BY DEF IInv, Inner, Prepared, Before, Enrolling
    <3>3. pc'[g] \in Before => owner'[tpl'[g]] = None
      BY <1>1, <1>2, <2>2, <3>1, <3>2 DEF Stays, IInv, Inner, Prepared
    <3> QED
      BY <3>1, <3>2, <3>3 DEF Stays, IInv, Inner, Prepared
  <2> QED BY <2>1, <2>2
<1>5. Registered'
  <2> SUFFICES ASSUME NEW s \in rows' PROVE owner'[s] \in Users /\ author'[s] \in Handlers \X Processes
    BY DEF Registered
  <2>1. CASE s = t
    <3>1. owner'[s] = who[h] /\ author'[s] = <<h, proc[h]>>
      BY <1>2, <2>1
    <3>2. who[h] \in Users /\ proc[h] \in Processes
      BY <1>1
    <3> QED BY <3>1, <3>2
  <2>2. CASE s # t
    BY <1>2, <2>2 DEF IInv, TypeOK, Inner, Registered
  <2> QED BY <2>1, <2>2
<1>6. Replacing'
  <2> SUFFICES ASSUME NEW g \in Handlers
               PROVE  /\ pc'[g] = "delete" => Own(g)' \subseteq seen'[g]
                      /\ pc'[g] = "create" => Own(g)' = {}
    BY DEF Replacing
  <2>1. CASE g = h
    BY <1>3, <2>1 DEF Before
  <2>2. CASE g # h
    <3>1. Stays(g)
      BY <2>2
    <3>2. Own(g)' \subseteq Own(g)
      BY <1>2, <2>2, <3>1 DEF Own, Stays, IInv, TypeOK
    <3> QED BY <3>1, <3>2 DEF Stays, IInv, Inner, Replacing
  <2> QED BY <2>1, <2>2
<1>7. OnePerAuthor'
  <2>1. ASSUME NEW s \in rows PROVE ~(owner[s] = who[h] /\ author[s][1] = h)
    BY DEF IInv, Inner, Replacing, Own
  <2>2. ASSUME NEW s \in rows PROVE owner'[s] = owner[s] /\ author'[s] = author[s]
    BY <1>2, <2>2 DEF IInv, TypeOK
  <2> QED
    BY <1>2, <2>1, <2>2 DEF OnePerAuthor, IInv, Inner
<1> QED
  BY <1>4, <1>5, <1>6, <1>7 DEF Inner

(* What Goto and Forget do to the requests. *)
LEMMA GotoMoves ==
  ASSUME IInv, NEW h \in Handlers, NEW stage, NEW S, NEW K, Goto(h, stage, S, K)
  PROVE  /\ \A g \in Handlers \ {h} : Stays(g)
         /\ pc'[h] = stage /\ seen'[h] = S
         /\ who'[h] = who[h] /\ proc'[h] = proc[h] /\ tpl'[h] = tpl[h]
BY DEF Goto, Stays, IInv, TypeOK

LEMMA ForgetMoves ==
  ASSUME IInv, NEW H \in SUBSET Handlers, Forget(H)
  PROVE  \A g \in Handlers : IF g \in H THEN Over(g) ELSE Stays(g)
BY DEF Forget, Stays, Over, IInv, TypeOK

LEMMA InnerPreserved ==
  ASSUME IInv, [Next]_vars PROVE Inner'
<1> USE EnrolmentConstants DEF tableVars, searchVars, requestVars
<1>1. ASSUME NEW h \in Handlers, NEW p \in Processes, NEW u \in Users, NEW t \in Templates,
             UploadFace(h, p, u, t) \/ UpdateReference(h, p, u, t)
      PROVE  Inner'
  <2>1. PICK stage \in {"find", "image", "lookup"} : Fresh(t) /\ Begin(h, p, u, t, stage)
    BY <1>1 DEF UploadFace, UpdateReference
  <2> QED BY <2>1, Begun
<1>18. ASSUME NEW h \in Handlers, NEW p \in Processes, NEW u \in Users, Search(h, p, u)
       PROVE  Inner'
  <2>1. PICK t \in Templates \cup {None}, stage \in {"find", "image", "lookup"} :
           stage = "lookup" /\ t = None /\ Begin(h, p, u, t, stage)
    BY <1>18 DEF Search
  <2> QED BY <2>1, Begun
<1>2. ASSUME NEW h \in Handlers, FindUser(h) PROVE Inner'
  <2>1. PICK stage \in {"image", "insert"} : Goto(h, stage, {}, {})
    BY <1>2 DEF FindUser
  <2>2. pc[h] = "find" /\ UNCHANGED <<rows, owner, author>>
    BY <1>2 DEF FindUser, At
  <2>3. GoesOn(h)
    BY <2>1, <2>2, GotoMoves DEF GoesOn, Before, Enrolling
  <2> QED
    BY <2>1, <2>2, <2>3, GotoMoves, NoRowAdded
<1>3. ASSUME NEW h \in Handlers, InsertUser(h) PROVE Inner'
  <2>1. pc[h] = "insert" /\ UNCHANGED <<rows, owner, author>>
    BY <1>3 DEF InsertUser, At
  <2>2. CASE Forget({h})
    BY <2>1, <2>2, ForgetMoves, NoRowAdded
  <2>3. CASE Goto(h, "image", {}, {})
    <3>1. GoesOn(h)
      BY <2>1, <2>3, GotoMoves DEF GoesOn, Before, Enrolling
    <3> QED BY <2>1, <2>3, <3>1, GotoMoves, NoRowAdded
  <2> QED BY <1>3, <2>2, <2>3 DEF InsertUser
<1>4. ASSUME NEW h \in Handlers, AcceptImage(h) PROVE Inner'
  <2>1. pc[h] = "image" /\ Goto(h, "select", {}, {}) /\ UNCHANGED <<rows, owner, author>>
    BY <1>4 DEF AcceptImage, At
  <2>2. GoesOn(h)
    BY <2>1, GotoMoves DEF GoesOn, Before, Enrolling
  <2> QED BY <2>1, <2>2, GotoMoves, NoRowAdded
<1>5. ASSUME NEW h \in Handlers, RefuseImage(h) PROVE Inner'
  BY <1>5, ForgetMoves, NoRowAdded DEF RefuseImage
<1>6. ASSUME NEW h \in Handlers, SelectOld(h) PROVE Inner'
  <2>1. /\ pc[h] = "select" /\ Goto(h, "delete", TemplatesOf(who[h], rows), {})
        /\ UNCHANGED <<rows, owner, author>>
    BY <1>6 DEF SelectOld, At
  <2>2. GoesOn(h)
    BY <2>1, GotoMoves DEF GoesOn, Before, Enrolling
  <2> QED BY <2>1, <2>2, GotoMoves, NoRowAdded
<1>7. ASSUME NEW h \in Handlers, DeleteOld(h) PROVE Inner'
  <2>1. /\ pc[h] = "delete" /\ Goto(h, "create", {}, {}) /\ rows' = rows \ seen[h]
        /\ UNCHANGED <<owner, author>>
    BY <1>7 DEF DeleteOld, At
  <2>2. GoesOn(h)
    BY <2>1, GotoMoves DEF GoesOn, Before, Enrolling
  <2> QED BY <2>1, <2>2, GotoMoves, NoRowAdded
<1>8. ASSUME NEW h \in Handlers, DeleteFails(h) PROVE Inner'
  BY <1>8, ForgetMoves, NoRowAdded DEF DeleteFails
<1>9. ASSUME NEW h \in Handlers, CreateRow(h) PROVE Inner'
  <2>1. pc[h] = "create" /\ Goto(h, "scan", {}, {}) /\ AddRow(h)
    BY <1>9 DEF CreateRow, At
  <2>2. pc'[h] = "scan" /\ GoesOn(h)
    BY <2>1, GotoMoves DEF GoesOn, Before, Enrolling
  <2> QED BY <2>1, <2>2, GotoMoves, RowAdded
<1>10. ASSUME NEW h \in Handlers, CreateFails(h) PROVE Inner'
  <2>1. pc[h] = "create" /\ Forget({h})
    BY <1>10 DEF CreateFails, At
  <2>2. CASE AddRow(h)
    BY <2>1, <2>2, ForgetMoves, RowAdded
  <2>3. CASE UNCHANGED <<rows, owner, author>>
    BY <2>1, <2>3, ForgetMoves, NoRowAdded
  <2> QED BY <1>10, <2>2, <2>3 DEF CreateFails
<1>11. ASSUME NEW h \in Handlers, ScanCache(h) PROVE Inner'
  <2>1. PICK K : Goto(h, "purge", {}, K)
    BY <1>11 DEF ScanCache
  <2>2. pc[h] = "scan" /\ UNCHANGED <<rows, owner, author>>
    BY <1>11 DEF ScanCache, At
  <2>3. GoesOn(h)
    BY <2>1, <2>2, GotoMoves DEF GoesOn, Before, Enrolling
  <2> QED BY <2>1, <2>2, <2>3, GotoMoves, NoRowAdded
<1>12. ASSUME NEW h \in Handlers, Purge(h) PROVE Inner'
  BY <1>12, ForgetMoves, NoRowAdded DEF Purge
<1>13. ASSUME NEW h \in Handlers, pc[h] \in Searching, UNCHANGED <<rows, owner, author>>,
              \/ Forget({h})
              \/ \E stage \in Searching, S \in SUBSET Templates : Goto(h, stage, S, {})
       PROVE  Inner'
  <2>1. CASE Forget({h})
    BY <1>13, <2>1, ForgetMoves, NoRowAdded
  <2>2. ASSUME NEW stage \in Searching, NEW S \in SUBSET Templates, Goto(h, stage, S, {})
        PROVE  Inner'
    <3>1. GoesOn(h)
      BY <1>13, <2>2, GotoMoves DEF GoesOn, Before, Enrolling, Searching
    <3> QED BY <1>13, <2>2, <3>1, GotoMoves, NoRowAdded
  <2> QED BY <1>13, <2>1, <2>2
<1>14. ASSUME NEW h \in Handlers, Find(h) PROVE Inner'
  <2>1. TemplatesOf(who[h], rows) \in SUBSET Templates
    BY DEF TemplatesOf, IInv, TypeOK
  <2>2. CASE Lookup(h)
    <3>1. pc[h] \in Searching /\ proc[h] \in Processes
      BY <2>2 DEF Lookup, At, Searching, IInv, Inner, Prepared
    <3>2. TemplatesOf(who[h], index[proc[h]]) \in SUBSET Templates
      BY <3>1 DEF TemplatesOf, IInv, TypeOK
    <3> QED BY <1>13, <2>2, <3>1, <3>2 DEF Lookup, Searching
  <2>3. CASE Store(h)
    BY <1>13, <2>3 DEF Store, Searching
  <2>4. CASE ReadTable(h)
    BY <1>13, <2>1, <2>4 DEF ReadTable, Searching
  <2>5. CASE Keep(h)
    BY <1>13, <2>5 DEF Keep, At, Searching
  <2> QED BY <1>14, <2>2, <2>3, <2>4, <2>5 DEF Find
<1>15. ASSUME NEW u \in Users, Lapse(u) PROVE Inner'
  BY <1>15, NoRowAdded DEF Lapse, Stays
<1>16. ASSUME NEW p \in Processes, Restart(p) PROVE Inner'
  BY <1>16, ForgetMoves, NoRowAdded DEF Restart
<1>17. ASSUME UNCHANGED vars PROVE Inner'
  BY <1>17, NoRowAdded DEF vars, Stays
<1> QED
  BY <1>1, <1>2, <1>3, <1>4, <1>5, <1>6, <1>7, <1>8, <1>9, <1>10, <1>11, <1>12,
     <1>14, <1>15, <1>16, <1>17, <1>18 DEF Next, Enrol

-----------------------------------------------------------------------------
LEMMA TypePreserved ==
  ASSUME IInv, [Next]_vars PROVE TypeOK'
<1> USE EnrolmentConstants DEF TypeOK, tableVars, searchVars, requestVars, Enrolling, Searching
<1>1. ASSUME NEW h \in Handlers, NEW p \in Processes, NEW u \in Users, NEW t \in Templates \cup {None},
             NEW stage \in {"find", "image", "lookup"}, Begin(h, p, u, t, stage)
      PROVE  TypeOK'
  BY <1>1 DEF Begin, IInv
<1>2. ASSUME NEW h \in Handlers, FindUser(h) PROVE TypeOK'
  BY <1>2 DEF FindUser, Goto, IInv
<1>3. ASSUME NEW h \in Handlers, InsertUser(h) PROVE TypeOK'
  BY SMTT(30), <1>3 DEF InsertUser, Goto, Forget, IInv
<1>4. ASSUME NEW h \in Handlers, AcceptImage(h) PROVE TypeOK'
  BY <1>4 DEF AcceptImage, Goto, IInv
<1>5. ASSUME NEW h \in Handlers, RefuseImage(h) PROVE TypeOK'
  BY <1>5 DEF RefuseImage, Forget, Rollback, Mishap, IInv
<1>6. ASSUME NEW h \in Handlers, SelectOld(h) PROVE TypeOK'
  BY <1>6 DEF SelectOld, Goto, TemplatesOf, IInv
<1>7. ASSUME NEW h \in Handlers, DeleteOld(h) PROVE TypeOK'
  BY <1>7 DEF DeleteOld, Goto, CommitUser, Rollback, IInv
<1>8. ASSUME NEW h \in Handlers, DeleteFails(h) PROVE TypeOK'
  BY <1>8 DEF DeleteFails, Forget, CommitUser, Rollback, Mishap, IInv
<1>9. ASSUME NEW h \in Handlers, pc[h] = "create", AddRow(h)
      PROVE  /\ rows' \subseteq Templates
             /\ owner' \in [Templates -> Users \cup {None}]
             /\ author' \in [Templates -> (Handlers \X Processes) \cup {None}]
             /\ newest' \in [Users -> Templates \cup {None}]
  <2>1. tpl[h] \in Templates /\ who[h] \in Users /\ proc[h] \in Processes
    BY <1>9 DEF IInv, Inner, Prepared
  <2> QED BY <1>9, <2>1 DEF AddRow, IInv
<1>10. ASSUME NEW h \in Handlers, CreateRow(h) PROVE TypeOK'
  BY <1>9, <1>10 DEF CreateRow, At, Goto, IInv
<1>11. ASSUME NEW h \in Handlers, CreateFails(h) PROVE TypeOK'
  <2>1. Forget({h}) /\ pc[h] = "create" /\ UNCHANGED <<users, pending, searchVars>>
    BY <1>11 DEF CreateFails, At
  <2>2. mishaps' \in 0 .. MaxMishaps
    BY <1>11 DEF CreateFails, Mishap, IInv
  <2>3. CASE AddRow(h)
    BY <1>9, <2>1, <2>2, <2>3 DEF Forget, IInv
  <2>4. CASE UNCHANGED <<rows, owner, author, newest>>
    BY <2>1, <2>2, <2>4 DEF Forget, IInv
  <2> QED BY <1>11, <2>3, <2>4 DEF CreateFails
<1>12. ASSUME NEW h \in Handlers, ScanCache(h) PROVE TypeOK'
  BY SMTT(30), <1>12 DEF ScanCache, Goto, Mishap, IInv
<1>13. ASSUME NEW h \in Handlers, Purge(h) PROVE TypeOK'
  <2>1. tpl[h] \in Templates /\ proc[h] \in Processes
    BY <1>13 DEF Purge, IInv, Inner, Prepared
  <2>2. index' \in [Processes -> SUBSET Templates]
    BY <1>13, <2>1 DEF Purge, IndexAfter, IInv
  <2> QED BY <1>13, <2>2 DEF Purge, Forget, Mishap, IInv
<1>14. ASSUME NEW h \in Handlers, pc[h] \in Searching
       PROVE  /\ who[h] \in Users /\ proc[h] \in Processes
              /\ TemplatesOf(who[h], rows) \subseteq Templates
              /\ TemplatesOf(who[h], index[proc[h]]) \subseteq Templates
  <2>1. who[h] \in Users /\ proc[h] \in Processes
    BY <1>14 DEF IInv, Inner, Prepared
  <2> QED BY <2>1 DEF TemplatesOf, IInv
<1>15. ASSUME NEW h \in Handlers, Lookup(h) PROVE TypeOK'
  <2>1. pc[h] = "lookup" /\ mishaps' \in 0 .. MaxMishaps /\ UNCHANGED <<tableVars, searchVars>>
    BY <1>15 DEF Lookup, At, Mishap, IInv
  <2>2. TemplatesOf(who[h], index[proc[h]]) \subseteq Templates
    BY <1>14, <2>1
  <2>3. CASE Forget({h})
    BY <2>1, <2>3 DEF Forget, IInv
  <2>4. ASSUME NEW stage \in {"store", "topk"}, NEW S \in SUBSET Templates, Goto(h, stage, S, {})
        PROVE  TypeOK'
    BY <2>1, <2>4 DEF Goto, IInv
  <2> QED BY <1>15, <2>2, <2>3, <2>4 DEF Lookup
<1>16. ASSUME NEW h \in Handlers, Store(h) PROVE TypeOK'
  <2>1. who[h] \in Users /\ proc[h] \in Processes
    BY <1>14, <1>16 DEF Store
  <2>2. /\ cache' \in [Users -> (SUBSET Templates) \cup {None}]
        /\ filler' \in [Users -> Processes \cup {None}]
        /\ mishaps' \in 0 .. MaxMishaps
    BY <1>16, <2>1 DEF Store, FillCache, Mishap, IInv
  <2>3. UNCHANGED <<tableVars, index>>
    BY <1>16 DEF Store
  <2>4. CASE Forget({h})
    BY <2>2, <2>3, <2>4 DEF Forget, IInv
  <2>5. CASE Goto(h, "topk", {}, {})
    BY <2>2, <2>3, <2>5 DEF Goto, IInv
  <2> QED BY <1>16, <2>4, <2>5 DEF Store
<1>17. ASSUME NEW h \in Handlers, ReadTable(h) PROVE TypeOK'
  BY SMTT(30), <1>14, <1>17 DEF ReadTable, Goto, Forget, Mishap, IInv
<1>18. ASSUME NEW h \in Handlers, Keep(h) PROVE TypeOK'
  <2>1. who[h] \in Users
    BY <1>14, <1>18 DEF Keep, At
  <2>2. /\ cache' \in [Users -> (SUBSET Templates) \cup {None}]
        /\ filler' \in [Users -> Processes \cup {None}]
        /\ mishaps' \in 0 .. MaxMishaps
    BY <1>18, <2>1 DEF Keep, FillCache, Mishap, IInv
  <2> QED BY <1>18, <2>2 DEF Keep, Forget, IInv
<1>19. ASSUME NEW u \in Users, Lapse(u) PROVE TypeOK'
  BY <1>19 DEF Lapse, IInv
<1>20. ASSUME NEW p \in Processes, Restart(p) PROVE TypeOK'
  BY <1>20 DEF Restart, Forget, Rollback, Mishap, IInv
<1>21. CASE UNCHANGED vars
  BY <1>21 DEF vars, IInv
<1>22. ASSUME NEW h \in Handlers, NEW p \in Processes, NEW u \in Users, NEW t \in Templates,
              UploadFace(h, p, u, t) \/ UpdateReference(h, p, u, t)
       PROVE  TypeOK'
  BY <1>1, <1>22 DEF UploadFace, UpdateReference
<1>23. ASSUME NEW h \in Handlers, NEW p \in Processes, NEW u \in Users, Search(h, p, u)
       PROVE  TypeOK'
  BY <1>1, <1>23 DEF Search
<1> QED
  BY <1>2, <1>3, <1>4, <1>5, <1>6, <1>7, <1>8, <1>10, <1>11, <1>12, <1>13, <1>15, <1>16,
     <1>17, <1>18, <1>19, <1>20, <1>21, <1>22, <1>23 DEF Next, Enrol, Find

THEOREM Invariance == Spec => []IInv
<1>1. Init => IInv
  BY EnrolmentConstants
  DEF Init, IInv, TypeOK, Inner, Prepared, Registered, Replacing, OnePerAuthor, Before, Enrolling
<1>2. IInv /\ [Next]_vars => IInv'
  BY TypePreserved, InnerPreserved DEF IInv
<1> QED
  BY <1>1, <1>2, PTL DEF Spec

(* Type correctness of enrolment and search: a request in the middle of an
   enrolment always has the user, process and template its steps use. *)
THEOREM TypeCorrect == Spec => []TypeOK
  BY Invariance, PTL DEF IInv

(* However many enrolments of a user run at once, and whatever fails, the table
   keeps at most one template of the user per request slot. *)
THEOREM Bounded == Spec => []TemplatesBounded
<1>1. ASSUME IInv, NEW u \in Users
      PROVE  Cardinality(TemplatesOf(u, rows)) <= Cardinality(Handlers)
  <2> DEFINE T == TemplatesOf(u, rows)
             f == [t \in T |-> author[t][1]]
  <2>1. \A t \in T : author[t][1] \in Handlers
    BY <1>1 DEF TemplatesOf, IInv, Inner, Registered
  <2>2. \A s, t \in T : s # t => author[s][1] # author[t][1]
    BY <1>1 DEF TemplatesOf, IInv, Inner, OnePerAuthor
  <2>3. f \in Injection(T, Handlers)
    BY <2>1, <2>2 DEF Injection, IsInjective
  <2>4. IsFiniteSet(Handlers)
    BY EnrolmentConstants
  <2> HIDE DEF T, f
  <2>5. Cardinality(T) <= Cardinality(Handlers)
    BY <2>3, <2>4, FS_Injection
  <2> QED BY <2>5 DEF T
<1>2. IInv => TemplatesBounded
  BY <1>1 DEF TemplatesBounded, IInv, Inner, OnePerAuthor
<1> QED
  BY <1>2, Invariance, PTL

-----------------------------------------------------------------------------
(* Runs without mishaps *)

(* An enrolment has committed template t and not extended the index yet. *)
Committing(t) == \E h \in Handlers : pc[h] \in {"scan", "purge"} /\ tpl[h] = t

(* Tables: who owns the newest template, and where it can be. *)
NewestOwned ==
  \A u \in Users : newest[u] # None =>
    /\ newest[u] \in Templates /\ u \in users
    /\ owner[newest[u]] = u /\ author[newest[u]][2] \in Processes

SelectedOwned ==
  \A h \in Handlers : pc[h] = "delete" => \A t \in seen[h] : owner[t] = who[h]

NewestHeld ==
  \A u \in Users : (newest[u] # None /\ newest[u] \notin rows) =>
    \E h \in Handlers : who[h] = u /\ pc[h] = "create"

(* Index: what was ever committed is in the index of its process, or will be
   when that enrolment ends. *)
CommitsKnown ==
  \A h \in Handlers : pc[h] \in {"scan", "purge"} =>
    author[tpl[h]] = <<h, proc[h]>> /\ owner[tpl[h]] = who[h]

IndexOwned == \A p \in Processes : \A t \in index[p] : owner[t] # None

IndexHas ==
  FaissEnabled =>
    \A t \in Templates : owner[t] # None =>
      author[t][2] \in Processes /\ (t \in index[author[t][2]] \/ Committing(t))

(* Cache: of one process only one request is between two Redis calls. *)
Alone ==
  \A g, h \in Handlers :
    (g # h /\ proc[g] = proc[h] /\ pc[g] \in {"purge", "store"}) => pc[h] \notin {"purge", "store"}

StoreReads ==
  \A h \in Handlers : pc[h] = "store" => TemplatesOf(who[h], index[proc[h]]) \subseteq seen[h]

PurgeFinds ==
  \A h \in Handlers : pc[h] = "purge" =>
    \A u \in Users : cache[u] = None \/ u \in keys[h] \/ filler[u] # proc[h]

AnswersFresh ==
  FaissEnabled =>
    \A u \in Users : (newest[u] # None /\ cache[u] # None) =>
      \/ newest[u] \in cache[u]
      \/ filler[u] # author[newest[u]][2]
      \/ Committing(newest[u])

Tables   == NewestOwned /\ SelectedOwned /\ NewestHeld
Indexes  == CommitsKnown /\ IndexOwned /\ IndexHas
Caches   == Alone /\ StoreReads /\ PurgeFinds /\ AnswersFresh
Coherent == Tables /\ Indexes /\ Caches
Smooth   == mishaps = 0 => Coherent

(* A request that stays as it is, or neither is about to publish a row before
   or after the step nor gives up one it could commit. *)
Plain(h) ==
  \/ Stays(h) /\ keys'[h] = keys[h]
  \/ /\ pc[h] \notin {"scan", "purge"}
     /\ pc[h] = "create" => who[h] \notin users
     /\ pc'[h] \notin {"scan", "purge", "store"}
     /\ pc'[h] = "delete" => \A t \in seen'[h] : owner[t] = who'[h]

(* What a step may do to the cached answer of user u: keep it, drop it, or
   replace it by one of the table or of a process that has its result. *)
Answered(u) ==
  \/ cache'[u] = None
  \/ cache'[u] = cache[u] /\ filler'[u] = filler[u]
  \/ filler'[u] = None
  \/ \E h \in Handlers :
       pc[h] = "store" /\ who[h] = u /\ cache'[u] = seen[h] /\ filler'[u] = proc[h]

(* Rows go only to make place for one of the same user. *)
Replaced ==
  /\ rows' \subseteq rows
  /\ \A t \in rows \ rows' : \E h \in Handlers : pc'[h] = "create" /\ who'[h] = owner[t]

LEMMA CommittingKept ==
  ASSUME \A h \in Handlers : Plain(h), NEW t
  PROVE  Committing(t)' <=> Committing(t)
BY DEF Plain, Stays, Committing

LEMMA PlainStep ==
  ASSUME IInv, Coherent, UNCHANGED <<owner, author, newest, index>>, users \subseteq users',
         Replaced, \A h \in Handlers : Plain(h), \A u \in Users : Answered(u)
  PROVE  Coherent'
<1> USE EnrolmentConstants
<1>1. NewestOwned'
  BY DEF NewestOwned, Coherent, Tables
<1>2. SelectedOwned'
  BY DEF SelectedOwned, Coherent, Tables, Plain, Stays
<1>3. NewestHeld'
  <2> SUFFICES ASSUME NEW u \in Users, newest[u] # None, newest[u] \notin rows'
               PROVE  \E h \in Handlers : who'[h] = u /\ pc'[h] = "create"
    BY DEF NewestHeld
  <2>1. u \in users /\ owner[newest[u]] = u
    BY DEF NewestOwned, Coherent, Tables
  <2>2. CASE newest[u] \in rows
    BY <2>1, <2>2 DEF Replaced
  <2>3. CASE newest[u] \notin rows
    <3>1. PICK h \in Handlers : who[h] = u /\ pc[h] = "create"
      BY <2>3 DEF NewestHeld, Coherent, Tables
    <3> QED BY <2>1, <3>1 DEF Plain, Stays
  <2> QED BY <2>2, <2>3
<1>4. CommitsKnown'
  BY DEF CommitsKnown, Coherent, Indexes, Plain, Stays
<1>5. IndexOwned'
  BY DEF IndexOwned, Coherent, Indexes
<1>6. IndexHas'
  <2>1. \A t \in Templates : Committing(t)' <=> Committing(t)
    BY CommittingKept
  <2> QED BY <2>1 DEF IndexHas, Coherent, Indexes
<1>7. Alone'
  BY DEF Alone, Coherent, Caches, Plain, Stays
<1>8. StoreReads'
  BY DEF StoreReads, TemplatesOf, Coherent, Caches, Plain, Stays
<1>9. PurgeFinds'
  <2> SUFFICES ASSUME NEW h \in Handlers, pc'[h] = "purge", NEW u \in Users
               PROVE  cache'[u] = None \/ u \in keys'[h] \/ filler'[u] # proc'[h]
    BY DEF PurgeFinds
  <2>1. Stays(h) /\ keys'[h] = keys[h]
    BY DEF Plain
  <2>2. proc[h] \in Processes /\ pc[h] = "purge" /\ proc'[h] = proc[h]
    BY <2>1 DEF Stays, IInv, Inner, Prepared
  <2>3. ASSUME NEW g \in Handlers, pc[g] = "store" PROVE proc[g] # proc[h]
    BY <2>2, <2>3 DEF Alone, Coherent, Caches
  <2> QED BY <2>1, <2>2, <2>3 DEF Answered, PurgeFinds, Coherent, Caches
<1>10. AnswersFresh'
  <2> SUFFICES ASSUME FaissEnabled, NEW u \in Users, newest[u] # None, cache'[u] # None
               PROVE  \/ newest[u] \in cache'[u]
                      \/ filler'[u] # author[newest[u]][2]
                      \/ Committing(newest[u])'
    BY DEF AnswersFresh
  <2>1. /\ newest[u] \in Templates /\ owner[newest[u]] = u
        /\ author[newest[u]][2] \in Processes
    BY DEF NewestOwned, Coherent, Tables
  <2>2. CASE cache'[u] = cache[u] /\ filler'[u] = filler[u]
    BY <2>2, CommittingKept DEF AnswersFresh, Coherent, Caches
  <2>3. CASE filler'[u] = None
    BY <2>1, <2>3
  <2>4. ASSUME NEW h \in Handlers, pc[h] = "store", who[h] = u, cache'[u] = seen[h],
               filler'[u] = proc[h], proc[h] = author[newest[u]][2]
        PROVE  newest[u] \in cache'[u] \/ Committing(newest[u])'
    <3>1. newest[u] \in index[proc[h]] \/ Committing(newest[u])
      BY <2>1, <2>4 DEF IndexHas, Coherent, Indexes
    <3>2. newest[u] \in index[proc[h]] => newest[u] \in seen[h]
      BY <2>1, <2>4 DEF StoreReads, TemplatesOf, Coherent, Caches
    <3> QED BY <2>4, <3>1, <3>2, CommittingKept
  <2> QED BY <2>2, <2>3, <2>4 DEF Answered
<1> QED
  BY <1>1, <1>2, <1>3, <1>4, <1>5, <1>6, <1>7, <1>8, <1>9, <1>10
  DEF Coherent, Tables, Indexes, Caches

(* A request enters the span between two Redis calls. *)
LEMMA EnterStep ==
  ASSUME IInv, Coherent, NEW h \in Handlers, Runs(h), UNCHANGED <<tableVars, searchVars>>,
         NEW S \in SUBSET Templates, NEW K,
         \/ pc[h] = "scan" /\ K = {u \in Users : cache[u] # None} /\ Goto(h, "purge", S, K)
         \/ pc[h] = "lookup" /\ S = TemplatesOf(who[h], index[proc[h]]) /\ Goto(h, "store", S, K)
  PROVE  Coherent'
<1> USE EnrolmentConstants
<1>1. /\ \A g \in Handlers \ {h} : Stays(g) /\ keys'[g] = keys[g]
      /\ who'[h] = who[h] /\ proc'[h] = proc[h] /\ tpl'[h] = tpl[h]
      /\ seen'[h] = S /\ keys'[h] = K
      /\ \/ pc[h] = "scan" /\ pc'[h] = "purge" /\ K = {u \in Users : cache[u] # None}
         \/ pc[h] = "lookup" /\ pc'[h] = "store" /\ S = TemplatesOf(who[h], index[proc[h]])
  BY DEF Goto, Stays, IInv, TypeOK
<1>2. UNCHANGED <<users, rows, owner, author, newest, index, cache, filler>>
  BY DEF tableVars, searchVars
<1>3. ASSUME NEW t PROVE Committing(t)' <=> Committing(t)
  BY <1>1 DEF Committing, Stays
<1>4. Tables'
  BY <1>1, <1>2 DEF Stays, Coherent, Tables, NewestOwned, SelectedOwned, NewestHeld
<1>5. CommitsKnown' /\ IndexOwned'
  <2>1. \A g \in Handlers : pc'[g] \in {"scan", "purge"} => pc[g] \in {"scan", "purge"}
    BY <1>1 DEF Stays
  <2>2. UNCHANGED <<who, proc, tpl>>
    BY DEF Goto
  <2> QED BY <1>2, <2>1, <2>2 DEF Coherent, Indexes, CommitsKnown, IndexOwned
<1>6. IndexHas'
  BY <1>2, <1>3 DEF Coherent, Indexes, IndexHas
<1>7. Alone'
  BY <1>1 DEF Runs, Stays, Alone, Coherent, Caches
<1>8. StoreReads'
  BY <1>1, <1>2 DEF Stays, StoreReads, TemplatesOf, Coherent, Caches
<1>9. PurgeFinds'
  BY <1>1, <1>2 DEF Stays, PurgeFinds, Coherent, Caches
<1>10. AnswersFresh'
  BY <1>2, <1>3 DEF AnswersFresh, Coherent, Caches
<1> QED
  BY <1>4, <1>5, <1>6, <1>7, <1>8, <1>9, <1>10 DEF Coherent, Indexes, Caches

LEMMA CreateStep ==
  ASSUME IInv, Coherent, NEW h \in Handlers, pc[h] = "create", AddRow(h), Goto(h, "scan", {}, {}),
         UNCHANGED <<users, searchVars>>
  PROVE  Coherent'
<1> USE EnrolmentConstants
<1>1. PICK t \in Templates : t = tpl[h]
  BY DEF IInv, Inner, Prepared, Enrolling
<1>2. PICK v \in Users : v = who[h]
  BY DEF IInv, Inner, Prepared
<1>3. PICK p \in Processes : p = proc[h]
  BY DEF IInv, Inner, Prepared
<1>4. /\ owner[t] = None /\ \A g \in Handlers : g # h => tpl[g] # t
  BY <1>1 DEF IInv, Inner, Prepared, Before
<1>5. /\ \A g \in Handlers \ {h} : Stays(g) /\ keys'[g] = keys[g]
      /\ who'[h] = v /\ proc'[h] = p /\ tpl'[h] = t /\ pc'[h] = "scan"
  BY <1>1, <1>2, <1>3 DEF Goto, Stays, IInv, TypeOK
<1>6. /\ rows' = rows \cup {t} /\ v \in users
      /\ owner'[t] = v /\ \A x \in Templates \ {t} : owner'[x] = owner[x]
      /\ author'[t] = <<h, p>> /\ \A x \in Templates \ {t} : author'[x] = author[x]
      /\ newest'[v] = t /\ \A u \in Users \ {v} : newest'[u] = newest[u]
  BY <1>1, <1>2, <1>3 DEF AddRow, IInv, TypeOK
<1>7. UNCHANGED <<users, index, cache, filler>>
  BY DEF searchVars
<1>8. ASSUME NEW x, Committing(x) PROVE Committing(x)'
  BY <1>5, <1>8 DEF Committing, Stays
<1>9. \A u \in Users : newest[u] # None => newest[u] \in Templates /\ newest[u] # t
  BY <1>4 DEF Coherent, Tables, NewestOwned
<1>10. NewestOwned'
  BY <1>6, <1>7, <1>9 DEF NewestOwned, Coherent, Tables
<1>11. SelectedOwned'
  <2> SUFFICES ASSUME NEW g \in Handlers, pc'[g] = "delete", NEW x \in seen'[g]
               PROVE  owner'[x] = who'[g]
    BY DEF SelectedOwned
  <2>1. g # h /\ Stays(g)
    BY <1>5
  <2>2. owner[x] = who[g] /\ who[g] \in Users /\ x \in Templates
    BY <2>1 DEF Stays, SelectedOwned, Coherent, Tables, IInv, TypeOK, Inner, Prepared
  <2> QED BY <1>4, <1>6, <2>1, <2>2 DEF Stays
<1>12. NewestHeld'
  <2> SUFFICES ASSUME NEW u \in Users, newest'[u] # None, newest'[u] \notin rows'
               PROVE  \E g \in Handlers : who'[g] = u /\ pc'[g] = "create"
    BY DEF NewestHeld
  <2>1. u # v /\ newest[u] = newest'[u] /\ newest[u] \notin rows
    BY <1>6
  <2>2. PICK g \in Handlers : who[g] = u /\ pc[g] = "create"
    BY <2>1 DEF NewestHeld, Coherent, Tables
  <2> QED BY <1>2, <1>5, <2>1, <2>2 DEF Stays
<1>13. CommitsKnown'
  <2> SUFFICES ASSUME NEW g \in Handlers, pc'[g] \in {"scan", "purge"}
               PROVE  author'[tpl'[g]] = <<g, proc'[g]>> /\ owner'[tpl'[g]] = who'[g]
    BY DEF CommitsKnown
  <2>1. CASE g = h
    BY <1>5, <1>6, <2>1
  <2>2. CASE g # h
    <3>1. /\ Stays(g) /\ pc[g] \in {"scan", "purge"}
          /\ author[tpl[g]] = <<g, proc[g]>> /\ owner[tpl[g]] = who[g]
      BY <1>5, <2>2 DEF Stays, CommitsKnown, Coherent, Indexes
    <3>2. tpl[g] \in Templates \ {t}
      BY <1>4, <2>2, <3>1 DEF IInv, Inner, Prepared, Enrolling
    <3>3. author'[tpl[g]] = author[tpl[g]] /\ owner'[tpl[g]] = owner[tpl[g]]
      BY <1>6, <3>2
    <3> QED BY <3>1, <3>3 DEF Stays
  <2> QED BY <2>1, <2>2
<1>14. \A q \in Processes : \A x \in index[q] : x \in Templates \ {t} /\ owner[x] # None
  BY <1>4 DEF IndexOwned, Coherent, Indexes, IInv, TypeOK
<1>15. IndexOwned'
  BY <1>6, <1>7, <1>14 DEF IndexOwned
<1>16. IndexHas'
  <2> SUFFICES ASSUME FaissEnabled, NEW x \in Templates, owner'[x] # None
               PROVE  /\ author'[x][2] \in Processes
                      /\ x \in index[author'[x][2]] \/ Committing(x)'
    BY <1>7 DEF IndexHas
  <2>1. CASE x = t
    BY <1>5, <1>6, <2>1 DEF Committing
  <2>2. CASE x # t
    BY <1>6, <1>8, <2>2 DEF IndexHas, Coherent, Indexes
  <2> QED BY <2>1, <2>2
<1>17. Alone'
  BY <1>5 DEF Stays, Alone, Coherent, Caches
<1>18. StoreReads'
  <2> SUFFICES ASSUME NEW g \in Handlers, pc'[g] = "store",
                      NEW x \in index[proc'[g]], owner'[x] = who'[g]
               PROVE  x \in seen'[g]
    BY <1>7 DEF StoreReads, TemplatesOf
  <2>1. Stays(g) /\ pc[g] = "store" /\ proc[g] \in Processes
    BY <1>5 DEF Stays, IInv, Inner, Prepared
  <2>2. x \in index[proc[g]] /\ owner[x] = who[g]
    BY <1>6, <1>14, <2>1 DEF Stays
  <2> QED BY <2>1, <2>2 DEF Stays, StoreReads, TemplatesOf, Coherent, Caches
<1>19. PurgeFinds'
  BY <1>5, <1>7 DEF Stays, PurgeFinds, Coherent, Caches
<1>20. AnswersFresh'
  <2> SUFFICES ASSUME FaissEnabled, NEW u \in Users, newest'[u] # None, cache[u] # None
               PROVE  \/ newest'[u] \in cache[u]
                      \/ filler[u] # author'[newest'[u]][2]
                      \/ \E g \in Handlers : pc'[g] \in {"scan", "purge"} /\ tpl'[g] = newest'[u]
    BY <1>7 DEF AnswersFresh, Committing
  <2>1. CASE u = v
    BY <1>5, <1>6, <2>1
  <2>2. CASE u # v
    <3>1. newest'[u] = newest[u] /\ author'[newest[u]] = author[newest[u]]
      BY <1>6, <1>9, <2>2
    <3>2. \/ newest[u] \in cache[u]
          \/ filler[u] # author[newest[u]][2]
          \/ Committing(newest[u])
      BY <3>1 DEF AnswersFresh, Coherent, Caches
    <3>3. Committing(newest[u]) =>
            \E g \in Handlers : pc'[g] \in {"scan", "purge"} /\ tpl'[g] = newest[u]
      BY <1>5 DEF Committing, Stays
    <3> QED BY <3>1, <3>2, <3>3
  <2> QED BY <2>1, <2>2
<1> QED
  BY <1>10, <1>11, <1>12, <1>13, <1>15, <1>16, <1>17, <1>18, <1>19, <1>20
  DEF Coherent, Tables, Indexes, Caches

LEMMA PurgeStep ==
  ASSUME IInv, Coherent, NEW h \in Handlers, pc[h] = "purge", Forget({h}),
         cache' = [u \in Users |-> IF u \in keys[h] THEN None ELSE cache[u]],
         index' = IndexAfter(h), UNCHANGED <<tableVars, filler>>
  PROVE  Coherent'
<1> USE EnrolmentConstants
<1>1. PICK t \in Templates : t = tpl[h]
  BY DEF IInv, Inner, Prepared, Enrolling
<1>2. PICK p \in Processes : p = proc[h]
  BY DEF IInv, Inner, Prepared
<1>3. /\ \A g \in Handlers \ {h} : Stays(g) /\ keys'[g] = keys[g]
      /\ pc'[h] = "idle"
  BY DEF Forget, Stays
<1>4. UNCHANGED <<users, rows, owner, author, newest, filler>>
  BY DEF tableVars
<1>5. author[t] = <<h, p>> /\ owner[t] \in Users
  BY <1>1, <1>2 DEF CommitsKnown, Coherent, Indexes, IInv, Inner, Prepared
<1>6. /\ \A q \in Processes : index[q] \subseteq index'[q]
      /\ \A q \in Processes \ {p} : index'[q] = index[q]
      /\ index'[p] \subseteq index[p] \cup {t}
      /\ FaissEnabled => t \in index'[p]
  BY <1>1, <1>2 DEF IndexAfter, IInv, TypeOK
<1>7. ASSUME NEW x, Committing(x), x # t PROVE Committing(x)'
  BY <1>1, <1>3, <1>7 DEF Committing, Stays
<1>8. Tables'
  BY <1>3, <1>4 DEF Stays, Coherent, Tables, NewestOwned, SelectedOwned, NewestHeld
<1>9. CommitsKnown'
  BY <1>3, <1>4 DEF Stays, CommitsKnown, Coherent, Indexes
<1>10. IndexOwned'
  BY <1>4, <1>5, <1>6 DEF IndexOwned, Coherent, Indexes
<1>11. IndexHas'
  <2> SUFFICES ASSUME FaissEnabled, NEW x \in Templates, owner[x] # None
               PROVE  /\ author[x][2] \in Processes
                      /\ x \in index'[author[x][2]] \/ Committing(x)'
    BY <1>4 DEF IndexHas
  <2>1. CASE x = t
    BY <1>5, <1>6, <2>1
  <2>2. CASE x # t
    <3>1. author[x][2] \in Processes /\ (x \in index[author[x][2]] \/ Committing(x))
      BY DEF IndexHas, Coherent, Indexes
    <3> QED BY <1>6, <1>7, <2>2, <3>1
  <2> QED BY <2>1, <2>2
<1>12. Alone'
  BY <1>3 DEF Stays, Alone, Coherent, Caches
<1>13. StoreReads'
  <2> SUFFICES ASSUME NEW g \in Handlers, pc'[g] = "store",
                      NEW x \in index'[proc'[g]], owner[x] = who'[g]
               PROVE  x \in seen'[g]
    BY <1>4 DEF StoreReads, TemplatesOf
  <2>1. Stays(g) /\ pc[g] = "store" /\ g # h
    BY <1>3 DEF Stays
  <2>2. proc[g] \in Processes \ {p}
    BY <1>2, <2>1 DEF Alone, Coherent, Caches, IInv, Inner, Prepared
  <2>3. x \in index[proc[g]] /\ owner[x] = who[g]
    BY <1>6, <2>1, <2>2 DEF Stays
  <2> QED BY <2>1, <2>3 DEF Stays, StoreReads, TemplatesOf, Coherent, Caches
<1>14. PurgeFinds'
  BY <1>3, <1>4 DEF Stays, PurgeFinds, Coherent, Caches
<1>15. AnswersFresh'
  <2> SUFFICES ASSUME FaissEnabled, NEW u \in Users, newest[u] # None, cache'[u] # None
               PROVE  \/ newest[u] \in cache'[u]
                      \/ filler[u] # author[newest[u]][2]
                      \/ \E g \in Handlers : pc'[g] \in {"scan", "purge"} /\ tpl'[g] = newest[u]
    BY <1>4 DEF AnswersFresh, Committing
  <2>1. cache'[u] = cache[u] /\ u \notin keys[h]
    OBVIOUS
  <2>2. CASE newest[u] = t
    BY <1>2, <1>5, <2>1, <2>2 DEF PurgeFinds, Coherent, Caches
  <2>3. CASE newest[u] # t
    <3>1. \/ newest[u] \in cache[u]
          \/ filler[u] # author[newest[u]][2]
          \/ Committing(newest[u])
      BY <2>1 DEF AnswersFresh, Coherent, Caches
    <3>2. Committing(newest[u]) =>
            \E g \in Handlers : pc'[g] \in {"scan", "purge"} /\ tpl'[g] = newest[u]
      BY <1>1, <1>3, <2>3 DEF Committing, Stays
    <3> QED BY <2>1, <3>1, <3>2
  <2> QED BY <2>2, <2>3
<1> QED
  BY <1>8, <1>9, <1>10, <1>11, <1>12, <1>13, <1>14, <1>15
  DEF Coherent, Indexes, Caches

LEMMA CoherentInit == Init => Coherent
BY EnrolmentConstants
DEF Init, Coherent, Tables, Indexes, Caches, NewestOwned, SelectedOwned, NewestHeld,
    CommitsKnown, IndexOwned, IndexHas, Alone, StoreReads, PurgeFinds, AnswersFresh

LEMMA CoherentStep ==
  ASSUME IInv, Coherent, [Next]_vars, mishaps' = mishaps
  PROVE  Coherent'
<1> USE EnrolmentConstants
<1>0. ~Mishap
  BY DEF Mishap, IInv, TypeOK
<1>1. ASSUME UNCHANGED <<owner, author, newest, index, rows>>, users \subseteq users',
             \A h \in Handlers : Plain(h), \A u \in Users : Answered(u)
      PROVE  Coherent'
  BY <1>1, PlainStep DEF Replaced
<1>2. UNCHANGED <<cache, filler>> => \A u \in Users : Answered(u)
  BY DEF Answered
<1>3. ASSUME NEW h \in Handlers, Forget({h}), pc[h] \notin {"create", "scan", "purge"}
      PROVE  \A g \in Handlers : Plain(g)
  BY <1>3 DEF Forget, Plain, Stays
<1>4. ASSUME NEW h \in Handlers, NEW stage, NEW S, NEW K, Goto(h, stage, S, K),
             pc[h] \notin {"create", "scan", "purge"},
             stage \notin {"create", "delete", "scan", "purge", "store"}
      PROVE  \A g \in Handlers : Plain(g)
  BY <1>4 DEF Goto, Plain, Stays, IInv, TypeOK
<1>5. ASSUME NEW h \in Handlers, NEW p \in Processes, NEW u \in Users, NEW t,
             NEW stage \in {"find", "image", "lookup"}, Begin(h, p, u, t, stage)
      PROVE  Coherent'
  <2>1. \A g \in Handlers : Plain(g)
    BY <1>5 DEF Begin, Plain, Stays, IInv, TypeOK
  <2> QED BY <1>1, <1>2, <1>5, <2>1 DEF Begin, tableVars, searchVars
<1>6. ASSUME NEW h \in Handlers, FindUser(h) PROVE Coherent'
  BY <1>1, <1>2, <1>4, <1>6 DEF FindUser, At, tableVars, searchVars
<1>7. ASSUME NEW h \in Handlers, InsertUser(h) PROVE Coherent'
  BY <1>1, <1>2, <1>3, <1>4, <1>7 DEF InsertUser, At, searchVars
<1>8. ASSUME NEW h \in Handlers, AcceptImage(h) PROVE Coherent'
  BY <1>1, <1>2, <1>4, <1>8 DEF AcceptImage, At, tableVars, searchVars
<1>9. ASSUME NEW h \in Handlers, RefuseImage(h) PROVE Coherent'
  BY <1>1, <1>2, <1>3, <1>9 DEF RefuseImage, searchVars
<1>10. ASSUME NEW h \in Handlers, SelectOld(h) PROVE Coherent'
  <2>1. \A g \in Handlers : Plain(g)
    BY <1>10 DEF SelectOld, At, Goto, TemplatesOf, Plain, Stays, IInv, TypeOK
  <2> QED BY <1>1, <1>2, <1>10, <2>1 DEF SelectOld, tableVars, searchVars
<1>11. ASSUME NEW h \in Handlers, DeleteOld(h) PROVE Coherent'
  <2>1. /\ pc[h] = "delete" /\ pc'[h] = "create" /\ who'[h] = who[h]
        /\ rows' = rows \ seen[h] /\ users \subseteq users'
        /\ UNCHANGED <<owner, author, newest, index, cache, filler>>
    BY <1>11 DEF DeleteOld, At, CommitUser, Goto, searchVars, IInv, TypeOK
  <2>2. \A g \in Handlers : Plain(g)
    BY <1>11, <2>1 DEF DeleteOld, Goto, Plain, Stays, IInv, TypeOK
  <2>3. Replaced
    BY <2>1 DEF Replaced, SelectedOwned, Coherent, Tables
  <2> QED BY <1>2, <2>1, <2>2, <2>3, PlainStep
<1>12. ASSUME NEW h \in Handlers, CreateRow(h) PROVE Coherent'
  BY <1>12, CreateStep DEF CreateRow, At
<1>13. ASSUME NEW h \in Handlers, CreateFails(h) PROVE Coherent'
  <2>1. pc[h] = "create" /\ who[h] \notin users
    BY <1>0, <1>13 DEF CreateFails, At
  <2>2. UNCHANGED <<users, rows, owner, author, newest, index, cache, filler>>
    BY <1>0, <1>13 DEF CreateFails, searchVars
  <2>3. \A g \in Handlers : Plain(g)
    BY <1>13, <2>1 DEF CreateFails, Forget, Plain, Stays
  <2> QED BY <1>1, <1>2, <2>2, <2>3
<1>14. ASSUME NEW h \in Handlers, ScanCache(h) PROVE Coherent'
  <2>1. /\ pc[h] = "scan" /\ Runs(h) /\ UNCHANGED <<tableVars, searchVars>>
        /\ Goto(h, "purge", {}, {u \in Users : cache[u] # None})
    BY <1>0, <1>14 DEF ScanCache, At
  <2> QED BY <2>1, EnterStep
<1>15. ASSUME NEW h \in Handlers, Purge(h) PROVE Coherent'
  BY <1>0, <1>15, PurgeStep DEF Purge
<1>16. ASSUME NEW h \in Handlers, Lookup(h) PROVE Coherent'
  <2>1. pc[h] = "lookup" /\ Runs(h) /\ UNCHANGED <<tableVars, searchVars>>
    BY <1>16 DEF Lookup, At
  <2>2. CASE Goto(h, "store", TemplatesOf(who[h], index[proc[h]]), {})
    <3>1. TemplatesOf(who[h], index[proc[h]]) \in SUBSET Templates
      BY <2>1 DEF TemplatesOf, IInv, TypeOK, Inner, Prepared
    <3> QED BY <2>1, <2>2, <3>1, EnterStep
  <2>3. CASE Forget({h}) \/ Goto(h, "topk", {}, {})
    <3>1. \A g \in Handlers : Plain(g)
      BY <1>3, <1>4, <2>1, <2>3
    <3> QED BY <1>1, <1>2, <2>1, <3>1 DEF tableVars, searchVars
  <2> QED BY <1>16, <2>2, <2>3 DEF Lookup
<1>17. ASSUME NEW h \in Handlers, Store(h) PROVE Coherent'
  <2>1. /\ pc[h] = "store" /\ who[h] \in Users
        /\ UNCHANGED <<users, rows, owner, author, newest, index>>
    BY <1>17 DEF Store, tableVars, IInv, Inner, Prepared
  <2>2. cache' = [cache EXCEPT ![who[h]] = seen[h]] /\ filler' = [filler EXCEPT ![who[h]] = proc[h]]
    BY <1>0, <1>17 DEF Store, FillCache
  <2>3. \A u \in Users : Answered(u)
    BY <2>1, <2>2 DEF Answered, IInv, TypeOK
  <2>4. \A g \in Handlers : Plain(g)
    BY <1>3, <1>4, <1>17, <2>1 DEF Store
  <2> QED BY <1>1, <2>1, <2>3, <2>4
<1>18. ASSUME NEW h \in Handlers, ReadTable(h) PROVE Coherent'
  <2>1. pc[h] \in {"topk", "all"} /\ UNCHANGED <<tableVars, searchVars>>
    BY <1>18 DEF ReadTable
  <2>2. \A g \in Handlers : Plain(g)
    BY <1>3, <1>4, <1>18, <2>1 DEF ReadTable
  <2> QED BY <1>1, <1>2, <2>1, <2>2 DEF tableVars, searchVars
<1>19. ASSUME NEW h \in Handlers, Keep(h) PROVE Coherent'
  <2>1. pc[h] = "keep" /\ UNCHANGED <<users, rows, owner, author, newest, index>>
    BY <1>19 DEF Keep, At, tableVars
  <2>2. cache' = [cache EXCEPT ![who[h]] = seen[h]] /\ filler' = [filler EXCEPT ![who[h]] = None]
    BY <1>0, <1>19 DEF Keep, FillCache
  <2>3. \A u \in Users : Answered(u)
    BY <2>2 DEF Answered, IInv, TypeOK
  <2>4. \A g \in Handlers : Plain(g)
    BY <1>3, <1>19, <2>1 DEF Keep
  <2> QED BY <1>1, <2>1, <2>3, <2>4
<1>20. ASSUME UNCHANGED requestVars PROVE \A g \in Handlers : Plain(g)
  BY <1>20 DEF requestVars, Plain, Stays
<1>21. ASSUME NEW u \in Users, Lapse(u) PROVE Coherent'
  <2>1. \A v \in Users : Answered(v)
    BY <1>21 DEF Lapse, Answered, IInv, TypeOK
  <2> QED BY <1>1, <1>20, <1>21, <2>1 DEF Lapse, tableVars
<1>22. CASE UNCHANGED vars
  BY <1>1, <1>2, <1>20, <1>22 DEF vars, tableVars, searchVars
<1>23. ASSUME NEW h \in Handlers, NEW p \in Processes, NEW u \in Users, NEW t \in Templates,
              UploadFace(h, p, u, t) \/ UpdateReference(h, p, u, t)
       PROVE  Coherent'
  BY <1>5, <1>23 DEF UploadFace, UpdateReference
<1>24. ASSUME NEW h \in Handlers, NEW p \in Processes, NEW u \in Users, Search(h, p, u)
       PROVE  Coherent'
  BY <1>5, <1>24 DEF Search
<1>25. \A h \in Handlers : ~DeleteFails(h)
  BY <1>0 DEF DeleteFails
<1>26. \A p \in Processes : ~Restart(p)
  BY <1>0 DEF Restart
<1> QED
  BY <1>6, <1>7, <1>8, <1>9, <1>10, <1>11, <1>12, <1>13, <1>14, <1>15, <1>16, <1>17, <1>18,
     <1>19, <1>21, <1>22, <1>23, <1>24, <1>25, <1>26
  DEF Next, Enrol, Find

LEMMA MishapsCounted ==
  ASSUME IInv, [Next]_vars
  PROVE  mishaps' = mishaps \/ Mishap
<1>1. ASSUME NEW h \in Handlers, NEW p \in Processes, NEW u \in Users, NEW t \in Templates,
             UploadFace(h, p, u, t) \/ UpdateReference(h, p, u, t)
      PROVE  mishaps' = mishaps
  BY <1>1 DEF UploadFace, UpdateReference, Begin
<1>2. ASSUME NEW h \in Handlers, NEW p \in Processes, NEW u \in Users, Search(h, p, u)
      PROVE  mishaps' = mishaps
  BY <1>2 DEF Search, Begin
<1>3. ASSUME NEW h \in Handlers,
             \/ FindUser(h) \/ InsertUser(h) \/ AcceptImage(h) \/ SelectOld(h) \/ DeleteOld(h)
             \/ CreateRow(h)
      PROVE  mishaps' = mishaps
  BY <1>3 DEF FindUser, InsertUser, AcceptImage, SelectOld, DeleteOld, CreateRow
<1>4. ASSUME NEW h \in Handlers,
             RefuseImage(h) \/ DeleteFails(h) \/ CreateFails(h) \/ ScanCache(h) \/ Purge(h)
      PROVE  mishaps' = mishaps \/ Mishap
  BY <1>4 DEF RefuseImage, DeleteFails, CreateFails, ScanCache, Purge
<1>5. ASSUME NEW h \in Handlers, Find(h) PROVE mishaps' = mishaps \/ Mishap
  BY <1>5 DEF Find, Lookup, Store, FillCache, ReadTable, Keep
<1>6. ASSUME NEW u \in Users, Lapse(u) PROVE mishaps' = mishaps
  BY <1>6 DEF Lapse
<1>7. ASSUME NEW p \in Processes, Restart(p) PROVE Mishap
  BY <1>7 DEF Restart
<1>8. CASE UNCHANGED vars
  BY <1>8 DEF vars
<1> QED
  BY <1>1, <1>2, <1>3, <1>4, <1>5, <1>6, <1>7, <1>8 DEF Next, Enrol

THEOREM CoherentInvariance == Spec => [](IInv /\ Smooth)
<1>1. IInv /\ Smooth /\ [Next]_vars => Smooth'
  <2> SUFFICES ASSUME IInv, mishaps = 0 => Coherent, [Next]_vars, mishaps' = 0
               PROVE  Coherent'
    BY DEF Smooth
  <2>1. mishaps = 0 /\ mishaps' = mishaps
    BY MishapsCounted DEF Mishap, IInv, TypeOK
  <2> QED BY <2>1, CoherentStep
<1>2. Init => Smooth
  BY CoherentInit DEF Smooth
<1> QED
  BY <1>1, <1>2, Invariance, PTL DEF Spec

(* Without mishaps the template committed last is in the table, unless an
   enrolment of the same user has deleted it and is about to replace it: the
   DELETE and the INSERT of two enrolments cannot lose a user between them. *)
THEOREM NewestStays == Spec => []NewestKept
<1>1. IInv /\ Smooth => NewestKept
  BY DEF Smooth, NewestKept, NewestHeld, Coherent, Tables
<1> QED
  BY <1>1, CoherentInvariance, PTL

(* Without mishaps the index of the process that served an enrolment has its
   template once the enrolment is over, whatever other processes do. *)
THEOREM IndexComplete == Spec => []IndexCovers
<1>1. IInv /\ Smooth => IndexCovers
  <2> SUFFICES ASSUME IInv, Coherent, FaissEnabled, NEW t \in rows
               PROVE  t \in index[author[t][2]] \/ Committing(t)
    BY DEF Smooth, IndexCovers, Committing
  <2>1. t \in Templates /\ owner[t] # None
    BY EnrolmentConstants DEF IInv, TypeOK, Inner, Registered
  <2> QED BY <2>1 DEF IndexHas, Coherent, Indexes
<1> QED
  BY <1>1, CoherentInvariance, PTL

(* Without mishaps an answer cached by the process that served the latest
   enrolment of its user contains that enrolment's template, once it is over. *)
THEOREM FreshAnswers == Spec => []FaissAnswersFresh
<1>1. IInv /\ Smooth => FaissAnswersFresh
  BY DEF Smooth, FaissAnswersFresh, AnswersFresh, Committing, Coherent, Caches
<1> QED
  BY <1>1, CoherentInvariance, PTL
-----------------------------------------------------------------------------
(* What mishaps can do *)

(* A user with a template is committed. *)
Enrolled == \A u \in Users : newest[u] # None => u \in users

(* Ways in which a step that adds no row may treat request h: it stays, ends,
   and then only a failure ends an enrolment of a committed user between its
   DELETE and its INSERT, or it moves and selects at most its own rows. *)
Ends(h) == pc'[h] = "idle" /\ (pc[h] = "create" => who[h] \notin users \/ Mishap)

Moves(h) == pc[h] # "create" /\ (pc'[h] = "delete" => seen'[h] = TemplatesOf(who'[h], rows))

(* Rows go only by the DELETE of a request that goes on to its INSERT or fails. *)
Deletes ==
  \/ rows' = rows
  \/ \E h \in Handlers :
       /\ pc[h] = "delete" /\ rows' = rows \ seen[h]
       /\ \/ pc'[h] = "create" /\ who'[h] = who[h]
          \/ pc'[h] = "idle" /\ Mishap

Treated == \A h \in Handlers : Stays(h) \/ Ends(h) \/ Moves(h)

Without ==
  /\ UNCHANGED <<owner, newest>> /\ users \subseteq users'
  /\ Treated /\ Deletes

With(h) ==
  /\ pc[h] = "create" /\ AddRow(h) /\ users' = users
  /\ pc'[h] # "delete" /\ \A g \in Handlers \ {h} : Stays(g)

LEMMA StepKinds ==
  ASSUME IInv, [Next]_vars
  PROVE  Without \/ \E h \in Handlers : With(h)
<1> USE EnrolmentConstants
<1>1. ASSUME NEW h \in Handlers, NEW stage, NEW S, NEW K, Goto(h, stage, S, K),
             pc[h] # "create", stage # "delete" \/ S = TemplatesOf(who[h], rows)
      PROVE  Treated
  BY <1>1, GotoMoves DEF Treated, Moves
<1>2. ASSUME NEW H \in SUBSET Handlers, Forget(H),
             \A h \in H : pc[h] = "create" => who[h] \notin users \/ Mishap
      PROVE  Treated
  BY <1>2, ForgetMoves DEF Treated, Ends, Over
<1>3. UNCHANGED rows => Deletes
  BY DEF Deletes
<1>4. ASSUME NEW h \in Handlers, NEW p \in Processes, NEW u \in Users, NEW t,
             NEW stage \in {"find", "image", "lookup"}, Begin(h, p, u, t, stage)
      PROVE  Without
  <2>1. \A g \in Handlers : g = h \/ Stays(g)
    BY <1>4 DEF Begin, Stays, IInv, TypeOK
  <2>2. Moves(h)
    BY <1>4 DEF Begin, Moves, IInv, TypeOK
  <2>3. Treated
    BY <2>1, <2>2 DEF Treated
  <2> QED BY <1>3, <1>4, <2>3 DEF Begin, Without, tableVars
<1>5. ASSUME NEW h \in Handlers, FindUser(h) PROVE Without
  <2>1. PICK stage \in {"image", "insert"} : Goto(h, stage, {}, {})
    BY <1>5 DEF FindUser
  <2>2. Treated
    BY <1>1, <1>5, <2>1 DEF FindUser, At
  <2> QED BY <1>3, <1>5, <2>2 DEF FindUser, Without, tableVars
<1>6. ASSUME NEW h \in Handlers, InsertUser(h) PROVE Without
  <2>1. pc[h] = "insert" /\ (Forget({h}) \/ Goto(h, "image", {}, {}))
    BY <1>6 DEF InsertUser, At
  <2>2. Treated
    BY <1>1, <1>2, <2>1
  <2> QED BY <1>3, <1>6, <2>2 DEF InsertUser, Without
<1>7. ASSUME NEW h \in Handlers, AcceptImage(h) PROVE Without
  <2>1. Treated
    BY <1>1, <1>7 DEF AcceptImage, At
  <2> QED BY <1>3, <1>7, <2>1 DEF AcceptImage, Without, tableVars
<1>8. ASSUME NEW h \in Handlers, RefuseImage(h) PROVE Without
  <2>1. Treated
    BY <1>2, <1>8 DEF RefuseImage
  <2> QED BY <1>3, <1>8, <2>1 DEF RefuseImage, Without
<1>9. ASSUME NEW h \in Handlers, SelectOld(h) PROVE Without
  <2>1. Treated
    BY <1>1, <1>9 DEF SelectOld, At
  <2> QED BY <1>3, <1>9, <2>1 DEF SelectOld, Without, tableVars
<1>10. ASSUME NEW h \in Handlers, DeleteOld(h) PROVE Without
  <2>1. pc[h] = "delete" /\ Goto(h, "create", {}, {}) /\ rows' = rows \ seen[h]
    BY <1>10 DEF DeleteOld, At
  <2>2. Treated /\ Deletes
    BY <1>1, <2>1, GotoMoves DEF Deletes
  <2> QED BY <1>10, <2>2 DEF DeleteOld, CommitUser, Without
<1>11. ASSUME NEW h \in Handlers, DeleteFails(h) PROVE Without
  <2>1. /\ pc[h] = "delete" /\ Mishap /\ Forget({h}) /\ users \subseteq users'
        /\ rows' = rows \ seen[h] \/ rows' = rows
    BY <1>11 DEF DeleteFails, At, CommitUser
  <2>2. Treated /\ pc'[h] = "idle"
    BY <1>2, <2>1, ForgetMoves DEF Over
  <2>3. Deletes
    BY <2>1, <2>2 DEF Deletes
  <2> QED BY <1>11, <2>1, <2>2, <2>3 DEF DeleteFails, Without
<1>12. ASSUME NEW h \in Handlers, CreateRow(h) PROVE With(h)
  <2>1. pc[h] = "create" /\ Goto(h, "scan", {}, {}) /\ AddRow(h) /\ users' = users
    BY <1>12 DEF CreateRow, At
  <2> QED BY <2>1, GotoMoves DEF With
<1>13. ASSUME NEW h \in Handlers, CreateFails(h) PROVE Without \/ With(h)
  <2>1. pc[h] = "create" /\ Forget({h}) /\ users' = users
    BY <1>13 DEF CreateFails, At
  <2>2. CASE AddRow(h)
    BY <2>1, <2>2, ForgetMoves DEF With, Over
  <2>3. CASE UNCHANGED <<rows, owner, newest>> /\ (who[h] \notin users \/ Mishap)
    <3>1. Treated
      BY <1>2, <2>1, <2>3
    <3> QED BY <1>3, <2>1, <2>3, <3>1 DEF Without
  <2> QED BY <1>13, <2>2, <2>3 DEF CreateFails
<1>14. ASSUME NEW h \in Handlers, ScanCache(h) PROVE Without
  <2>1. PICK K : Goto(h, "purge", {}, K)
    BY <1>14 DEF ScanCache
  <2>2. Treated
    BY <1>1, <1>14, <2>1 DEF ScanCache, At
  <2> QED BY <1>3, <1>14, <2>2 DEF ScanCache, Without, tableVars
<1>15. ASSUME NEW h \in Handlers, Purge(h) PROVE Without
  <2>1. Treated
    BY <1>2, <1>15 DEF Purge
  <2> QED BY <1>3, <1>15, <2>1 DEF Purge, Without, tableVars
<1>16. ASSUME NEW h \in Handlers, Find(h) PROVE Without
  <2>1. /\ pc[h] \in Searching /\ UNCHANGED tableVars
        /\ Forget({h}) \/ \E stage \in Searching : \E S, K : Goto(h, stage, S, K)
    BY <1>16 DEF Find, Lookup, Store, ReadTable, Keep, At, Searching
  <2>2. Treated
    BY <1>1, <1>2, <2>1 DEF Searching
  <2> QED BY <1>3, <2>1, <2>2 DEF Without, tableVars
<1>17. ASSUME NEW u \in Users, Lapse(u) PROVE Without
  <2>1. Treated
    BY <1>17 DEF Lapse, requestVars, Treated, Stays
  <2> QED BY <1>3, <1>17, <2>1 DEF Lapse, Without, tableVars
<1>18. ASSUME NEW p \in Processes, Restart(p) PROVE Without
  <2>1. Treated
    BY <1>2, <1>18 DEF Restart
  <2> QED BY <1>3, <1>18, <2>1 DEF Restart, Without
<1>19. CASE UNCHANGED vars
  <2>1. Treated
    BY <1>19 DEF vars, requestVars, Treated, Stays
  <2> QED BY <1>3, <1>19, <2>1 DEF vars, Without, tableVars
<1>20. ASSUME NEW h \in Handlers, NEW p \in Processes, NEW u \in Users, NEW t \in Templates,
              UploadFace(h, p, u, t) \/ UpdateReference(h, p, u, t)
       PROVE  Without
  BY <1>4, <1>20 DEF UploadFace, UpdateReference
<1>21. ASSUME NEW h \in Handlers, NEW p \in Processes, NEW u \in Users, Search(h, p, u)
       PROVE  Without
  BY <1>4, <1>21 DEF Search
<1> QED
  BY <1>5, <1>6, <1>7, <1>8, <1>9, <1>10, <1>11, <1>12, <1>13, <1>14, <1>15, <1>16, <1>17,
     <1>18, <1>19, <1>20, <1>21
  DEF Next, Enrol

(* What AddRow writes: the template of h, which nobody had before. *)
LEMMA RowOf ==
  ASSUME IInv, NEW h \in Handlers, With(h)
  PROVE  \E t \in Templates, v \in Users :
           /\ v = who[h] /\ v \in users /\ owner[t] = None
           /\ rows' = rows \cup {t} /\ owner'[t] = v /\ newest'[v] = t
           /\ \A x \in Templates \ {t} : owner'[x] = owner[x]
           /\ \A u \in Users \ {v} : newest'[u] = newest[u]
<1>1. PICK t \in Templates : t = tpl[h] /\ owner[t] = None
  BY DEF With, IInv, Inner, Prepared, Enrolling, Before
<1>2. PICK v \in Users : v = who[h]
  BY DEF With, IInv, Inner, Prepared
<1>3. /\ v \in users /\ rows' = rows \cup {t} /\ owner'[t] = v /\ newest'[v] = t
      /\ \A x \in Templates \ {t} : owner'[x] = owner[x]
      /\ \A u \in Users \ {v} : newest'[u] = newest[u]
  BY <1>1, <1>2 DEF With, AddRow, IInv, TypeOK
<1> QED
  BY <1>1, <1>2, <1>3

LEMMA EnrolledSelected ==
  ASSUME IInv, Enrolled, SelectedOwned, [Next]_vars
  PROVE  Enrolled' /\ SelectedOwned'
<1> USE EnrolmentConstants
<1>1. CASE Without
  <2>1. Enrolled'
    BY <1>1 DEF Without, Enrolled
  <2>2. SelectedOwned'
    BY <1>1 DEF Without, Treated, Stays, Ends, Moves, TemplatesOf, SelectedOwned
  <2> QED BY <2>1, <2>2
<1>2. ASSUME NEW h \in Handlers, With(h) PROVE Enrolled' /\ SelectedOwned'
  <2>1. PICK t \in Templates, v \in Users :
          /\ v = who[h] /\ v \in users /\ owner[t] = None
          /\ rows' = rows \cup {t} /\ owner'[t] = v /\ newest'[v] = t
          /\ \A x \in Templates \ {t} : owner'[x] = owner[x]
          /\ \A u \in Users \ {v} : newest'[u] = newest[u]
    BY <1>2, RowOf
  <2>2. Enrolled'
    BY <1>2, <2>1 DEF With, Enrolled
  <2>3. SelectedOwned'
    <3> SUFFICES ASSUME NEW g \in Handlers, pc'[g] = "delete", NEW x \in seen'[g]
                 PROVE  owner'[x] = who'[g]
      BY DEF SelectedOwned
    <3>1. g # h /\ Stays(g)
      BY <1>2 DEF With
    <3>2. owner[x] = who[g] /\ who[g] \in Users /\ x \in Templates
      BY <3>1 DEF Stays, SelectedOwned, IInv, TypeOK, Inner, Prepared
    <3> QED BY <2>1, <3>1, <3>2 DEF Stays
  <2> QED BY <2>2, <2>3
<1> QED
  BY <1>1, <1>2, StepKinds

LEMMA BareStep ==
  ASSUME IInv, Enrolled, SelectedOwned, [Next]_vars, NEW u \in Users, Bare(u)', ~Bare(u)
  PROVE  /\ mishaps' > mishaps
         /\ \E h \in Handlers : who[h] = u /\ pc[h] \in {"delete", "create"} /\ pc'[h] = "idle"
<1> USE EnrolmentConstants
<1>1. Mishap => mishaps' > mishaps
  BY DEF Mishap, IInv, TypeOK
<1>2. newest'[u] # None /\ \A t \in rows' : owner'[t] # u
  BY DEF Bare, TemplatesOf
<1>3. \A h \in Handlers : ~(who'[h] = u /\ pc'[h] = "create")
  BY DEF Bare
<1>4. \/ newest[u] = None
      \/ \E t \in rows : owner[t] = u
      \/ \E h \in Handlers : who[h] = u /\ pc[h] = "create"
  BY DEF Bare, TemplatesOf
<1>5. CASE Without
  <2>1. newest[u] # None /\ u \in users
    BY <1>2, <1>5 DEF Without, Enrolled
  <2>2. ASSUME NEW h \in Handlers, who[h] = u, pc[h] = "create"
        PROVE  Mishap /\ pc'[h] = "idle"
    BY <1>3, <1>5, <2>1, <2>2 DEF Without, Treated, Stays, Ends, Moves
  <2>3. ASSUME NEW t \in rows, owner[t] = u
        PROVE  Mishap /\ \E h \in Handlers : who[h] = u /\ pc[h] = "delete" /\ pc'[h] = "idle"
    <3>1. t \notin rows'
      BY <1>2, <1>5, <2>3 DEF Without
    <3>2. PICK h \in Handlers :
            /\ pc[h] = "delete" /\ rows' = rows \ seen[h]
            /\ \/ pc'[h] = "create" /\ who'[h] = who[h]
               \/ pc'[h] = "idle" /\ Mishap
      BY <1>5, <3>1 DEF Without, Deletes
    <3>3. who[h] = u
      BY <2>3, <3>1, <3>2 DEF SelectedOwned
    <3> QED BY <1>3, <3>2, <3>3
  <2> QED BY <1>1, <1>4, <2>1, <2>2, <2>3
<1>6. ASSUME NEW h \in Handlers, With(h) PROVE FALSE
  <2>1. PICK t \in Templates, v \in Users :
          /\ v = who[h] /\ v \in users /\ owner[t] = None
          /\ rows' = rows \cup {t} /\ owner'[t] = v /\ newest'[v] = t
          /\ \A x \in Templates \ {t} : owner'[x] = owner[x]
          /\ \A w \in Users \ {v} : newest'[w] = newest[w]
    BY <1>6, RowOf
  <2>2. u # v /\ newest[u] # None
    BY <1>2, <2>1
  <2>3. ASSUME NEW x \in rows PROVE owner[x] # u
    BY <1>2, <2>1, <2>2 DEF IInv, TypeOK
  <2>4. ASSUME NEW g \in Handlers, who[g] = u PROVE pc[g] # "create"
    BY <1>3, <1>6, <2>1, <2>2, <2>4 DEF With, Stays
  <2> QED BY <1>4, <2>2, <2>3, <2>4
<1> QED
  BY <1>5, <1>6, StepKinds

(* Only a failure that ends an enrolment of a user, at its DELETE or between
   DELETE and INSERT, can leave that user without any template: for any number
   of users, requests, processes and mishaps. *)
THEOREM LostOnlyByCut == Spec => BareOnlyByCut
<1> DEFINE Inv == IInv /\ Enrolled /\ SelectedOwned
           Cut == \A u \in Users : (Bare(u)' /\ ~Bare(u)) =>
                    /\ mishaps' > mishaps
                    /\ \E h \in Handlers :
                         who[h] = u /\ pc[h] \in {"delete", "create"} /\ pc'[h] = "idle"
<1>1. Init => Enrolled /\ SelectedOwned
  BY DEF Init, Enrolled, SelectedOwned
<1>2. IInv /\ Enrolled /\ SelectedOwned /\ [Next]_vars => Enrolled' /\ SelectedOwned'
  BY EnrolledSelected
<1>3. Spec => []Inv
  BY <1>1, <1>2, Invariance, PTL DEF Spec
<1>4. Inv /\ [Next]_vars => [Cut]_vars
  <2> SUFFICES ASSUME IInv, Enrolled, SelectedOwned, [Next]_vars, NEW u \in Users, Bare(u)', ~Bare(u)
               PROVE  /\ mishaps' > mishaps
                      /\ \E h \in Handlers :
                           who[h] = u /\ pc[h] \in {"delete", "create"} /\ pc'[h] = "idle"
    OBVIOUS
  <2> QED BY BareStep
<1>5. Spec => [][Cut]_vars
  BY <1>3, <1>4, PTL DEF Spec
<1> QED
  BY <1>5 DEF BareOnlyByCut
=============================================================================
