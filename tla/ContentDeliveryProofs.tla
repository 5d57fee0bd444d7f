------------------------ MODULE ContentDeliveryProofs ------------------------
(***************************************************************************)
(* The theorems of ContentDelivery, for any requests, reads, curricula and *)
(* bounds: what a read serves, and when it is refused.                     *)
(***************************************************************************)
EXTENDS ContentDelivery, CurriculumPublicationProofs

(***************************************************************************)
(* The invariant of the reads                                              *)
(***************************************************************************)

\* The store as it stood is a store.
StoodType ==
    /\ stood \in [Readers -> [publications : [Curricula -> SUBSET Publication],
                              deleted : SUBSET Curricula]]
    /\ \A d \in Readers : \A c \in Curricula :
          /\ IsFiniteSet(stood[d].publications[c])
          /\ InOrder(stood[d].publications[c])

ReadType ==
    /\ ReadersTypeOK
    /\ light = [d \in Readers |-> light[d]]
    /\ served = [d \in Readers |-> served[d]]
    /\ StoodType

\* What stood when d began is still there: rows are kept, deletions are final.
Kept(d) ==
    /\ stood[d].deleted \subseteq deleted
    /\ \A c \in Curricula : \A p \in stood[d].publications[c] :
          \E q \in publications[c] : q.id = p.id /\ q.at = p.at

\* What d found of a curriculum is its latest publication, as it stood.
Found(d) ==
    \A c \in DOMAIN light[d] : \E p \in stood[d].publications[c] :
        /\ p.id = light[d][c] /\ p.status = "published"
        /\ \A q \in stood[d].publications[c] : q.at <= p.at

\* No curriculum that stood published is passed over, unless it was deleted.
Covered(d) ==
    /\ at[d] \in {"live", "payloads"} =>
          \A c \in Curricula : \A p \in stood[d].publications[c] :
              p.status = "published" => c \in DOMAIN light[d] \cup deleted
    /\ at[d] = "payloads" => DOMAIN light[d] \cap stood[d].deleted = {}

\* What d serves, once it does.
Answered(d) ==
    /\ at[d] # "served" => DOMAIN served[d] = {}
    /\ at[d] = "served" =>
          /\ DOMAIN served[d] \cap stood[d].deleted = {}
          /\ \A c \in Curricula : \A p \in stood[d].publications[c] : p.status = "published" =>
                \/ c \in deleted
                \/ c \in DOMAIN served[d] /\ p.at <= served[d][c].at
          /\ \A c \in DOMAIN served[d] : \E p \in stood[d].publications[c] : p.status = "published"

\* Two publications of a curriculum are later than all that stood.
Overtaken(d) ==
    \E c \in Curricula : \E q, r \in publications[c] :
        q.at < r.at /\ \A p \in stood[d].publications[c] : p.at < q.at

\* What d serves stood when it began.
Traced(d) ==
    \A c \in DOMAIN served[d] : \E p \in stood[d].publications[c] : p.id = served[d][c].id

\* An initial run that had published anything by then was over, and whatever
\* it had found live stood published or withdrawn.
WholeStood(d) ==
    \A r \in Initials :
        (\E c \in Curricula : \E p \in stood[d].publications[c] : p.id = r) =>
            /\ pc[r] = "published"
            /\ \A c \in got[r].live :
                  \/ StateOf(stood[d].publications[c]) = "withdrawn"
                  \/ \E p \in stood[d].publications[c] : p.status = "published"

Facts(d) ==
    /\ Kept(d) /\ Found(d) /\ Covered(d) /\ Answered(d)
    /\ Traced(d) /\ WholeStood(d)
    /\ at[d] = "refused" => Overtaken(d)

DInv == ReadType /\ \A d \in Readers : Facts(d)

(***************************************************************************)
(* It holds at first, and every step keeps it                              *)
(***************************************************************************)

\* The invariant holds at first: nothing is stored and nothing read.
LEMMA InitDInv == DeliveryInit => DInv
<1> SUFFICES ASSUME DeliveryInit PROVE DInv
  OBVIOUS
<1>1. \A d \in Readers :
         /\ at[d] = "idle" /\ DOMAIN light[d] = {} /\ DOMAIN served[d] = {}
         /\ stood[d].deleted = {} /\ \A c \in Curricula : stood[d].publications[c] = {}
  BY DEF DeliveryInit, NoRow, Init
<1>2. ReadersTypeOK
  BY <1>1 DEF DeliveryInit, ReadersTypeOK, ReadStates
<1>3. StoodType
  <2>1. stood \in [Readers -> [publications : [Curricula -> SUBSET Publication],
                               deleted : SUBSET Curricula]]
    BY DEF DeliveryInit, Init
  <2> QED BY <1>1, <2>1, FS_EmptySet DEF StoodType, InOrder
<1>4. light = [d \in Readers |-> light[d]] /\ served = [d \in Readers |-> served[d]]
  BY DEF DeliveryInit
<1>5. \A d \in Readers : at[d] # "refused" /\ Kept(d) /\ Found(d) /\ Covered(d) /\ Answered(d)
  BY <1>1 DEF Kept, Found, Covered, Answered
<1>6. \A d \in Readers : Traced(d) /\ WholeStood(d)
  BY <1>1 DEF Traced, WholeStood
<1> QED BY <1>2, <1>3, <1>4, <1>5, <1>6 DEF DInv, ReadType, Facts

\* A deletion is final.
LEMMA DeletedGrows ==
    ASSUME [Next]_vars
    PROVE  deleted \subseteq deleted'
<1>1. CASE UNCHANGED vars
  BY <1>1 DEF vars
<1>2. CASE EditBank \/ \E c \in Curricula : EditTree(c)
  BY <1>2 DEF EditBank, EditTree, store
<1>3. ASSUME NEW r \in Requests, Fail(r) PROVE deleted \subseteq deleted'
  BY <1>3 DEF Fail, store
<1>4. ASSUME NEW r \in Requests, Step(r) PROVE deleted \subseteq deleted'
  BY <1>4
  DEF Step, store, ReadBank, ReadTree, BeginPublish, BuildPayload, LockToPublish,
      RefusePublish, CommitPublish, BeginRetire, LockToWithdraw, CommitRetire, AnswerRetire,
      BeginDelete, CommitDelete, BeginInitial, PlanInitial, LockToInitial, CheckInitial,
      WriteInitial, CommitInitial
<1> QED BY <1>1, <1>2, <1>3, <1>4 DEF Next

\* A request that has published is over, and what it read stays as it is.
LEMMA PublishedIsOver ==
    ASSUME TypeOK, [Next]_vars, NEW r \in Requests, pc[r] = "published"
    PROVE  pc'[r] = pc[r] /\ got'[r] = got[r]
<1>1. CASE UNCHANGED vars
  BY <1>1 DEF vars
<1>2. CASE EditBank \/ \E c \in Curricula : EditTree(c)
  BY <1>2 DEF EditBank, EditTree
<1>3. ASSUME NEW q \in Requests, Step(q) \/ Fail(q) PROVE q # r
  BY <1>3
  DEF Step, Fail, Ended, ReadBank, ReadTree, BeginPublish, BuildPayload, LockToPublish,
      RefusePublish, CommitPublish, BeginRetire, LockToWithdraw, CommitRetire, AnswerRetire,
      BeginDelete, CommitDelete, BeginInitial, PlanInitial, LockToInitial, CheckInitial,
      WriteInitial, CommitInitial
<1>4. ASSUME NEW q \in Requests, q # r, Step(q) \/ Fail(q)
      PROVE  pc'[r] = pc[r] /\ got'[r] = got[r]
  BY <1>4
  DEF TypeOK, Step, Fail, Goto, ReadBank, ReadTree, BeginPublish, BuildPayload,
      LockToPublish, RefusePublish, CommitPublish, BeginRetire, LockToWithdraw, CommitRetire,
      AnswerRetire, BeginDelete, CommitDelete, BeginInitial, PlanInitial, LockToInitial,
      CheckInitial, WriteInitial, CommitInitial
<1> QED BY <1>1, <1>2, <1>3, <1>4 DEF Next

\* So what had been published by an initial run stays as it is.
LEMMA RunsStayWhole ==
    ASSUME TypeOK, [Next]_vars, UNCHANGED readVars, NEW d \in Readers, WholeStood(d)
    PROVE  WholeStood(d)'
<1> SUFFICES ASSUME NEW r \in Initials,
                    \E c \in Curricula : \E p \in stood'[d].publications[c] : p.id = r
             PROVE  /\ pc'[r] = "published"
                    /\ \A c \in got'[r].live :
                          \/ StateOf(stood'[d].publications[c]) = "withdrawn"
                          \/ \E p \in stood'[d].publications[c] : p.status = "published"
  BY DEF WholeStood
<1>1. stood' = stood /\ r \in Requests
  BY DEF readVars, Requests
<1>2. /\ pc[r] = "published"
      /\ \A c \in got[r].live :
            \/ StateOf(stood[d].publications[c]) = "withdrawn"
            \/ \E p \in stood[d].publications[c] : p.status = "published"
  BY <1>1 DEF WholeStood
<1>3. pc'[r] = "published" /\ got'[r] = got[r]
  BY <1>1, <1>2, PublishedIsOver
<1> QED BY <1>1, <1>2, <1>3

\* Whatever the requests do, a read's facts go on to hold.
LEMMA RequestsKeepFacts ==
    ASSUME TypeOK, [Next]_vars, DInv, KeepsHistory, deleted \subseteq deleted',
           UNCHANGED readVars, NEW d \in Readers
    PROVE  Facts(d)'
<1>1. Facts(d) /\ StoodType /\ UNCHANGED <<at, light, served, stood>>
  BY DEF DInv, ReadType, readVars
<1>2. \A c \in Curricula : stood[d].publications[c] \subseteq Publication
  BY <1>1 DEF StoodType
<1>3. Kept(d)'
  BY <1>1 DEF Facts, Kept, KeepsHistory
<1>4. Found(d)'
  BY <1>1 DEF Facts, Found
<1>5. Covered(d)' /\ Answered(d)'
  BY <1>1 DEF Facts, Covered, Answered
<1>6. Overtaken(d) => Overtaken(d)'
  <2> SUFFICES ASSUME NEW c \in Curricula, NEW q \in publications[c], NEW r \in publications[c],
                      q.at < r.at, \A p \in stood[d].publications[c] : p.at < q.at
               PROVE  Overtaken(d)'
    BY DEF Overtaken
  <2>1. PICK q2 \in publications'[c] : q2.at = q.at
    BY DEF KeepsHistory
  <2>2. PICK r2 \in publications'[c] : r2.at = r.at
    BY DEF KeepsHistory
  <2> QED BY <1>1, <2>1, <2>2 DEF Overtaken
<1>7. Traced(d)' /\ WholeStood(d)'
  <2>1. WholeStood(d)'
    BY <1>1, RunsStayWhole DEF Facts
  <2> QED BY <1>1, <2>1 DEF Facts, Traced
<1> QED BY <1>1, <1>3, <1>4, <1>5, <1>6, <1>7 DEF Facts

\* The first query: the latest publications as they stand.
LEMMA ReadHistoryKeeps ==
    ASSUME IInv, WithdrawnTogether, InitialIsAllOrNothing, RetentionFacts, DInv,
           UNCHANGED vars, NEW d \in Readers, ReadHistory(d)
    PROVE  ReadType' /\ Facts(d)'
<1>1. ReadType /\ Facts(d) /\ at[d] = "idle" /\ UNCHANGED <<deleted, publications>>
  BY DEF DInv, ReadHistory, vars
<1>2. /\ light'[d] = [c \in PublishedNow |-> LatestRead(publications[c]).id]
      /\ at'[d] = (IF PublishedNow = {} THEN "served" ELSE "live")
      /\ stood'[d] = [publications |-> publications, deleted |-> deleted]
      /\ served' = served
  BY <1>1 DEF ReadHistory, ReadType, ReadersTypeOK, StoodType
<1>3. ASSUME NEW c \in PublishedNow
      PROVE  /\ c \in Curricula /\ LatestRead(publications[c]) \in publications[c]
             /\ LatestRead(publications[c]) \in Publication
             /\ LatestRead(publications[c]).status = "published"
             /\ \A q \in publications[c] : q.at <= LatestRead(publications[c]).at
  <2>1. c \in Curricula /\ publications[c] # {} /\ LatestRead(publications[c]).status = "published"
    BY DEF PublishedNow
  <2>2. HasNewest(publications[c]) /\ publications[c] \subseteq Publication
    BY <2>1 DEF IInv, TypeOK, StoredFacts, Ordered
  <2> QED BY <2>1, <2>2 DEF HasNewest, LatestRead
<1>4. ReadersTypeOK'
  BY <1>1, <1>2, <1>3 DEF ReadHistory, ReadType, ReadersTypeOK, ReadStates, Publication
<1>5. StoodType'
  <2>1. publications \in [Curricula -> SUBSET Publication] /\ deleted \in SUBSET Curricula
    BY DEF IInv, TypeOK
  <2>2. \A c \in Curricula : IsFiniteSet(publications[c]) /\ InOrder(publications[c])
    BY DEF IInv, StoredFacts, Ordered, RetentionFacts
  <2>3. stood' \in [Readers -> [publications : [Curricula -> SUBSET Publication],
                                deleted : SUBSET Curricula]]
    BY <1>1, <2>1 DEF ReadHistory, ReadType, StoodType
  <2>4. \A e \in Readers : e # d => stood'[e] = stood[e]
    BY <1>1 DEF ReadHistory, ReadType, StoodType
  <2>5. ASSUME NEW e \in Readers, NEW c \in Curricula
        PROVE  IsFiniteSet(stood'[e].publications[c]) /\ InOrder(stood'[e].publications[c])
    <3>1. CASE e = d
      <4>1. stood'[e].publications = publications
        BY <1>2, <3>1
      <4> QED BY <2>2, <4>1
    <3>2. CASE e # d
      <4>1. IsFiniteSet(stood[e].publications[c]) /\ InOrder(stood[e].publications[c])
        BY <1>1 DEF ReadType, StoodType
      <4> QED BY <2>4, <3>2, <4>1
    <3> QED BY <3>1, <3>2
  <2> QED BY <2>3, <2>5 DEF StoodType
<1>6. ReadType'
  BY <1>1, <1>4, <1>5 DEF ReadHistory, ReadType
<1>7. Kept(d)'
  BY <1>1, <1>2 DEF Kept
<1>8. Found(d)'
  BY <1>2, <1>3 DEF Found
<1>9. ASSUME NEW c \in Curricula, NEW p \in publications[c], p.status = "published"
      PROVE  c \in PublishedNow
  <2>1. StateOf(publications[c]) = "published"
    BY <1>9 DEF WithdrawnTogether
  <2> QED BY <2>1 DEF StateOf, PublishedNow, Latest, LatestRead
<1>10. Covered(d)'
  BY <1>2, <1>9 DEF Covered
<1>11. DOMAIN served'[d] = {}
  BY <1>1, <1>2 DEF Facts, Answered
<1>12. Answered(d)'
  BY <1>2, <1>9, <1>11 DEF Answered
<1>13. Traced(d)'
  BY <1>2, <1>11 DEF Traced
<1>14. WholeStood(d)'
  <2> SUFFICES ASSUME NEW r \in Initials,
                      \E c \in Curricula : \E p \in stood'[d].publications[c] : p.id = r
               PROVE  /\ pc'[r] = "published"
                      /\ \A c \in got'[r].live :
                            \/ StateOf(stood'[d].publications[c]) = "withdrawn"
                            \/ \E p \in stood'[d].publications[c] : p.status = "published"
    BY DEF WholeStood
  <2>1. stood'[d].publications = publications /\ pc' = pc /\ got' = got
    BY <1>2 DEF vars
  <2>2. PICK c \in Curricula : \E p \in publications[c] : p.id = r
    BY <2>1
  <2>3. pc[r] = "published"
    BY <2>2 DEF IInv, StoredFacts
  <2>4. ASSUME NEW c2 \in got[r].live
        PROVE  \/ StateOf(publications[c2]) = "withdrawn"
               \/ \E p \in publications[c2] : p.status = "published"
    <3>1. c2 \in Curricula /\ publications[c2] # {}
      <4>1. got[r].live \subseteq Curricula
        BY DEF IInv, TypeOK, Requests
      <4> QED BY <2>2, <4>1 DEF InitialIsAllOrNothing
    <3>2. HasNewest(publications[c2]) /\ publications[c2] \subseteq Publication
      BY <3>1 DEF IInv, TypeOK, StoredFacts, Ordered
    <3>3. Latest(publications[c2]) \in publications[c2]
      BY <3>1, <3>2 DEF HasNewest, Latest
    <3>4. Latest(publications[c2]).status \in {"published", "withdrawn"}
      BY <3>2, <3>3 DEF Publication
    <3> QED BY <3>1, <3>3, <3>4 DEF StateOf
  <2> QED BY <2>1, <2>3, <2>4
<1> QED BY <1>2, <1>6, <1>7, <1>8, <1>10, <1>12, <1>13, <1>14 DEF Facts

\* The second query: the curricula deleted by now are left out.
LEMMA ReadLiveKeeps ==
    ASSUME DInv, UNCHANGED vars, NEW d \in Readers, ReadLive(d)
    PROVE  ReadType' /\ Facts(d)'
<1>1. ReadType /\ Facts(d) /\ at[d] = "live" /\ UNCHANGED <<deleted, publications>>
  BY DEF DInv, ReadLive, vars
<1>2. /\ light'[d] = [c \in StillThere(d) |-> light[d][c]]
      /\ at'[d] = (IF StillThere(d) = {} THEN "served" ELSE "payloads")
      /\ stood' = stood /\ served' = served
  BY <1>1 DEF ReadLive, ReadType, ReadersTypeOK
<1>3. StillThere(d) = DOMAIN light[d] \ deleted
  BY DEF StillThere
<1>4. ReadType'
  <2>1. ReadersTypeOK'
    BY <1>1, <1>2, <1>3 DEF ReadLive, ReadType, ReadersTypeOK, ReadStates
  <2>2. StoodType'
    BY <1>1, <1>2 DEF ReadType, StoodType
  <2> QED BY <1>1, <2>1, <2>2 DEF ReadLive, ReadType
<1>5. Kept(d)' /\ Found(d)'
  BY <1>1, <1>2, <1>3 DEF Facts, Kept, Found
<1>6. Covered(d)'
  BY <1>1, <1>2, <1>3 DEF Facts, Kept, Covered
<1>7. Answered(d)'
  BY <1>1, <1>2, <1>3 DEF Facts, Covered, Answered
<1>8. Traced(d)' /\ WholeStood(d)'
  BY <1>1, <1>2 DEF vars, Facts, Traced, WholeStood
<1> QED BY <1>2, <1>4, <1>5, <1>6, <1>7, <1>8 DEF Facts

\* The row a read looks for is still there, and is as late as all that stood.
LEMMA RowIsThere ==
    ASSUME IInv, RetentionFacts, DInv, NEW d \in Readers, NEW c \in DOMAIN light[d]
    PROVE  /\ c \in Curricula /\ RowNow(d, c) \in publications[c] /\ RowNow(d, c) \in Publication
           /\ \A p \in stood[d].publications[c] : p.at <= RowNow(d, c).at
           /\ \E p \in stood[d].publications[c] : p.status = "published"
           /\ \E p \in stood[d].publications[c] : p.id = RowNow(d, c).id
<1>1. c \in Curricula
  BY DEF DInv, ReadType, ReadersTypeOK
<1>2. PICK p \in stood[d].publications[c] :
         /\ p.id = light[d][c] /\ p.status = "published"
         /\ \A q \in stood[d].publications[c] : q.at <= p.at
  BY DEF DInv, Facts, Found
<1>3. PICK q \in publications[c] : q.id = p.id /\ q.at = p.at
  BY <1>1 DEF DInv, Facts, Kept
<1>4. RowNow(d, c) \in publications[c] /\ RowNow(d, c).id = light[d][c]
  BY <1>2, <1>3 DEF RowNow
<1>5. RowNow(d, c) = q
  BY <1>1, <1>2, <1>3, <1>4 DEF RetentionFacts, OneEach
<1>6. q \in Publication
  BY <1>1 DEF IInv, TypeOK
<1> QED BY <1>1, <1>2, <1>3, <1>4, <1>5, <1>6

\* The third query: the payloads are served, or one of them was pruned, which
\* takes two publications later than the one found.
LEMMA ReadPayloadsKeeps ==
    ASSUME IInv, RetentionFacts, DInv, UNCHANGED vars, NEW d \in Readers, ReadPayloads(d)
    PROVE  ReadType' /\ Facts(d)'
<1>1. ReadType /\ Facts(d) /\ at[d] = "payloads" /\ UNCHANGED <<deleted, publications, light, stood>>
  BY DEF DInv, ReadPayloads, vars
<1>2. StoodType'
  BY <1>1 DEF ReadType, StoodType
<1>3. Kept(d)' /\ Found(d)'
  BY <1>1 DEF Facts, Kept, Found
<1>4. WholeStood(d)'
  BY <1>1 DEF vars, Facts, WholeStood
<1>5. CASE /\ served' = [served EXCEPT ![d] = [c \in DOMAIN light[d] |-> RowNow(d, c)]]
           /\ at' = [at EXCEPT ![d] = "served"]
  <2>1. served'[d] = [c \in DOMAIN light[d] |-> RowNow(d, c)] /\ at'[d] = "served"
    BY <1>1, <1>5 DEF ReadType, ReadersTypeOK
  <2>2. ReadersTypeOK'
    BY <1>1, <1>5, <2>1, RowIsThere DEF ReadType, ReadersTypeOK, ReadStates
  <2>3. ReadType'
    BY <1>1, <1>2, <1>5, <2>2 DEF ReadType
  <2>4. Covered(d)'
    BY <2>1 DEF Covered
  <2>5. Answered(d)'
    BY <1>1, <2>1, RowIsThere DEF Facts, Covered, Answered
  <2>6. Traced(d)'
    BY <1>1, <2>1, RowIsThere DEF Traced
  <2> QED BY <1>3, <1>4, <2>1, <2>3, <2>4, <2>5, <2>6 DEF Facts
<1>6. CASE /\ \E c \in DOMAIN light[d] : ~RowNow(d, c).payload
           /\ at' = [at EXCEPT ![d] = "refused"]
           /\ UNCHANGED served
  <2>1. at'[d] = "refused"
    BY <1>1, <1>6 DEF ReadType, ReadersTypeOK
  <2>2. ReadersTypeOK'
    BY <1>1, <1>6 DEF ReadType, ReadersTypeOK, ReadStates
  <2>3. ReadType'
    BY <1>1, <1>2, <1>6, <2>2 DEF ReadType
  <2>4. Covered(d)' /\ Answered(d)' /\ Traced(d)'
    BY <1>1, <1>6, <2>1 DEF Facts, Covered, Answered, Traced
  <2>5. Overtaken(d)'
    <3>1. PICK c \in DOMAIN light[d] : ~RowNow(d, c).payload
      BY <1>6
    <3> DEFINE row == RowNow(d, c)
    <3>2. /\ c \in Curricula /\ row \in publications[c] /\ row \in Publication
          /\ \A p \in stood[d].publications[c] : p.at <= row.at
      BY RowIsThere
    <3>3. PICK q \in publications[c], r \in publications[c] : row.at < q.at /\ row.at < r.at /\ q # r
      BY <3>1, <3>2 DEF RetentionFacts, Whole
    <3>4. q.at \in Nat /\ r.at \in Nat /\ row.at \in Nat /\ q.at # r.at
      BY <3>2, <3>3 DEF IInv, TypeOK, StoredFacts, Ordered, InOrder, Publication
    <3>5. \A p \in stood[d].publications[c] : p.at \in Nat
      BY <1>1, <3>2 DEF ReadType, StoodType, Publication
    <3> HIDE DEF row
    <3>6. \A p \in stood[d].publications[c] : p.at < q.at /\ p.at < r.at
      BY <3>2, <3>3, <3>4, <3>5
    <3>7. q.at < r.at \/ r.at < q.at
      BY <3>4
    <3> QED BY <1>1, <3>2, <3>6, <3>7 DEF Overtaken
  <2> QED BY <1>3, <1>4, <2>3, <2>4, <2>5 DEF Facts
<1> QED BY <1>5, <1>6 DEF ReadPayloads

\* A failed read answers nothing.
LEMMA FailReadKeeps ==
    ASSUME DInv, UNCHANGED vars, NEW d \in Readers, FailRead(d)
    PROVE  ReadType' /\ Facts(d)'
<1>1. /\ ReadType /\ Facts(d) /\ UNCHANGED <<deleted, publications, light, served, stood>>
      /\ at[d] \in {"live", "payloads"} /\ at' = [at EXCEPT ![d] = "failed"]
  BY DEF DInv, FailRead, vars
<1>2. at'[d] = "failed"
  BY <1>1 DEF ReadType, ReadersTypeOK
<1>3. ReadType'
  BY <1>1 DEF ReadType, ReadersTypeOK, ReadStates, StoodType
<1>4. Kept(d)' /\ Found(d)' /\ Covered(d)' /\ Answered(d)'
  BY <1>1, <1>2 DEF Facts, Kept, Found, Covered, Answered
<1>5. Traced(d)' /\ WholeStood(d)'
  BY <1>1 DEF vars, Facts, Traced, WholeStood
<1> QED BY <1>2, <1>3, <1>4, <1>5 DEF Facts

\* The other reads do not notice.
LEMMA OthersKeepFacts ==
    ASSUME DInv, UNCHANGED vars, NEW d \in Readers, Read(d), NEW e \in Readers, e # d
    PROVE  Facts(e)'
<1>1. UNCHANGED <<deleted, publications, pc, got>>
  BY DEF vars
<1>2. at'[e] = at[e] /\ light'[e] = light[e] /\ served'[e] = served[e] /\ stood'[e] = stood[e]
  BY DEF DInv, ReadType, ReadersTypeOK, StoodType, Read, ReadHistory, ReadLive, ReadPayloads, FailRead
<1>3. Facts(e)
  BY DEF DInv
<1> QED
  BY <1>1, <1>2, <1>3
  DEF Facts, Kept, Found, Covered, Answered, Traced, WholeStood, Overtaken

\* Every step of the store or of a read keeps the invariant.
LEMMA DeliveryKeeps ==
    ASSUME IInv, WithdrawnTogether, InitialIsAllOrNothing, RetentionFacts, DInv,
           [DeliveryNext]_<<vars, readVars>>
    PROVE  DInv'
<1>1. CASE [Next]_vars /\ UNCHANGED readVars
  <2>1. KeepsHistory /\ deleted \subseteq deleted'
    BY <1>1, NextKeepsHistory, DeletedGrows
  <2>2. ReadType'
    BY <1>1 DEF DInv, ReadType, ReadersTypeOK, StoodType, readVars
  <2> QED BY <1>1, <2>1, <2>2, RequestsKeepFacts DEF DInv, IInv
<1>2. ASSUME NEW d \in Readers, Read(d), UNCHANGED vars PROVE DInv'
  <2>1. ReadType' /\ Facts(d)'
    BY <1>2, ReadHistoryKeeps, ReadLiveKeeps, ReadPayloadsKeeps, FailReadKeeps DEF Read
  <2> QED BY <1>2, <2>1, OthersKeepFacts DEF DInv
<1> QED BY <1>1, <1>2 DEF DeliveryNext

(***************************************************************************)
(* The theorems                                                            *)
(***************************************************************************)

\* The store does nothing under its readers that it does not do without them.
THEOREM StoreIsUndisturbed == DeliverySpec => Spec
<1>1. DeliveryInit => Init
  BY DEF DeliveryInit
<1>2. [DeliveryNext]_<<vars, readVars>> => [Next]_vars
  BY DEF DeliveryNext
<1> QED BY <1>1, <1>2, PTL DEF DeliverySpec, Spec

\* The invariant of the reads holds of every behaviour.
THEOREM DeliveryInvariance == DeliverySpec => []DInv
<1>1. /\ IInv /\ WithdrawnTogether /\ InitialIsAllOrNothing /\ RetentionFacts
      /\ DInv /\ [DeliveryNext]_<<vars, readVars>>
      => DInv'
  BY DeliveryKeeps
<1> QED BY <1>1, InitDInv, StoreIsUndisturbed, Invariance, WithdrawnAreTogether,
           InitialRunIsWhole, RetentionInvariance, PTL DEF DeliverySpec

\* Every variable of the reads keeps its type.
THEOREM ReadersTypeCorrect == DeliverySpec => []ReadersTypeOK
<1>1. DInv => ReadersTypeOK
  BY DEF DInv, ReadType
<1> QED BY <1>1, DeliveryInvariance, PTL

\* No read serves a curriculum that was deleted before the read began.
THEOREM DeletedIsNeverServed == DeliverySpec => []DeletedIsNotServed
<1>1. DInv => DeletedIsNotServed
  BY DEF DInv, Facts, Answered, DeletedIsNotServed
<1> QED BY <1>1, DeliveryInvariance, PTL

\* A read carries every act that committed before it began, however its three
\* queries fall between the requests of others.
THEOREM ReadsCarryEarlierActs == DeliverySpec => []CarriesEarlierActs
<1>1. DInv => CarriesEarlierActs
  BY DEF DInv, Facts, Answered, CarriesEarlierActs
<1> QED BY <1>1, DeliveryInvariance, PTL

\* What an initial run has published is served as a whole or not at all, though
\* a read is three queries and no transaction.
THEOREM InitialRunsAreServedWhole == DeliverySpec => []InitialIsServedWhole
<1>1. IInv /\ DInv => InitialIsServedWhole
  <2> SUFFICES ASSUME IInv, DInv, NEW d \in Readers, NEW r \in Initials,
                      NEW c \in DOMAIN served[d], served[d][c].id = r, NEW e \in got[r].live
               PROVE  \/ e \in DOMAIN served[d] \cup deleted
                      \/ StateOf(stood[d].publications[e]) = "withdrawn"
    BY DEF InitialIsServedWhole
  <2>1. Traced(d) /\ WholeStood(d) /\ Answered(d) /\ ReadersTypeOK
    BY DEF DInv, Facts, ReadType
  <2>2. c \in Curricula /\ at[d] = "served"
    BY <2>1 DEF ReadersTypeOK, Answered
  <2>3. e \in Curricula
    BY DEF IInv, TypeOK, Requests
  <2>4. \/ StateOf(stood[d].publications[e]) = "withdrawn"
        \/ \E p \in stood[d].publications[e] : p.status = "published"
    BY <2>1, <2>2 DEF Traced, WholeStood
  <2> QED BY <2>1, <2>2, <2>3, <2>4 DEF Answered
<1> QED BY <1>1, DeliveryInvariance, StoreIsUndisturbed, Invariance, PTL

\* Rows that are kept under other names, and two later ones, are two more.
LEMMA TwoMore ==
    ASSUME NEW S, NEW B, IsFiniteSet(S), IsFiniteSet(B),
           \A p \in B : p.at \in Nat, \A q \in S : q.at \in Nat,
           \A p, q \in B : p.at = q.at => p = q,
           \A p \in B : \E q \in S : q.at = p.at,
           NEW x \in S, NEW y \in S, x.at < y.at, \A p \in B : p.at < x.at
    PROVE  Cardinality(S) >= Cardinality(B) + 2
<1> DEFINE R == (S \ {x}) \ {y}
           f == [p \in B |-> CHOOSE q \in S : q.at = p.at]
<1>1. IsFiniteSet(R) /\ Cardinality(R) = Cardinality(S) - 2 /\ Cardinality(S) \in Nat
  <2>1. IsFiniteSet(S \ {x}) /\ Cardinality(S \ {x}) = Cardinality(S) - 1
    BY FS_RemoveElement
  <2>2. y \in S \ {x}
    OBVIOUS
  <2>3. IsFiniteSet(R) /\ Cardinality(R) = Cardinality(S \ {x}) - 1
    BY <2>1, <2>2, FS_RemoveElement
  <2>4. Cardinality(S) \in Nat
    BY FS_CardinalityType
  <2> QED BY <2>1, <2>3, <2>4
<1>2. \A p \in B : f[p] \in S /\ f[p].at = p.at
  OBVIOUS
<1>3. \A p \in B : f[p] # x /\ f[p] # y
  BY <1>2
<1>4. f \in Injection(B, R)
  <2>1. f \in [B -> R]
    BY <1>2, <1>3
  <2>2. \A p, q \in B : f[p] = f[q] => p = q
    BY <1>2
  <2> HIDE DEF f
  <2> QED BY <2>1, <2>2 DEF Injection, IsInjective
<1>5. Cardinality(B) <= Cardinality(R)
  BY <1>1, <1>4, FS_Injection
<1>6. Cardinality(B) \in Nat
  BY FS_CardinalityType
<1> QED BY <1>1, <1>5, <1>6

\* A read is refused only when a curriculum was published twice under it.
THEOREM ReadsSurviveOnePublish == DeliverySpec => []OnePublishIsSurvived
<1>1. IInv /\ RetentionFacts /\ DInv => OnePublishIsSurvived
  <2> SUFFICES ASSUME IInv, RetentionFacts, DInv, NEW d \in Readers, at[d] = "refused"
               PROVE  \E c \in Curricula :
                         Cardinality(publications[c]) >= Cardinality(stood[d].publications[c]) + 2
    BY DEF OnePublishIsSurvived
  <2>1. PICK c \in Curricula : \E q, r \in publications[c] :
           q.at < r.at /\ \A p \in stood[d].publications[c] : p.at < q.at
    BY DEF DInv, Facts, Overtaken
  <2>2. /\ IsFiniteSet(publications[c]) /\ \A q \in publications[c] : q.at \in Nat
    BY DEF IInv, TypeOK, RetentionFacts, Publication
  <2>3. /\ IsFiniteSet(stood[d].publications[c]) /\ InOrder(stood[d].publications[c])
        /\ \A p \in stood[d].publications[c] : p.at \in Nat
    BY DEF DInv, ReadType, StoodType, Publication
  <2>4. \A p \in stood[d].publications[c] : \E q \in publications[c] : q.at = p.at
    BY DEF DInv, Facts, Kept
  <2>5. \A p, q \in stood[d].publications[c] : p.at = q.at => p = q
    BY <2>3 DEF InOrder
  <2> QED BY <2>1, <2>2, <2>3, <2>4, <2>5, TwoMore
<1> QED BY <1>1, DeliveryInvariance, StoreIsUndisturbed, Invariance, RetentionInvariance, PTL
=============================================================================
