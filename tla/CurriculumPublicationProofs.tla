--------------------- MODULE CurriculumPublicationProofs ---------------------
(***************************************************************************)
(* Proofs about CurriculumPublication, for every set of requests and       *)
(* curricula and every bound.                                              *)
(***************************************************************************)
EXTENDS CurriculumPublication, FiniteSetTheorems, TLAPS

(***************************************************************************)
(* The rows of one curriculum                                              *)
(***************************************************************************)

\* The newest of the rows exists (a set of rows without one has no latest).
HasNewest(S) == S = {} \/ \E p \in S : \A q \in S : q.at <= p.at

\* No two rows tie, and a later row carries nothing older.
InOrder(S) ==
    \A p, q \in S :
        /\ p.at = q.at => p = q
        /\ p.at < q.at => p.bank <= q.bank /\ p.tree <= q.tree

Ordered(S) == HasNewest(S) /\ InOrder(S)

\* The latest row is a row, and no row is later.
LEMMA LatestIsNewest ==
    ASSUME NEW S, S # {}, HasNewest(S)
    PROVE  Latest(S) \in S /\ \A q \in S : q.at <= Latest(S).at
BY DEF HasNewest, Latest

\* A row that no other ties or follows is the latest.
LEMMA LatestIsUnique ==
    ASSUME NEW S \in SUBSET Publication, InOrder(S),
           NEW p \in S, \A q \in S : q.at <= p.at
    PROVE  Latest(S) = p
<1>1. HasNewest(S) /\ S # {}  BY DEF HasNewest
<1>2. Latest(S) \in S /\ p.at <= Latest(S).at /\ Latest(S).at <= p.at
  BY <1>1, LatestIsNewest
<1>3. Latest(S).at \in Nat /\ p.at \in Nat  BY <1>2 DEF Publication
<1>4. Latest(S).at = p.at  BY <1>2, <1>3
<1> QED  BY <1>2, <1>4 DEF InOrder

\* nextTime is a time, and later than every row.
LEMMA NextTimeIsLater ==
    ASSUME NEW S \in SUBSET Publication, HasNewest(S), NEW now \in Nat
    PROVE  /\ NextTime(S, now) \in Nat
           /\ \A q \in S : q.at < NextTime(S, now)
<1>1. CASE S = {}  BY <1>1 DEF NextTime
<1>2. CASE S # {}
  <2>1. Latest(S) \in S /\ \A q \in S : q.at <= Latest(S).at
    BY <1>2, LatestIsNewest
  <2>2. Latest(S).at \in Nat /\ \A q \in S : q.at \in Nat
    BY <2>1 DEF Publication
  <2> QED  BY <1>2, <2>1, <2>2 DEF NextTime
<1> QED  BY <1>1, <1>2

\* Slimming a row keeps everything but its payload and hashes.
LEMMA SlimmedKeeps ==
    ASSUME NEW p \in Publication
    PROVE  /\ Slimmed(p) \in Publication
           /\ Slimmed(p).at = p.at /\ Slimmed(p).id = p.id
           /\ Slimmed(p).bank = p.bank /\ Slimmed(p).tree = p.tree
           /\ Slimmed(p).status = p.status /\ ~Slimmed(p).payload
BY DEF Slimmed, Publication

\* Retention followed by the insert of a later row, read no earlier than the
\* latest, keeps the rows in order and makes the new row the latest.
LEMMA RetainedAndNew ==
    ASSUME NEW S \in SUBSET Publication, Ordered(S),
           NEW new \in Publication, \A q \in S : q.at < new.at,
           S # {} => Latest(S).bank <= new.bank /\ Latest(S).tree <= new.tree
    PROVE  /\ Retained(S) \cup {new} \in SUBSET Publication
           /\ Ordered(Retained(S) \cup {new})
           /\ Latest(Retained(S) \cup {new}) = new
<1> DEFINE T == Retained(S) \cup {new}
<1>1. \A t \in Retained(S) : t \in Publication /\ \E p \in S :
         /\ t.at = p.at /\ t.bank = p.bank /\ t.tree = p.tree
  <2> TAKE t \in Retained(S)
  <2>1. PICK p \in S : t = (IF S # {} /\ p = Latest(S) THEN p ELSE Slimmed(p))
    BY DEF Retained
  <2> QED  BY <2>1, SlimmedKeeps
<1>2. T \in SUBSET Publication  BY <1>1
<1>3. \A p \in S : S # {} /\ p.at <= Latest(S).at /\ Latest(S) \in S
  BY LatestIsNewest DEF Ordered
<1>4. \A p \in S : p.bank <= new.bank /\ p.tree <= new.tree
  <2> TAKE p \in S
  <2>1. p.at \in Nat /\ Latest(S).at \in Nat /\ p.bank \in Nat /\ p.tree \in Nat
        /\ Latest(S).bank \in Nat /\ Latest(S).tree \in Nat
        /\ new.bank \in Nat /\ new.tree \in Nat
    BY <1>3, BoundsAssumption DEF Publication, Versions
  <2>2. CASE p.at = Latest(S).at  BY <2>2, <1>3 DEF Ordered, InOrder
  <2>3. CASE p.at < Latest(S).at
    <3>1. p.bank <= Latest(S).bank /\ p.tree <= Latest(S).tree
      BY <2>3, <1>3 DEF Ordered, InOrder
    <3> QED  BY <3>1, <1>3, <2>1
  <2> QED  BY <1>3, <2>1, <2>2, <2>3
<1>5. \A t \in Retained(S) : t.at < new.at /\ t.bank <= new.bank /\ t.tree <= new.tree
  BY <1>1, <1>4
<1>6. new.at \in Nat /\ \A t \in Retained(S) : t.at \in Nat
  BY <1>1 DEF Publication
<1>7. InOrder(T)
  <2> SUFFICES ASSUME NEW p \in T, NEW q \in T
               PROVE  /\ p.at = q.at => p = q
                      /\ p.at < q.at => p.bank <= q.bank /\ p.tree <= q.tree
    BY DEF InOrder
  <2>1. CASE p \in Retained(S) /\ q \in Retained(S)
    <3>1. PICK x \in S : p = (IF S # {} /\ x = Latest(S) THEN x ELSE Slimmed(x))
      BY <2>1 DEF Retained
    <3>2. PICK y \in S : q = (IF S # {} /\ y = Latest(S) THEN y ELSE Slimmed(y))
      BY <2>1 DEF Retained
    <3>3. p.at = x.at /\ p.bank = x.bank /\ p.tree = x.tree
      BY <3>1, SlimmedKeeps
    <3>4. q.at = y.at /\ q.bank = y.bank /\ q.tree = y.tree
      BY <3>2, SlimmedKeeps
    <3>5. p.at = q.at => p = q
      BY <3>1, <3>2, <3>3, <3>4 DEF Ordered, InOrder
    <3> QED  BY <3>3, <3>4, <3>5 DEF Ordered, InOrder
  <2>2. CASE p = new /\ q = new
    BY <2>2, <1>6
  <2>3. CASE p \in Retained(S) /\ q = new
    BY <2>3, <1>5, <1>6
  <2>4. CASE p = new /\ q \in Retained(S)
    BY <2>4, <1>5, <1>6
  <2> QED  BY <2>1, <2>2, <2>3, <2>4
<1>8. new \in T /\ \A t \in T : t.at <= new.at
  BY <1>5, <1>6
<1>9. Ordered(T)  BY <1>7, <1>8 DEF Ordered, HasNewest
<1> QED  BY <1>2, <1>7, <1>8, <1>9, LatestIsUnique

\* Withdrawing keeps the rows, their order and which is the latest.
LEMMA WithdrawnKeeps ==
    ASSUME NEW S \in SUBSET Publication, Ordered(S)
    PROVE  /\ Withdrawn(S) \in SUBSET Publication
           /\ Ordered(Withdrawn(S))
           /\ Withdrawn(S) = {} <=> S = {}
           /\ S # {} => /\ Latest(Withdrawn(S)).id = Latest(S).id
                        /\ Latest(Withdrawn(S)).bank = Latest(S).bank
                        /\ Latest(Withdrawn(S)).tree = Latest(S).tree
<1> DEFINE W(p) == [p EXCEPT !.status = "withdrawn"]
<1>1. \A p \in S : /\ W(p) \in Publication /\ W(p).at = p.at /\ W(p).id = p.id
                   /\ W(p).bank = p.bank /\ W(p).tree = p.tree
  BY DEF Publication
<1>2. Withdrawn(S) = { W(p) : p \in S }  BY DEF Withdrawn
<1>3. Withdrawn(S) \in SUBSET Publication  BY <1>1, <1>2
<1>4. InOrder(Withdrawn(S))
  <2> SUFFICES ASSUME NEW p \in S, NEW q \in S
               PROVE  /\ W(p).at = W(q).at => W(p) = W(q)
                      /\ W(p).at < W(q).at => W(p).bank <= W(q).bank /\ W(p).tree <= W(q).tree
    BY <1>2 DEF InOrder
  <2> QED  BY <1>1 DEF Ordered, InOrder
<1>5. CASE S = {}
  BY <1>5, <1>2, <1>3, <1>4 DEF Ordered, HasNewest
<1>6. CASE S # {}
  <2>1. Latest(S) \in S /\ \A q \in S : q.at <= Latest(S).at
    BY <1>6, LatestIsNewest DEF Ordered
  <2>2. W(Latest(S)) \in Withdrawn(S) /\ \A q \in Withdrawn(S) : q.at <= W(Latest(S)).at
    BY <1>1, <1>2, <2>1
  <2>3. Latest(Withdrawn(S)) = W(Latest(S))
    BY <1>3, <1>4, <2>2, LatestIsUnique
  <2>4. Ordered(Withdrawn(S))  BY <1>4, <2>2 DEF Ordered, HasNewest
  <2> QED  BY <1>1, <1>3, <1>6, <2>1, <2>2, <2>3, <2>4
<1> QED  BY <1>5, <1>6

(***************************************************************************)
(* The inductive invariant                                                 *)
(***************************************************************************)

\* The stored rows are in order, closed, no newer than the live content, and
\* made by requests that answered `published`.
StoredFacts ==
    \A c \in Curricula :
        /\ Ordered(publications[c])
        /\ \A p \in publications[c] :
              /\ p.bank <= bank /\ p.tree <= tree[c] /\ p.tree <= p.bank
              /\ pc[p.id] = "published"

\* What a request has read is no newer than what is live.
ReadFacts(r) ==
    got[r].bank <= bank /\ \A c \in Curricula : got[r].tree[c] <= tree[c]

\* A request about to write holds the rows it writes for.
LockFacts(r) ==
    /\ r \notin Initials /\ pc[r] = "commit" => lock[target[r]] = r
    /\ r \in Initials /\ pc[r] \in {"commit", "write"} =>
          \A c \in wanted[r] : lock[c] = r

\* A request past its payload has built a closed one.
ClosedFacts(r) ==
    /\ r \in Publishers /\ pc[r] \in {"lock", "commit"} =>
          got[r].tree[target[r]] <= got[r].bank
    /\ r \in Initials /\ pc[r] \in {"lock", "commit", "write"} =>
          \A c \in wanted[r] : got[r].tree[c] <= got[r].bank

\* A publish notes only a publication that was made, and while that is still
\* the latest, what it has read since is no older than that publication.
FreshFacts(r) ==
    /\ noted[r] # None => pc[noted[r]] = "published"
    /\ \A c \in Curricula :
          r \in Publishers /\ c = target[r]
            /\ publications[c] # {} /\ noted[r] = Latest(publications[c]).id =>
            /\ pc[r] \in {"tree", "build", "lock", "commit"} =>
                  Latest(publications[c]).bank <= got[r].bank
            /\ pc[r] \in {"build", "lock", "commit"} =>
                  Latest(publications[c]).tree <= got[r].tree[c]

\* An initial run writes one row per curriculum, what it read, for curricula
\* that have no publication while it holds their locks.
PendingFacts(r) ==
    /\ \A c \in Curricula : \A p \in pending[r][c] :
          /\ pending[r][c] = {p}
          /\ p.id = r /\ p.bank = got[r].bank /\ p.tree = got[r].tree[c]
          /\ p.payload /\ p.hashes
          /\ r \in Initials /\ pc[r] = "write" /\ c \in wanted[r]
    /\ r \in Initials /\ pc[r] = "write" =>
          \A c \in wanted[r] : publications[c] = {}

RequestFacts(r) ==
    ReadFacts(r) /\ LockFacts(r) /\ ClosedFacts(r) /\ FreshFacts(r) /\ PendingFacts(r)

IInv ==
    /\ TypeOK
    /\ StoredFacts
    /\ \A r \in Requests : RequestFacts(r)

(***************************************************************************)
(* The invariant holds at first, and every step keeps it                   *)
(***************************************************************************)

\* The invariant holds at first.
LEMMA InitIInv == Init => IInv
<1> SUFFICES ASSUME Init PROVE IInv  OBVIOUS
<1>1. TypeOK
  BY BoundsAssumption
  DEF Init, TypeOK, Labels, NoContent, Versions
<1>2. StoredFacts
  BY DEF Init, StoredFacts, Ordered, HasNewest, InOrder
<1>3. ASSUME NEW r \in Requests PROVE RequestFacts(r)
  BY DEF Init, RequestFacts, ReadFacts, LockFacts, ClosedFacts, FreshFacts,
         PendingFacts, NoContent
<1> QED  BY <1>1, <1>2, <1>3 DEF IInv

\* The versions a request has read and the live ones are numbers.
LEMMA GotTypes ==
    ASSUME TypeOK, NEW r \in Requests, NEW c \in Curricula
    PROVE  /\ got[r].bank \in Nat /\ got[r].tree[c] \in Nat
           /\ got[r].bank \in Versions /\ got[r].tree[c] \in Versions
           /\ bank \in Nat /\ tree[c] \in Nat
BY BoundsAssumption DEF TypeOK, Versions

\* The latest row of a curriculum that has one is among its rows.
LEMMA LatestStored ==
    ASSUME TypeOK, StoredFacts, NEW c \in Curricula, publications[c] # {}
    PROVE  /\ Latest(publications[c]) \in publications[c]
           /\ Latest(publications[c]) \in Publication
           /\ Latest(publications[c]).bank <= bank
           /\ Latest(publications[c]).tree <= tree[c]
           /\ pc[Latest(publications[c]).id] = "published"
<1>1. Latest(publications[c]) \in publications[c]
  BY LatestIsNewest DEF StoredFacts, Ordered
<1> QED  BY <1>1 DEF StoredFacts, TypeOK

\* A step of one request that leaves the store alone keeps the stored rows.
LEMMA StoredKeeps ==
    ASSUME TypeOK, StoredFacts, NEW r \in Requests,
           bank' = bank, tree' = tree, publications' = publications,
           pc[r] # "published",
           \A q \in Requests \ {r} : pc'[q] = pc[q]
    PROVE  StoredFacts'
BY DEF StoredFacts, TypeOK, Publication

\* How a step of request r may change the rows of curriculum c: not at all, or
\* under its lock, keeping which row is the latest or adding its own.
RowsKept(r, c) ==
    \/ publications'[c] = publications[c]
    \/ /\ lock[c] = r
       /\ publications'[c] # {}
       /\ \/ Latest(publications'[c]).id = r
          \/ /\ publications[c] # {}
             /\ Latest(publications'[c]).id = Latest(publications[c]).id
             /\ Latest(publications'[c]).bank = Latest(publications[c]).bank
             /\ Latest(publications'[c]).tree = Latest(publications[c]).tree

\* A step of one request keeps what holds of the others.
LEMMA OthersKeep ==
    ASSUME IInv, NEW r \in Requests,
           bank' = bank, tree' = tree, target' = target,
           pc[r] # "published",
           \A q \in Requests \ {r} :
              /\ pc'[q] = pc[q] /\ noted'[q] = noted[q] /\ got'[q] = got[q]
              /\ wanted'[q] = wanted[q] /\ pending'[q] = pending[q],
           \A c \in Curricula : lock[c] \notin {None, r} => lock'[c] = lock[c],
           \A c \in Curricula : RowsKept(r, c),
           NEW q \in Requests, q # r
    PROVE  RequestFacts(q)'
<1>1. /\ TypeOK /\ RequestFacts(q)
      /\ pc'[q] = pc[q] /\ noted'[q] = noted[q] /\ got'[q] = got[q]
      /\ wanted'[q] = wanted[q] /\ pending'[q] = pending[q]
  BY DEF IInv
<1>2. q # None /\ r # None  BY RequestsAssumption
<1>3. q \notin Initials => target[q] \in Curricula
  BY <1>1 DEF TypeOK
<1>4. wanted[q] \subseteq Curricula  BY <1>1 DEF TypeOK
<1>5. ReadFacts(q)'
  BY <1>1 DEF RequestFacts, ReadFacts
<1>6. LockFacts(q)'
  BY <1>1, <1>2, <1>3, <1>4 DEF RequestFacts, LockFacts
<1>7. ClosedFacts(q)'
  BY <1>1 DEF RequestFacts, ClosedFacts
<1>8. FreshFacts(q)'
  <2>1. noted'[q] # None => pc'[noted'[q]] = "published" /\ noted[q] # r
    BY <1>1 DEF RequestFacts, FreshFacts, TypeOK
  <2>2. ASSUME NEW c \in Curricula, q \in Publishers, c = target[q],
               publications'[c] # {}, noted[q] = Latest(publications'[c]).id
        PROVE  /\ pc[q] \in {"tree", "build", "lock", "commit"} =>
                     Latest(publications'[c]).bank <= got[q].bank
               /\ pc[q] \in {"build", "lock", "commit"} =>
                     Latest(publications'[c]).tree <= got[q].tree[c]
    <3>1. CASE publications'[c] = publications[c]
      BY <1>1, <2>2, <3>1 DEF RequestFacts, FreshFacts
    <3>2. CASE Latest(publications'[c]).id = r
      BY <1>1, <1>2, <2>1, <2>2, <3>2
    <3>3. CASE /\ publications[c] # {}
               /\ Latest(publications'[c]).id = Latest(publications[c]).id
               /\ Latest(publications'[c]).bank = Latest(publications[c]).bank
               /\ Latest(publications'[c]).tree = Latest(publications[c]).tree
      BY <1>1, <2>2, <3>3 DEF RequestFacts, FreshFacts
    <3> QED  BY <3>1, <3>2, <3>3 DEF RowsKept
  <2> QED  BY <1>1, <2>1, <2>2 DEF FreshFacts
<1>9. PendingFacts(q)'
  <2>1. q \in Initials /\ pc[q] = "write" =>
           \A c \in wanted[q] : publications'[c] = publications[c]
    BY <1>1, <1>4 DEF RequestFacts, LockFacts, RowsKept
  <2> QED  BY <1>1, <2>1 DEF RequestFacts, PendingFacts
<1> QED  BY <1>5, <1>6, <1>7, <1>8, <1>9 DEF RequestFacts

\* An edit of the questions or documents keeps it: what is stored and read only falls behind.
LEMMA EditBankKeeps == ASSUME IInv, EditBank PROVE IInv'
<1>1. TypeOK /\ StoredFacts /\ \A r \in Requests : RequestFacts(r)
  BY DEF IInv
<1>2. /\ bank' = bank + 1 /\ bank \in Nat /\ bank' \in Versions
      /\ UNCHANGED <<tree, deleted, publications, lock, pc, target, noted, got,
                     wanted, base, pending>>
  BY <1>1, BoundsAssumption DEF EditBank, store, TypeOK, Versions
<1>3. TypeOK'
  BY <1>1, <1>2 DEF TypeOK
<1>4. \A c \in Curricula : \A p \in publications[c] : p.bank \in Nat
  BY <1>1, BoundsAssumption DEF TypeOK, Publication, Versions
<1>5. StoredFacts'
  BY <1>1, <1>2, <1>4 DEF StoredFacts
<1>6. ASSUME NEW r \in Requests PROVE RequestFacts(r)'
  <2>1. got[r].bank \in Nat
    BY <1>1, BoundsAssumption DEF TypeOK, Versions
  <2> QED
    BY <1>1, <1>2, <2>1
    DEF RequestFacts, ReadFacts, LockFacts, ClosedFacts, FreshFacts, PendingFacts
<1> QED  BY <1>3, <1>5, <1>6 DEF IInv

\* So does an edit of the rows of a curriculum.
LEMMA EditTreeKeeps ==
    ASSUME IInv, NEW d \in Curricula, EditTree(d) PROVE IInv'
<1>1. TypeOK /\ StoredFacts /\ \A r \in Requests : RequestFacts(r)
  BY DEF IInv
<1>2. UNCHANGED <<bank, deleted, publications, lock, pc, target, noted, got,
                  wanted, base, pending>>
  BY DEF EditTree, store
<1>3. /\ tree' \in [Curricula -> Versions]
      /\ \A c \in Curricula : tree[c] \in Nat /\ tree'[c] \in Nat /\ tree[c] <= tree'[c]
  BY <1>1, BoundsAssumption DEF EditTree, TypeOK, Versions
<1>4. TypeOK'
  BY <1>1, <1>2, <1>3 DEF TypeOK
<1>5. \A c \in Curricula : \A p \in publications[c] : p.tree \in Nat
  BY <1>1, BoundsAssumption DEF TypeOK, Publication, Versions
<1>6. StoredFacts'
  BY <1>1, <1>2, <1>3, <1>5 DEF StoredFacts
<1>7. ASSUME NEW r \in Requests PROVE RequestFacts(r)'
  <2>1. \A c \in Curricula : got[r].tree[c] \in Nat
    BY <1>1, GotTypes
  <2> QED
    BY <1>1, <1>2, <1>3, <2>1
    DEF RequestFacts, ReadFacts, LockFacts, ClosedFacts, FreshFacts, PendingFacts
<1> QED  BY <1>4, <1>6, <1>7 DEF IInv

\* What is read now is at least what the noted publication carries.
LEMMA ReadBankKeeps ==
    ASSUME IInv, NEW r \in Requests, ReadBank(r) PROVE IInv'
<1>1. TypeOK /\ StoredFacts /\ RequestFacts(r)
  BY DEF IInv
<1>2. /\ UNCHANGED <<bank, tree, deleted, publications, lock, target, noted,
                     wanted, base, pending>>
      /\ pc[r] = "bank" /\ pc' = [pc EXCEPT ![r] = "tree"]
      /\ got' = [got EXCEPT ![r].bank = bank]
  BY DEF ReadBank, content, store, Goto
<1>3. /\ pc'[r] = "tree" /\ \A q \in Requests \ {r} : pc'[q] = pc[q] /\ got'[q] = got[q]
      /\ got'[r].bank = bank /\ got'[r].tree = got[r].tree
  BY <1>1, <1>2 DEF TypeOK
<1>4. TypeOK'
  BY <1>1, <1>2 DEF TypeOK, Labels
<1>5. StoredFacts'
  BY <1>1, <1>2, <1>3, StoredKeeps
<1>6. ASSUME NEW q \in Requests, q # r PROVE RequestFacts(q)'
  BY <1>2, <1>3, <1>6, OthersKeep DEF RowsKept
<1>7. RequestFacts(r)'
  <2>1. ReadFacts(r)'
    BY <1>1, <1>2, <1>3, BoundsAssumption DEF RequestFacts, ReadFacts, TypeOK, Versions
  <2>2. LockFacts(r)' /\ ClosedFacts(r)' /\ PendingFacts(r)'
    BY <1>1, <1>2, <1>3 DEF RequestFacts, LockFacts, ClosedFacts, PendingFacts
  <2>3. FreshFacts(r)'
    <3>1. noted[r] # None => pc'[noted[r]] = "published"
      BY <1>1, <1>2, <1>3 DEF RequestFacts, FreshFacts, TypeOK
    <3> QED  BY <1>1, <1>2, <1>3, <3>1, LatestStored DEF FreshFacts
  <2> QED  BY <2>1, <2>2, <2>3 DEF RequestFacts
<1> QED  BY <1>4, <1>5, <1>6, <1>7 DEF IInv

\* The same for the rows of the curricula.
LEMMA ReadTreeKeeps ==
    ASSUME IInv, NEW r \in Requests, ReadTree(r) PROVE IInv'
<1>1. TypeOK /\ StoredFacts /\ RequestFacts(r)
  BY DEF IInv
<1>2. /\ UNCHANGED <<bank, tree, deleted, publications, lock, target, noted,
                     wanted, base, pending>>
      /\ pc[r] = "tree" /\ pc' = [pc EXCEPT ![r] = "build"]
      /\ got' = [got EXCEPT ![r].tree = tree, ![r].live = Curricula \ deleted]
  BY DEF ReadTree, content, store, Goto
<1>3. /\ pc'[r] = "build" /\ \A q \in Requests \ {r} : pc'[q] = pc[q] /\ got'[q] = got[q]
      /\ got'[r].bank = got[r].bank /\ got'[r].tree = tree
  BY <1>1, <1>2 DEF TypeOK
<1>4. TypeOK'
  BY <1>1, <1>2 DEF TypeOK, Labels
<1>5. StoredFacts'
  BY <1>1, <1>2, <1>3, StoredKeeps
<1>6. ASSUME NEW q \in Requests, q # r PROVE RequestFacts(q)'
  BY <1>2, <1>3, <1>6, OthersKeep DEF RowsKept
<1>7. RequestFacts(r)'
  <2>1. ReadFacts(r)'
    BY <1>1, <1>2, <1>3, BoundsAssumption DEF RequestFacts, ReadFacts, TypeOK, Versions
  <2>2. LockFacts(r)' /\ ClosedFacts(r)' /\ PendingFacts(r)'
    BY <1>1, <1>2, <1>3 DEF RequestFacts, LockFacts, ClosedFacts, PendingFacts
  <2>3. FreshFacts(r)'
    <3>1. noted[r] # None => pc'[noted[r]] = "published"
      BY <1>1, <1>2, <1>3 DEF RequestFacts, FreshFacts, TypeOK
    <3> QED  BY <1>1, <1>2, <1>3, <3>1, LatestStored DEF RequestFacts, FreshFacts
  <2> QED  BY <2>1, <2>2, <2>3 DEF RequestFacts
<1> QED  BY <1>4, <1>5, <1>6, <1>7 DEF IInv

\* What is noted is the latest publication, so its request has answered.
LEMMA BeginPublishKeeps ==
    ASSUME IInv, NEW r \in Requests, BeginPublish(r) PROVE IInv'
<1>1. TypeOK /\ StoredFacts /\ RequestFacts(r)
  BY DEF IInv
<1>2. /\ UNCHANGED <<bank, tree, deleted, publications, lock, target, got,
                     wanted, base, pending>>
      /\ r \in Publishers /\ pc[r] = "idle" /\ pc' = [pc EXCEPT ![r] = "bank"]
      /\ noted' = [noted EXCEPT ![r] = LatestId(publications[target[r]])]
  BY DEF BeginPublish, content, store, Goto
<1>3. target[r] \in Curricula
  BY <1>1, <1>2, RequestsAssumption DEF TypeOK
<1>4. /\ LatestId(publications[target[r]]) \in Requests \cup {None}
      /\ LatestId(publications[target[r]]) # None =>
            pc[LatestId(publications[target[r]])] = "published"
  BY <1>1, <1>3, LatestStored DEF LatestId, Publication
<1>5. /\ pc'[r] = "bank" /\ \A q \in Requests \ {r} : pc'[q] = pc[q] /\ noted'[q] = noted[q]
      /\ noted'[r] = LatestId(publications[target[r]])
  BY <1>1, <1>2 DEF TypeOK
<1>6. TypeOK'
  BY <1>1, <1>2, <1>4 DEF TypeOK, Labels
<1>7. StoredFacts'
  BY <1>1, <1>2, <1>5, StoredKeeps
<1>8. ASSUME NEW q \in Requests, q # r PROVE RequestFacts(q)'
  BY <1>2, <1>5, <1>8, OthersKeep DEF RowsKept
<1>9. RequestFacts(r)'
  <2>1. ReadFacts(r)' /\ LockFacts(r)' /\ ClosedFacts(r)' /\ PendingFacts(r)'
    BY <1>1, <1>2, <1>5 DEF RequestFacts, ReadFacts, LockFacts, ClosedFacts, PendingFacts
  <2>2. FreshFacts(r)'
    BY <1>2, <1>4, <1>5 DEF FreshFacts
  <2> QED  BY <2>1, <2>2 DEF RequestFacts
<1> QED  BY <1>6, <1>7, <1>8, <1>9 DEF IInv

\* A step that moves one request to another label, taking or giving back its
\* own locks, keeps the invariant when the label asks nothing it does not have.
LEMMA MoveKeeps ==
    ASSUME IInv, NEW r \in Requests, NEW l \in Labels, NEW W \in SUBSET Curricula,
           UNCHANGED <<bank, tree, deleted, publications, target, noted, got,
                       base, pending>>,
           pc' = [pc EXCEPT ![r] = l], wanted' = [wanted EXCEPT ![r] = W],
           lock' \in [Curricula -> Requests \cup {None}],
           \A c \in Curricula : lock[c] \notin {None, r} => lock'[c] = lock[c],
           pc[r] \notin {"published", "write"}, l # "write",
           r \notin Initials /\ l = "commit" => lock'[target[r]] = r,
           r \in Initials /\ l = "commit" => \A c \in W : lock'[c] = r,
           r \in Publishers /\ l \in {"lock", "commit"} =>
              got[r].tree[target[r]] <= got[r].bank,
           r \in Initials /\ l \in {"lock", "commit"} =>
              \A c \in W : got[r].tree[c] <= got[r].bank,
           r \in Publishers =>
              /\ l # "tree"
              /\ l \in {"build", "lock", "commit"} => pc[r] \in {"build", "lock", "commit"}
    PROVE  IInv'
<1>1. TypeOK /\ StoredFacts /\ RequestFacts(r)
  BY DEF IInv
<1>2. /\ pc'[r] = l /\ wanted'[r] = W
      /\ \A q \in Requests \ {r} : pc'[q] = pc[q] /\ wanted'[q] = wanted[q]
  BY <1>1 DEF TypeOK
<1>3. TypeOK'
  BY <1>1 DEF TypeOK
<1>4. StoredFacts'
  BY <1>1, <1>2, StoredKeeps
<1>5. ASSUME NEW q \in Requests, q # r PROVE RequestFacts(q)'
  BY <1>2, <1>5, OthersKeep DEF RowsKept
<1>6. RequestFacts(r)'
  <2>1. ReadFacts(r)' /\ LockFacts(r)' /\ ClosedFacts(r)'
    BY <1>1, <1>2 DEF RequestFacts, ReadFacts, LockFacts, ClosedFacts
  <2>2. PendingFacts(r)'
    BY <1>1, <1>2 DEF RequestFacts, PendingFacts
  <2>3. FreshFacts(r)'
    <3>1. noted[r] # None => pc'[noted[r]] = "published"
      BY <1>1, <1>2 DEF RequestFacts, FreshFacts, TypeOK
    <3> QED  BY <1>1, <1>2, <3>1 DEF RequestFacts, FreshFacts
  <2> QED  BY <2>1, <2>2, <2>3 DEF RequestFacts
<1> QED  BY <1>3, <1>4, <1>5, <1>6 DEF IInv

\* Leaving `wanted` alone is setting it to what it is.
LEMMA WantedAsIs ==
    ASSUME TypeOK, NEW r \in Requests, wanted' = wanted
    PROVE  wanted' = [wanted EXCEPT ![r] = wanted[r]] /\ wanted[r] \in SUBSET Curricula
BY DEF TypeOK

\* The end of a transaction frees its own locks and no others.
LEMMA ReleaseAllFrees ==
    ASSUME TypeOK, NEW r \in Requests, ReleaseAll(r)
    PROVE  /\ lock' \in [Curricula -> Requests \cup {None}]
           /\ \A c \in Curricula : lock[c] \notin {None, r} => lock'[c] = lock[c]
BY DEF TypeOK, ReleaseAll

\* A lock is taken only when free, and no other lock moves.
LEMMA AcquireTakes ==
    ASSUME TypeOK, NEW r \in Requests, NEW d \in Curricula, Acquire(r, d)
    PROVE  /\ lock' \in [Curricula -> Requests \cup {None}]
           /\ lock'[d] = r
           /\ \A c \in Curricula : lock[c] # None => lock'[c] = lock[c]
BY DEF TypeOK, Acquire, Free

\* Only a closed payload goes on to the lock.
LEMMA BuildPayloadKeeps ==
    ASSUME IInv, NEW r \in Requests, BuildPayload(r) PROVE IInv'
<1>1. TypeOK /\ RequestFacts(r)  BY DEF IInv
<1>2. /\ UNCHANGED <<bank, tree, deleted, publications, lock, target, noted, got,
                     wanted, base, pending>>
      /\ r \in Publishers /\ r \notin Initials /\ pc[r] = "build"
  BY RequestsAssumption DEF BuildPayload, content, store
<1>3. PICK l \in {"notfound", "refused", "lock"} :
         Goto(r, l) /\ (l = "lock" => Closed(got[r], target[r]))
  BY DEF BuildPayload, Publishable
<1>4. lock' \in [Curricula -> Requests \cup {None}]  BY <1>1, <1>2 DEF TypeOK
<1> QED
  BY <1>1, <1>2, <1>3, <1>4, WantedAsIs, MoveKeeps DEF Goto, Closed, Labels, Ended

\* A publish goes on to the commit only with the lock.
LEMMA LockToPublishKeeps ==
    ASSUME IInv, NEW r \in Requests, LockToPublish(r) PROVE IInv'
<1>1. TypeOK /\ RequestFacts(r)  BY DEF IInv
<1>2. /\ UNCHANGED <<bank, tree, deleted, publications, target, noted, got,
                     wanted, base, pending>>
      /\ r \in Publishers /\ r \notin Initials /\ pc[r] = "lock"
  BY RequestsAssumption DEF LockToPublish, content, store
<1>3. target[r] \in Curricula  BY <1>1, <1>2 DEF TypeOK
<1>4. got[r].tree[target[r]] <= got[r].bank
  BY <1>1, <1>2 DEF RequestFacts, ClosedFacts
<1>5. CASE Acquire(r, target[r]) /\ Goto(r, "commit")
  BY <1>1, <1>2, <1>3, <1>4, <1>5, AcquireTakes, WantedAsIs, MoveKeeps
  DEF Goto, Labels
<1>6. CASE lock' = lock /\ Goto(r, "notfound")
  <2>1. lock' \in [Curricula -> Requests \cup {None}]  BY <1>1, <1>6 DEF TypeOK
  <2> QED
    BY <1>1, <1>2, <1>6, <2>1, WantedAsIs, MoveKeeps DEF Goto, Labels, Ended
<1> QED  BY <1>5, <1>6 DEF LockToPublish

\* A refused publish gives its lock back.
LEMMA RefusePublishKeeps ==
    ASSUME IInv, NEW r \in Requests, RefusePublish(r) PROVE IInv'
<1>1. TypeOK  BY DEF IInv
<1>2. /\ UNCHANGED <<bank, tree, deleted, publications, target, noted, got,
                     wanted, base, pending>>
      /\ r \in Publishers /\ pc[r] = "commit" /\ ReleaseAll(r) /\ Goto(r, "conflict")
  BY DEF RefusePublish, content, store
<1> QED
  BY <1>1, <1>2, ReleaseAllFrees, WantedAsIs, MoveKeeps DEF Goto, Labels, Ended

\* A retire begins with nothing read.
LEMMA BeginRetireKeeps ==
    ASSUME IInv, NEW r \in Requests, BeginRetire(r) PROVE IInv'
<1>1. TypeOK  BY DEF IInv
<1>2. /\ UNCHANGED <<bank, tree, deleted, publications, lock, target, noted, got,
                     wanted, base, pending>>
      /\ r \notin Publishers /\ r \notin Initials /\ pc[r] = "idle" /\ Goto(r, "lock")
  BY RequestsAssumption DEF BeginRetire, content, store
<1>3. lock' \in [Curricula -> Requests \cup {None}]  BY <1>1, <1>2 DEF TypeOK
<1> QED
  BY <1>1, <1>2, <1>3, WantedAsIs, MoveKeeps DEF Goto, Labels

\* A retire or a delete goes on to the commit only with the lock.
LEMMA LockToWithdrawKeeps ==
    ASSUME IInv, NEW r \in Requests, LockToWithdraw(r) PROVE IInv'
<1>1. TypeOK  BY DEF IInv
<1>2. /\ UNCHANGED <<bank, tree, deleted, publications, target, noted, got,
                     wanted, base, pending>>
      /\ r \notin Publishers /\ r \notin Initials /\ pc[r] = "lock"
      /\ Acquire(r, target[r]) /\ Goto(r, "commit")
  BY RequestsAssumption DEF LockToWithdraw, content, store
<1>3. target[r] \in Curricula  BY <1>1, <1>2 DEF TypeOK
<1> QED
  BY <1>1, <1>2, <1>3, AcquireTakes, WantedAsIs, MoveKeeps DEF Goto, Labels

\* The answer of a retire reads and changes nothing.
LEMMA AnswerRetireKeeps ==
    ASSUME IInv, NEW r \in Requests, AnswerRetire(r) PROVE IInv'
<1>1. TypeOK /\ StoredFacts  BY DEF IInv
<1>2. /\ UNCHANGED <<bank, tree, deleted, publications, lock, target, noted, got,
                     wanted, base, pending>>
      /\ r \notin Publishers /\ r \notin Initials /\ pc[r] = "answer"
      /\ Goto(r, StateOf(publications[target[r]]))
  BY RequestsAssumption DEF AnswerRetire, content, store
<1>3. target[r] \in Curricula  BY <1>1, <1>2 DEF TypeOK
<1>4. StateOf(publications[target[r]]) \in {"never", "published", "withdrawn"}
  BY <1>1, <1>3, LatestStored DEF StateOf, Publication
<1>5. lock' \in [Curricula -> Requests \cup {None}]  BY <1>1, <1>2 DEF TypeOK
<1> QED
  BY <1>1, <1>2, <1>4, <1>5, WantedAsIs, MoveKeeps DEF Goto, Labels, Ended

\* A delete begins with nothing read.
LEMMA BeginDeleteKeeps ==
    ASSUME IInv, NEW r \in Requests, BeginDelete(r) PROVE IInv'
<1>1. TypeOK  BY DEF IInv
<1>2. /\ UNCHANGED <<bank, tree, deleted, publications, lock, target, noted, got,
                     wanted, base, pending>>
      /\ r \notin Publishers /\ r \notin Initials /\ pc[r] = "idle"
  BY RequestsAssumption DEF BeginDelete, content, store
<1>3. PICK l \in {"notfound", "lock"} : Goto(r, l)  BY DEF BeginDelete
<1>4. lock' \in [Curricula -> Requests \cup {None}]  BY <1>1, <1>2 DEF TypeOK
<1> QED
  BY <1>1, <1>2, <1>3, <1>4, WantedAsIs, MoveKeeps DEF Goto, Labels, Ended

\* An initial run begins with nothing read.
LEMMA BeginInitialKeeps ==
    ASSUME IInv, NEW r \in Requests, BeginInitial(r) PROVE IInv'
<1>1. TypeOK  BY DEF IInv
<1>2. /\ UNCHANGED <<bank, tree, deleted, publications, lock, target, noted, got,
                     wanted, base, pending>>
      /\ r \notin Publishers /\ r \in Initials /\ pc[r] = "idle" /\ Goto(r, "bank")
  BY RequestsAssumption DEF BeginInitial, content, store
<1>3. lock' \in [Curricula -> Requests \cup {None}]  BY <1>1, <1>2 DEF TypeOK
<1> QED
  BY <1>1, <1>2, <1>3, WantedAsIs, MoveKeeps DEF Goto, Labels

\* An initial run goes on only when every payload is closed.
LEMMA PlanInitialKeeps ==
    ASSUME IInv, NEW r \in Requests, PlanInitial(r) PROVE IInv'
<1> DEFINE plan == Unpublished(got[r].live)
<1>1. TypeOK  BY DEF IInv
<1>2. /\ UNCHANGED <<bank, tree, deleted, publications, lock, target, noted, got,
                     base, pending>>
      /\ r \notin Publishers /\ r \in Initials /\ pc[r] = "build"
      /\ wanted' = [wanted EXCEPT ![r] = plan]
  BY RequestsAssumption DEF PlanInitial, content, store
<1>3. PICK l \in {"nothing", "refused", "lock"} :
         Goto(r, l) /\ (l = "lock" => \A c \in plan : Closed(got[r], c))
  BY DEF PlanInitial, Publishable
<1>4. plan \in SUBSET Curricula  BY <1>1 DEF TypeOK, Unpublished
<1>5. lock' \in [Curricula -> Requests \cup {None}]  BY <1>1, <1>2 DEF TypeOK
<1> QED
  BY <1>1, <1>2, <1>3, <1>4, <1>5, MoveKeeps DEF Goto, Closed, Labels, Ended

\* An initial run goes on to the commit with all its locks.
LEMMA LockToInitialKeeps ==
    ASSUME IInv, NEW r \in Requests, LockToInitial(r) PROVE IInv'
<1>1. TypeOK /\ RequestFacts(r)  BY DEF IInv
<1>2. /\ UNCHANGED <<bank, tree, deleted, publications, target, noted, got,
                     wanted, base, pending>>
      /\ r \notin Publishers /\ r \in Initials /\ pc[r] = "lock"
  BY RequestsAssumption DEF LockToInitial, content, store
<1>3. PICK c \in NextToLock(r) :
         /\ Acquire(r, c)
         /\ Goto(r, IF wanted[r] \ HeldBy(r) = {c} THEN "commit" ELSE "lock")
  BY DEF LockToInitial
<1>4. c \in Curricula  BY <1>1, <1>3 DEF NextToLock, TypeOK
<1>5. \A d \in wanted[r] : got[r].tree[d] <= got[r].bank
  BY <1>1, <1>2 DEF RequestFacts, ClosedFacts
<1>6. /\ lock' \in [Curricula -> Requests \cup {None}] /\ lock'[c] = r
      /\ \A d \in Curricula : lock[d] # None => lock'[d] = lock[d]
  BY <1>1, <1>3, <1>4, AcquireTakes
<1>7. CASE wanted[r] \ HeldBy(r) = {c}
  <2>1. \A d \in wanted[r] : lock'[d] = r
    BY <1>1, <1>6, <1>7, RequestsAssumption DEF HeldBy, TypeOK
  <2> QED
    BY <1>1, <1>2, <1>3, <1>5, <1>6, <1>7, <2>1, WantedAsIs, MoveKeeps DEF Goto, Labels
<1>8. CASE wanted[r] \ HeldBy(r) # {c}
  BY <1>1, <1>2, <1>3, <1>5, <1>6, <1>8, WantedAsIs, MoveKeeps DEF Goto, Labels
<1> QED  BY <1>7, <1>8

\* The step the two ordering invariants are about: the new row is dated after
\* the latest, and was read after it, for the latest is the one noted.
LEMMA CommitPublishKeeps ==
    ASSUME IInv, NEW r \in Requests, CommitPublish(r) PROVE IInv'
<1> DEFINE c == target[r]
<1> DEFINE S == publications[c]
<1>1. TypeOK /\ StoredFacts /\ RequestFacts(r)
  BY DEF IInv
<1>2. /\ UNCHANGED <<bank, tree, deleted, target, noted, got, wanted, base, pending>>
      /\ r \in Publishers /\ r \notin Initials /\ pc[r] = "commit"
      /\ LatestId(S) = noted[r] /\ ReleaseAll(r)
      /\ pc' = [pc EXCEPT ![r] = "published"]
  BY RequestsAssumption DEF CommitPublish, content, Goto, Unmoved
<1>3. c \in Curricula /\ lock[c] = r /\ S \in SUBSET Publication /\ Ordered(S)
  <2>1. c \in Curricula  BY <1>1, <1>2 DEF TypeOK
  <2> QED  BY <1>1, <1>2, <2>1 DEF TypeOK, RequestFacts, LockFacts, StoredFacts
<1>4. PICK now \in 0 .. MaxClock :
         publications' = [publications EXCEPT ![c] =
             Retained(S) \cup {NewPublication(r, c, NextTime(S, now))}]
  BY DEF CommitPublish
<1> DEFINE new == NewPublication(r, c, NextTime(S, now))
<1> DEFINE T == Retained(S) \cup {new}
<1>5. NextTime(S, now) \in Nat /\ \A q \in S : q.at < NextTime(S, now)
  BY <1>3, NextTimeIsLater DEF Ordered
<1>6. /\ new \in Publication /\ new.at = NextTime(S, now) /\ new.id = r
      /\ new.bank = got[r].bank /\ new.tree = got[r].tree[c]
  BY <1>1, <1>3, <1>5, GotTypes DEF NewPublication, Publication
<1>7. S # {} => Latest(S).bank <= new.bank /\ Latest(S).tree <= new.tree
  BY <1>1, <1>2, <1>3, <1>6 DEF RequestFacts, FreshFacts, LatestId
<1>8. T \in SUBSET Publication /\ Ordered(T) /\ Latest(T) = new
  <2>1. new \in Publication /\ \A q \in S : q.at < new.at
    BY <1>5, <1>6
  <2> HIDE DEF new, S
  <2> QED  BY <1>3, <1>7, <2>1, RetainedAndNew
<1>9. /\ pc'[r] = "published" /\ \A q \in Requests \ {r} : pc'[q] = pc[q]
      /\ publications'[c] = T
      /\ \A d \in Curricula : d # c => publications'[d] = publications[d]
  BY <1>1, <1>2, <1>3, <1>4 DEF TypeOK
<1>10. TypeOK'
  <2>1. publications' \in [Curricula -> SUBSET Publication]
    BY <1>1, <1>4, <1>8 DEF TypeOK
  <2> QED  BY <1>1, <1>2, <2>1, ReleaseAllFrees DEF TypeOK, Labels, Ended
<1>11. StoredFacts'
  <2>1. \A p \in T : p.bank <= bank /\ p.tree <= tree[c] /\ p.tree <= p.bank
                       /\ pc'[p.id] = "published"
    <3>1. new.bank <= bank /\ new.tree <= tree[c] /\ new.tree <= new.bank
      BY <1>1, <1>2, <1>3, <1>6 DEF RequestFacts, ReadFacts, ClosedFacts
    <3>2. ASSUME NEW p \in Retained(S)
          PROVE  p.bank <= bank /\ p.tree <= tree[c] /\ p.tree <= p.bank
                   /\ pc'[p.id] = "published"
      <4>1. PICK x \in S : p = (IF S # {} /\ x = Latest(S) THEN x ELSE Slimmed(x))
        BY DEF Retained
      <4>2. p.bank = x.bank /\ p.tree = x.tree /\ p.id = x.id /\ x.id \in Requests
        BY <1>3, <4>1, SlimmedKeeps DEF Publication
      <4> QED  BY <1>1, <1>3, <1>9, <4>2 DEF StoredFacts
    <3> QED  BY <1>6, <1>9, <3>1, <3>2
  <2>2. ASSUME NEW d \in Curricula, d # c, NEW p \in publications[d]
        PROVE  pc'[p.id] = "published"
    BY <1>1, <1>9, <2>2 DEF StoredFacts, TypeOK, Publication
  <2>3. ASSUME NEW d \in Curricula, d # c
        PROVE  /\ Ordered(publications'[d])
               /\ \A p \in publications'[d] :
                     /\ p.bank <= bank /\ p.tree <= tree[d] /\ p.tree <= p.bank
                     /\ pc'[p.id] = "published"
    BY <1>1, <1>9, <2>2, <2>3 DEF StoredFacts
  <2> QED  BY <1>2, <1>8, <1>9, <2>1, <2>3 DEF StoredFacts
<1>12. ASSUME NEW q \in Requests, q # r PROVE RequestFacts(q)'
  <2>1. \A d \in Curricula : RowsKept(r, d)
    BY <1>3, <1>6, <1>8, <1>9 DEF RowsKept
  <2> QED  BY <1>1, <1>2, <1>9, <1>12, <2>1, ReleaseAllFrees, OthersKeep
<1>13. RequestFacts(r)'
  <2>1. ReadFacts(r)' /\ LockFacts(r)' /\ ClosedFacts(r)' /\ PendingFacts(r)'
    BY <1>1, <1>2, <1>9
    DEF RequestFacts, ReadFacts, LockFacts, ClosedFacts, PendingFacts
  <2>2. FreshFacts(r)'
    BY <1>1, <1>2, <1>9 DEF RequestFacts, FreshFacts, TypeOK
  <2> QED  BY <2>1, <2>2 DEF RequestFacts
<1> QED  BY <1>10, <1>11, <1>12, <1>13 DEF IInv

\* The commit of a withdrawal, by a retire or by a delete, keeps the invariant.
LEMMA WithdrawKeeps ==
    ASSUME IInv, NEW r \in Requests, r \in Retirers \cup Deleters, pc[r] = "commit",
           NEW l \in {"answer", "deleted"},
           UNCHANGED <<bank, tree, target, noted, got, wanted, base, pending>>,
           deleted' \in SUBSET Curricula,
           publications' = [publications EXCEPT ![target[r]] = Withdrawn(@)],
           ReleaseAll(r), Goto(r, l)
    PROVE  IInv'
<1> DEFINE c == target[r]
<1> DEFINE S == publications[c]
<1>1. TypeOK /\ StoredFacts /\ RequestFacts(r)
  BY DEF IInv
<1>2. r \notin Initials /\ r \notin Publishers
  BY RequestsAssumption
<1>3. c \in Curricula /\ lock[c] = r /\ S \in SUBSET Publication /\ Ordered(S)
  <2>1. c \in Curricula  BY <1>1, <1>2 DEF TypeOK
  <2> QED  BY <1>1, <1>2, <2>1 DEF TypeOK, RequestFacts, LockFacts, StoredFacts
<1>4. /\ Withdrawn(S) \in SUBSET Publication /\ Ordered(Withdrawn(S))
      /\ Withdrawn(S) = {} <=> S = {}
      /\ S # {} => /\ Latest(Withdrawn(S)).id = Latest(S).id
                   /\ Latest(Withdrawn(S)).bank = Latest(S).bank
                   /\ Latest(Withdrawn(S)).tree = Latest(S).tree
  BY <1>3, WithdrawnKeeps
<1>5. /\ pc'[r] = l /\ \A q \in Requests \ {r} : pc'[q] = pc[q]
      /\ publications'[c] = Withdrawn(S)
      /\ \A d \in Curricula : d # c => publications'[d] = publications[d]
  BY <1>1, <1>3 DEF TypeOK, Goto
<1>6. TypeOK'
  <2>1. publications' \in [Curricula -> SUBSET Publication]
    BY <1>1, <1>4 DEF TypeOK
  <2>2. pc' \in [Requests -> Labels]
    BY <1>1 DEF TypeOK, Goto, Labels, Ended
  <2> QED  BY <1>1, <2>1, <2>2, ReleaseAllFrees DEF TypeOK
<1>7. StoredFacts'
  <2>1. \A d \in Curricula : \A p \in publications[d] : pc'[p.id] = "published"
    BY <1>1, <1>5 DEF StoredFacts, TypeOK, Publication
  <2>2. ASSUME NEW p \in Withdrawn(S)
        PROVE  p.bank <= bank /\ p.tree <= tree[c] /\ p.tree <= p.bank
                 /\ pc'[p.id] = "published"
    <3>1. PICK x \in S : p = [x EXCEPT !.status = "withdrawn"]
      BY DEF Withdrawn
    <3>2. p.bank = x.bank /\ p.tree = x.tree /\ p.id = x.id
      BY <1>3, <3>1 DEF Publication
    <3> QED  BY <1>1, <1>3, <2>1, <3>2 DEF StoredFacts
  <2>3. ASSUME NEW d \in Curricula, d # c
        PROVE  /\ Ordered(publications'[d])
               /\ \A p \in publications'[d] :
                     /\ p.bank <= bank /\ p.tree <= tree[d] /\ p.tree <= p.bank
                     /\ pc'[p.id] = "published"
    BY <1>1, <1>5, <2>1, <2>3 DEF StoredFacts
  <2> QED  BY <1>4, <1>5, <2>2, <2>3 DEF StoredFacts
<1>8. ASSUME NEW q \in Requests, q # r PROVE RequestFacts(q)'
  <2>1. S = {} => publications'[c] = S
    BY <1>4, <1>5
  <2>2. \A d \in Curricula : RowsKept(r, d)
    BY <1>3, <1>4, <1>5, <2>1 DEF RowsKept
  <2> QED  BY <1>1, <1>5, <1>8, <2>2, ReleaseAllFrees, OthersKeep
<1>9. RequestFacts(r)'
  <2>1. ReadFacts(r)' /\ LockFacts(r)' /\ ClosedFacts(r)' /\ PendingFacts(r)'
    BY <1>1, <1>2, <1>5
    DEF RequestFacts, ReadFacts, LockFacts, ClosedFacts, PendingFacts
  <2>2. FreshFacts(r)'
    BY <1>1, <1>2, <1>5 DEF RequestFacts, FreshFacts, TypeOK
  <2> QED  BY <2>1, <2>2 DEF RequestFacts
<1> QED  BY <1>6, <1>7, <1>8, <1>9 DEF IInv

\* A retire keeps the invariant.
LEMMA CommitRetireKeeps ==
    ASSUME IInv, NEW r \in Requests, CommitRetire(r) PROVE IInv'
<1>1. deleted' \in SUBSET Curricula  BY DEF IInv, TypeOK, CommitRetire
<1> QED  BY <1>1, WithdrawKeeps DEF CommitRetire, content

\* A delete keeps the invariant.
LEMMA CommitDeleteKeeps ==
    ASSUME IInv, NEW r \in Requests, CommitDelete(r) PROVE IInv'
<1>1. target[r] \in Curricula
  BY RequestsAssumption DEF IInv, TypeOK, CommitDelete
<1>2. deleted' \in SUBSET Curricula  BY <1>1 DEF IInv, TypeOK, CommitDelete
<1> QED  BY <1>2, WithdrawKeeps DEF CommitDelete, content

\* Once the locks are held, what is wanted has no publication.
LEMMA CheckInitialKeeps ==
    ASSUME IInv, NEW r \in Requests, CheckInitial(r) PROVE IInv'
<1>1. TypeOK /\ StoredFacts /\ RequestFacts(r)
  BY DEF IInv
<1>2. /\ UNCHANGED <<bank, tree, deleted, publications, lock, target, noted, got, pending>>
      /\ r \in Initials /\ r \notin Publishers /\ pc[r] = "commit"
      /\ pc' = [pc EXCEPT ![r] = "write"]
      /\ wanted' = [wanted EXCEPT ![r] = Unpublished(wanted[r])]
  BY RequestsAssumption DEF CheckInitial, content, store, Goto
<1>3. PICK now \in 0 .. MaxClock : base' = [base EXCEPT ![r] = now]
  BY DEF CheckInitial
<1>4. /\ pc'[r] = "write" /\ wanted'[r] = Unpublished(wanted[r])
      /\ Unpublished(wanted[r]) \subseteq wanted[r]
      /\ \A q \in Requests \ {r} : pc'[q] = pc[q] /\ wanted'[q] = wanted[q]
  BY <1>1, <1>2 DEF TypeOK, Unpublished
<1>5. TypeOK'
  BY <1>1, <1>2, <1>3, <1>4, BoundsAssumption DEF TypeOK, Labels
<1>6. StoredFacts'
  BY <1>1, <1>2, <1>4, StoredKeeps
<1>7. ASSUME NEW q \in Requests, q # r PROVE RequestFacts(q)'
  BY <1>2, <1>4, <1>7, OthersKeep DEF RowsKept
<1>8. RequestFacts(r)'
  <2>1. ReadFacts(r)' /\ LockFacts(r)' /\ ClosedFacts(r)'
    BY <1>1, <1>2, <1>4 DEF RequestFacts, ReadFacts, LockFacts, ClosedFacts
  <2>2. PendingFacts(r)'
    BY <1>1, <1>2, <1>4 DEF RequestFacts, PendingFacts, Unpublished
  <2>3. FreshFacts(r)'
    BY <1>1, <1>2, <1>4 DEF RequestFacts, FreshFacts, TypeOK
  <2> QED  BY <2>1, <2>2, <2>3 DEF RequestFacts
<1> QED  BY <1>5, <1>6, <1>7, <1>8 DEF IInv

\* A row is written for a wanted curriculum that has none yet.
LEMMA WriteInitialKeeps ==
    ASSUME IInv, NEW r \in Requests, WriteInitial(r) PROVE IInv'
<1>1. TypeOK /\ StoredFacts /\ RequestFacts(r)
  BY DEF IInv
<1>2. /\ UNCHANGED <<bank, tree, deleted, publications, lock, pc, target, noted, got,
                     wanted, base>>
      /\ r \in Initials /\ r \notin Publishers /\ pc[r] = "write"
  BY RequestsAssumption DEF WriteInitial, content, store
<1>3. PICK c \in wanted[r] \ Written(r) :
         pending' = [pending EXCEPT ![r][c] =
             {NewPublication(r, c, base[r] + Cardinality(Written(r)))}]
  BY DEF WriteInitial
<1>4. c \in Curricula  BY <1>1, <1>3 DEF TypeOK
<1> DEFINE new == NewPublication(r, c, base[r] + Cardinality(Written(r)))
<1>5. base[r] + Cardinality(Written(r)) \in Nat
  <2>1. IsFiniteSet(Written(r))
    BY CurriculaAssumption, FS_Subset DEF Written
  <2>2. Cardinality(Written(r)) \in Nat  BY <2>1, FS_CardinalityType
  <2> QED  BY <1>1, <2>2 DEF TypeOK
<1>6. /\ new \in Publication /\ new.id = r
      /\ new.bank = got[r].bank /\ new.tree = got[r].tree[c]
      /\ new.payload /\ new.hashes
  BY <1>1, <1>4, <1>5, GotTypes DEF NewPublication, Publication
<1>7. /\ pending' \in [Requests -> [Curricula -> SUBSET Publication]]
      /\ \A q \in Requests \ {r} : pending'[q] = pending[q]
      /\ pending'[r][c] = {new}
      /\ \A d \in Curricula : d # c => pending'[r][d] = pending[r][d]
  <2> HIDE DEF new
  <2> QED  BY <1>1, <1>3, <1>4, <1>6 DEF TypeOK, new
<1>8. TypeOK'
  BY <1>1, <1>2, <1>7 DEF TypeOK
<1>9. StoredFacts'
  BY <1>1, <1>2, StoredKeeps
<1>10. ASSUME NEW q \in Requests, q # r PROVE RequestFacts(q)'
  BY <1>2, <1>7, <1>10, OthersKeep DEF RowsKept
<1>11. RequestFacts(r)'
  <2>1. ReadFacts(r)' /\ LockFacts(r)' /\ ClosedFacts(r)' /\ FreshFacts(r)'
    BY <1>1, <1>2 DEF RequestFacts, ReadFacts, LockFacts, ClosedFacts, FreshFacts
  <2>2. PendingFacts(r)'
    BY <1>1, <1>2, <1>3, <1>6, <1>7 DEF RequestFacts, PendingFacts
  <2> QED  BY <2>1, <2>2 DEF RequestFacts
<1> QED  BY <1>8, <1>9, <1>10, <1>11 DEF IInv

\* The commit puts each written row where there was none.
LEMMA CommitInitialKeeps ==
    ASSUME IInv, NEW r \in Requests, CommitInitial(r) PROVE IInv'
<1>1. TypeOK /\ StoredFacts /\ RequestFacts(r)
  BY DEF IInv
<1>2. /\ UNCHANGED <<bank, tree, deleted, target, noted, got, wanted, base>>
      /\ r \in Initials /\ r \notin Publishers /\ pc[r] = "write"
      /\ publications' = [c \in Curricula |-> publications[c] \cup pending[r][c]]
      /\ pending' = [pending EXCEPT ![r] = [c \in Curricula |-> {}]]
      /\ ReleaseAll(r)
      /\ pc' = [pc EXCEPT ![r] = IF Written(r) = {} THEN "nothing" ELSE "published"]
  BY RequestsAssumption DEF CommitInitial, content, Goto
<1>3. /\ pc'[r] = (IF Written(r) = {} THEN "nothing" ELSE "published")
      /\ \A q \in Requests \ {r} : pc'[q] = pc[q] /\ pending'[q] = pending[q]
      /\ \A c \in Curricula : pending'[r][c] = {}
  BY <1>1, <1>2 DEF TypeOK
<1>4. TypeOK'
  BY <1>1, <1>2, ReleaseAllFrees DEF TypeOK, Labels, Ended
<1>5. ASSUME NEW c \in Curricula
      PROVE  \/ publications'[c] = publications[c]
             \/ \E p \in Publication :
                   /\ publications'[c] = {p} /\ lock[c] = r
                   /\ p.id = r /\ p.bank = got[r].bank /\ p.tree = got[r].tree[c]
                   /\ pc'[r] = "published" /\ p.tree <= p.bank
  <2>1. CASE pending[r][c] = {}
    BY <1>2, <2>1
  <2>2. CASE pending[r][c] # {}
    <3>1. PICK p : p \in pending[r][c]
      BY <2>2
    <3>2. /\ pending[r][c] = {p} /\ c \in wanted[r] /\ publications[c] = {}
          /\ p.id = r /\ p.bank = got[r].bank /\ p.tree = got[r].tree[c]
      BY <1>1, <1>2, <3>1 DEF RequestFacts, PendingFacts
    <3>3. publications'[c] = {p} /\ p \in Publication
      BY <1>1, <1>2, <3>1, <3>2 DEF TypeOK
    <3>4. pc'[r] = "published"
      BY <1>3, <2>2 DEF Written
    <3>5. lock[c] = r /\ p.tree <= p.bank
      BY <1>1, <1>2, <3>2 DEF RequestFacts, LockFacts, ClosedFacts
    <3> QED  BY <3>2, <3>3, <3>4, <3>5
  <2> QED  BY <2>1, <2>2
<1>6. StoredFacts'
  <2>1. ASSUME NEW c \in Curricula
        PROVE  /\ Ordered(publications'[c])
               /\ \A p \in publications'[c] :
                     /\ p.bank <= bank /\ p.tree <= tree[c] /\ p.tree <= p.bank
                     /\ pc'[p.id] = "published"
    <3>1. CASE publications'[c] = publications[c]
      <4>1. \A p \in publications[c] : pc'[p.id] = "published"
        BY <1>1, <1>2, <1>3 DEF StoredFacts, TypeOK, Publication
      <4> QED  BY <1>1, <3>1, <4>1 DEF StoredFacts
    <3>2. ASSUME NEW p \in Publication,
                 publications'[c] = {p}, p.id = r, p.bank = got[r].bank,
                 p.tree = got[r].tree[c], pc'[r] = "published", p.tree <= p.bank
          PROVE  /\ Ordered({p})
                 /\ p.bank <= bank /\ p.tree <= tree[c] /\ pc'[p.id] = "published"
      <4>1. Ordered({p})
        BY DEF Ordered, HasNewest, InOrder, Publication
      <4> QED  BY <1>1, <3>2, <4>1 DEF RequestFacts, ReadFacts
    <3> QED  BY <1>5, <3>1, <3>2
  <2> QED  BY <1>2, <2>1 DEF StoredFacts
<1>7. ASSUME NEW q \in Requests, q # r PROVE RequestFacts(q)'
  <2>1. ASSUME NEW c \in Curricula PROVE RowsKept(r, c)
    <3>1. ASSUME NEW p \in Publication, publications'[c] = {p} PROVE Latest({p}) = p
      BY DEF Latest, Publication
    <3> QED  BY <1>5, <3>1 DEF RowsKept
  <2>2. \A u \in Requests \ {r} :
           /\ pc'[u] = pc[u] /\ noted'[u] = noted[u] /\ got'[u] = got[u]
           /\ wanted'[u] = wanted[u] /\ pending'[u] = pending[u]
    BY <1>2, <1>3
  <2>3. \A c \in Curricula : lock[c] \notin {None, r} => lock'[c] = lock[c]
    BY <1>1, <1>2, ReleaseAllFrees
  <2> QED  BY <1>2, <1>7, <2>1, <2>2, <2>3, OthersKeep
<1>8. RequestFacts(r)'
  <2>1. ReadFacts(r)' /\ LockFacts(r)' /\ ClosedFacts(r)' /\ PendingFacts(r)'
    BY <1>1, <1>2, <1>3
    DEF RequestFacts, ReadFacts, LockFacts, ClosedFacts, PendingFacts
  <2>2. FreshFacts(r)'
    BY <1>1, <1>2, <1>3 DEF RequestFacts, FreshFacts, TypeOK
  <2> QED  BY <2>1, <2>2 DEF RequestFacts
<1> QED  BY <1>4, <1>6, <1>7, <1>8 DEF IInv

\* A failure gives back the locks and drops what was not committed.
LEMMA FailKeeps ==
    ASSUME IInv, NEW r \in Requests, Fail(r) PROVE IInv'
<1>1. TypeOK /\ StoredFacts /\ RequestFacts(r)
  BY DEF IInv
<1>2. /\ UNCHANGED <<bank, tree, deleted, publications, target, noted, got, wanted, base>>
      /\ pc[r] # "published" /\ ReleaseAll(r)
      /\ pc' = [pc EXCEPT ![r] = "failed"]
      /\ pending' = [pending EXCEPT ![r] = [c \in Curricula |-> {}]]
  BY DEF Fail, content, store, Goto, Ended
<1>3. /\ pc'[r] = "failed"
      /\ \A q \in Requests \ {r} : pc'[q] = pc[q] /\ pending'[q] = pending[q]
      /\ \A c \in Curricula : pending'[r][c] = {}
  BY <1>1, <1>2 DEF TypeOK
<1>4. TypeOK'
  BY <1>1, <1>2, ReleaseAllFrees DEF TypeOK, Labels, Ended
<1>5. StoredFacts'
  BY <1>1, <1>2, <1>3, StoredKeeps
<1>6. ASSUME NEW q \in Requests, q # r PROVE RequestFacts(q)'
  BY <1>1, <1>2, <1>3, <1>6, ReleaseAllFrees, OthersKeep DEF RowsKept
<1>7. RequestFacts(r)'
  <2>1. ReadFacts(r)' /\ LockFacts(r)' /\ ClosedFacts(r)' /\ PendingFacts(r)'
    BY <1>1, <1>2, <1>3
    DEF RequestFacts, ReadFacts, LockFacts, ClosedFacts, PendingFacts
  <2>2. FreshFacts(r)'
    BY <1>1, <1>2, <1>3 DEF RequestFacts, FreshFacts, TypeOK
  <2> QED  BY <2>1, <2>2 DEF RequestFacts
<1> QED  BY <1>4, <1>5, <1>6, <1>7 DEF IInv

\* Every step keeps the invariant.
LEMMA NextKeeps == IInv /\ [Next]_vars => IInv'
<1> SUFFICES ASSUME IInv, [Next]_vars PROVE IInv'  OBVIOUS
<1>1. CASE EditBank  BY <1>1, EditBankKeeps
<1>2. ASSUME NEW c \in Curricula, EditTree(c) PROVE IInv'
  BY <1>2, EditTreeKeeps
<1>3. ASSUME NEW r \in Requests, Step(r) PROVE IInv'
  <2>1. CASE ReadBank(r) \/ ReadTree(r)
    BY <2>1, ReadBankKeeps, ReadTreeKeeps
  <2>2. CASE \/ BeginPublish(r) \/ BuildPayload(r) \/ LockToPublish(r)
             \/ RefusePublish(r) \/ CommitPublish(r)
    BY <2>2, BeginPublishKeeps, BuildPayloadKeeps, LockToPublishKeeps,
       RefusePublishKeeps, CommitPublishKeeps
  <2>3. CASE \/ BeginRetire(r) \/ LockToWithdraw(r) \/ CommitRetire(r)
             \/ AnswerRetire(r) \/ BeginDelete(r) \/ CommitDelete(r)
    BY <2>3, BeginRetireKeeps, LockToWithdrawKeeps, CommitRetireKeeps,
       AnswerRetireKeeps, BeginDeleteKeeps, CommitDeleteKeeps
  <2>4. CASE \/ BeginInitial(r) \/ PlanInitial(r) \/ LockToInitial(r)
             \/ CheckInitial(r) \/ WriteInitial(r) \/ CommitInitial(r)
    BY <2>4, BeginInitialKeeps, PlanInitialKeeps, LockToInitialKeeps,
       CheckInitialKeeps, WriteInitialKeeps, CommitInitialKeeps
  <2> QED  BY <1>3, <2>1, <2>2, <2>3, <2>4 DEF Step
<1>4. ASSUME NEW r \in Requests, Fail(r) PROVE IInv'
  BY <1>4, FailKeeps
<1>5. CASE UNCHANGED vars
  <2>1. TypeOK'  BY <1>5 DEF vars, IInv, TypeOK
  <2>2. StoredFacts'  BY <1>5 DEF vars, IInv, StoredFacts
  <2>3. ASSUME NEW r \in Requests PROVE RequestFacts(r)'
    <3>1. RequestFacts(r)  BY DEF IInv
    <3>2. ReadFacts(r)' /\ LockFacts(r)' /\ ClosedFacts(r)'
      BY <1>5, <3>1 DEF vars, RequestFacts, ReadFacts, LockFacts, ClosedFacts
    <3>3. FreshFacts(r)'  BY <1>5, <3>1 DEF vars, RequestFacts, FreshFacts
    <3>4. PendingFacts(r)'  BY <1>5, <3>1 DEF vars, RequestFacts, PendingFacts
    <3> QED  BY <3>2, <3>3, <3>4 DEF RequestFacts
  <2> QED  BY <2>1, <2>2, <2>3 DEF IInv
<1> QED  BY <1>1, <1>2, <1>3, <1>4, <1>5 DEF Next

(***************************************************************************)
(* Theorems                                                                *)
(***************************************************************************)

\* The inductive invariant holds of every behaviour.
THEOREM Invariance == Spec => []IInv
BY InitIInv, NextKeeps, PTL DEF Spec

\* Every variable keeps its type, for any requests, curricula and bounds.
THEOREM TypeCorrect == Spec => []TypeOK
<1>1. IInv => TypeOK  BY DEF IInv
<1> QED  BY <1>1, Invariance, PTL

\* However the reads of publishes, initial runs and edits interleave, the
\* newest publication of a curriculum is never an older read than another
\* (publishCurriculum's comparison of the noted id under the lock).
THEOREM NewestIsNewest == Spec => []NewestReadIsNewest
<1>1. IInv => NewestReadIsNewest
  BY DEF IInv, StoredFacts, Ordered, InOrder, NewestReadIsNewest
<1> QED  BY <1>1, Invariance, PTL

\* Whatever the clock reads, no two publications of a curriculum share a
\* publishedat (nextTime, under the lock of the curriculum's row).
THEOREM NeverATie == Spec => []LatestIsNeverATie
<1>1. IInv => LatestIsNeverATie
  BY DEF IInv, StoredFacts, Ordered, InOrder, LatestIsNeverATie
<1> QED  BY <1>1, Invariance, PTL

\* Every stored publication is closed, though its tables were read at
\* different moments (confineCurriculumTables before every insert).
THEOREM EveryPublicationIsClosed == Spec => []StoredIsClosed
<1>1. IInv => StoredIsClosed
  BY DEF IInv, StoredFacts, StoredIsClosed
<1> QED  BY <1>1, Invariance, PTL

(***************************************************************************)
(* What a step may do to the rows of a curriculum, and what follows        *)
(***************************************************************************)

\* The four things that happen to the rows of a curriculum.
RowsStep(c) ==
    \/ publications'[c] = publications[c]
    \/ publications'[c] = Withdrawn(publications[c])
    \/ \E new \in Publication :
          /\ new.status = "published" /\ new.payload /\ new.hashes
          /\ \A q \in publications[c] : q.at < new.at /\ q.id # new.id
          /\ publications'[c] = Retained(publications[c]) \cup {new}
    \/ \E p \in Publication :
          /\ p.payload /\ p.hashes
          /\ publications[c] = {} /\ publications'[c] = {p}

\* Every step does one of the four to each curriculum.
LEMMA NextRows ==
    ASSUME IInv, [Next]_vars, NEW c \in Curricula
    PROVE  RowsStep(c)
<1>1. TypeOK /\ StoredFacts  BY DEF IInv
<1>2. CASE UNCHANGED publications
  BY <1>2 DEF RowsStep
<1>3. ASSUME NEW r \in Requests, CommitPublish(r) PROVE RowsStep(c)
  <2>1. target[r] \in Curricula  BY <1>1, <1>3, RequestsAssumption DEF TypeOK, CommitPublish
  <2>2. CASE c # target[r]
    BY <1>1, <1>3, <2>1, <2>2 DEF TypeOK, CommitPublish, RowsStep
  <2>3. CASE c = target[r]
    <3> DEFINE S == publications[c]
    <3>1. PICK now \in 0 .. MaxClock :
             publications' = [publications EXCEPT ![c] =
                 Retained(S) \cup {NewPublication(r, c, NextTime(S, now))}]
      BY <1>3, <2>3 DEF CommitPublish
    <3>2. S \in SUBSET Publication /\ HasNewest(S)
      BY <1>1 DEF TypeOK, StoredFacts, Ordered
    <3>3. NextTime(S, now) \in Nat /\ \A q \in S : q.at < NextTime(S, now)
      BY <3>2, NextTimeIsLater
    <3> DEFINE new == NewPublication(r, c, NextTime(S, now))
    <3>4. /\ new \in Publication /\ new.status = "published" /\ new.payload /\ new.hashes
          /\ new.at = NextTime(S, now) /\ new.id = r
      BY <1>1, <3>3, GotTypes DEF NewPublication, Publication
    <3>5. publications'[c] = Retained(S) \cup {new}
      BY <1>1, <3>1 DEF TypeOK
    <3>6. \A q \in S : q.at < new.at /\ q.id # new.id
      <4>1. \A q \in S : pc[q.id] = "published"
        BY <1>1 DEF StoredFacts
      <4> QED BY <1>3, <3>3, <3>4, <4>1 DEF CommitPublish
    <3> HIDE DEF new
    <3> QED  BY <3>4, <3>5, <3>6 DEF RowsStep
  <2> QED  BY <2>2, <2>3
<1>4. ASSUME NEW r \in Requests, CommitRetire(r) \/ CommitDelete(r) PROVE RowsStep(c)
  BY <1>1, <1>4, RequestsAssumption DEF TypeOK, CommitRetire, CommitDelete, RowsStep
<1>5. ASSUME NEW r \in Requests, CommitInitial(r) PROVE RowsStep(c)
  <2>1. publications'[c] = publications[c] \cup pending[r][c]
    BY <1>5 DEF CommitInitial
  <2>2. CASE pending[r][c] = {}
    BY <2>1, <2>2 DEF RowsStep
  <2>3. CASE pending[r][c] # {}
    <3>1. PICK p : p \in pending[r][c]
      BY <2>3
    <3>2. /\ pending[r][c] = {p} /\ publications[c] = {} /\ p \in Publication
          /\ p.payload /\ p.hashes
      BY <1>1, <3>1 DEF IInv, RequestFacts, PendingFacts, TypeOK
    <3> QED  BY <2>1, <3>2 DEF RowsStep
  <2> QED  BY <2>2, <2>3
<1>6. \/ UNCHANGED publications
      \/ \E r \in Requests : \/ CommitPublish(r) \/ CommitRetire(r)
                             \/ CommitDelete(r) \/ CommitInitial(r)
  <2>1. CASE UNCHANGED vars  BY <2>1 DEF vars
  <2>2. CASE EditBank \/ \E d \in Curricula : EditTree(d)
    BY <2>2 DEF EditBank, EditTree, store
  <2>3. ASSUME NEW r \in Requests, Fail(r) PROVE UNCHANGED publications
    BY <2>3 DEF Fail, store
  <2>4. ASSUME NEW r \in Requests, Step(r)
        PROVE  \/ UNCHANGED publications
               \/ CommitPublish(r) \/ CommitRetire(r) \/ CommitDelete(r) \/ CommitInitial(r)
    BY <2>4
    DEF Step, store, ReadBank, ReadTree, BeginPublish, BuildPayload, LockToPublish,
        RefusePublish, BeginRetire, LockToWithdraw, AnswerRetire, BeginDelete,
        BeginInitial, PlanInitial, LockToInitial, CheckInitial, WriteInitial
  <2> QED  BY <2>1, <2>2, <2>3, <2>4 DEF Next
<1> QED  BY <1>2, <1>3, <1>4, <1>5, <1>6

\* No step removes a row, changes what it carried, publishes it again or gives
\* back its payload.
LEMMA NextKeepsHistory ==
    ASSUME IInv, [Next]_vars
    PROVE  KeepsHistory
<1> SUFFICES ASSUME NEW c \in Curricula, NEW p \in publications[c]
             PROVE  \E q \in publications'[c] :
                      /\ q.id = p.id /\ q.at = p.at /\ q.bank = p.bank /\ q.tree = p.tree
                      /\ q.status \in {p.status, "withdrawn"}
                      /\ q.payload => p.payload
  BY DEF KeepsHistory
<1>1. RowsStep(c)  BY NextRows
<1>2. p \in Publication  BY DEF IInv, TypeOK
<1>3. CASE publications'[c] = publications[c]
  BY <1>3
<1>4. CASE publications'[c] = Withdrawn(publications[c])
  <2> DEFINE q == [p EXCEPT !.status = "withdrawn"]
  <2>1. q \in publications'[c]  BY <1>4 DEF Withdrawn
  <2>2. /\ q.id = p.id /\ q.at = p.at /\ q.bank = p.bank /\ q.tree = p.tree
        /\ q.status = "withdrawn" /\ q.payload = p.payload
    BY <1>2 DEF Publication
  <2> HIDE DEF q
  <2> QED  BY <2>1, <2>2
<1>5. ASSUME NEW new, publications'[c] = Retained(publications[c]) \cup {new}
      PROVE  \E q \in publications'[c] :
               /\ q.id = p.id /\ q.at = p.at /\ q.bank = p.bank /\ q.tree = p.tree
               /\ q.status \in {p.status, "withdrawn"}
               /\ q.payload => p.payload
  <2>1. p \in publications'[c] \/ Slimmed(p) \in publications'[c]
    BY <1>5 DEF Retained
  <2> QED  BY <1>2, <2>1, SlimmedKeeps
<1> QED  BY <1>1, <1>3, <1>4, <1>5 DEF RowsStep

\* A publication is history, for any requests, curricula and bounds.
THEOREM History == Spec => HistoryIsKept
<1>1. IInv /\ [Next]_vars => [KeepsHistory]_vars
  BY NextKeepsHistory
<1> QED  BY <1>1, Invariance, PTL DEF Spec, HistoryIsKept

\* A row that is no later than a withdrawn one is withdrawn.
WithdrawnFirst(S) ==
    \A p, q \in S : q.status = "withdrawn" /\ p.at <= q.at => p.status = "withdrawn"

\* Each of the four keeps the withdrawn rows the oldest.
LEMMA RowsKeepWithdrawnFirst ==
    ASSUME IInv, NEW c \in Curricula, RowsStep(c), WithdrawnFirst(publications[c])
    PROVE  WithdrawnFirst(publications'[c])
<1> DEFINE S == publications[c]
<1>1. S \in SUBSET Publication  BY DEF IInv, TypeOK
<1>2. CASE publications'[c] = S
  BY <1>2
<1>3. CASE publications'[c] = Withdrawn(S)
  <2>1. \A p \in Withdrawn(S) : p.status = "withdrawn"
    BY <1>1 DEF Withdrawn, Publication
  <2> QED  BY <1>3, <2>1 DEF WithdrawnFirst
<1>4. ASSUME NEW new \in Publication, new.status = "published",
             \A q \in S : q.at < new.at, publications'[c] = Retained(S) \cup {new}
      PROVE  WithdrawnFirst(publications'[c])
  <2>1. ASSUME NEW t \in Retained(S)
        PROVE  \E x \in S : t.at = x.at /\ t.status = x.status
    <3>1. PICK x \in S : t = (IF S # {} /\ x = Latest(S) THEN x ELSE Slimmed(x))
      BY DEF Retained
    <3> QED  BY <1>1, <3>1, SlimmedKeeps
  <2>2. \A x \in S : x.at \in Nat /\ new.at \in Nat
    BY <1>1 DEF Publication
  <2>3. ASSUME NEW p \in publications'[c], NEW q \in publications'[c],
               q.status = "withdrawn", p.at <= q.at
        PROVE  p.status = "withdrawn"
    <3>1. q # new  BY <1>4, <2>3
    <3>2. q \in Retained(S)  BY <1>4, <3>1
    <3>3. PICK y \in S : q.at = y.at /\ q.status = y.status  BY <2>1, <3>2
    <3>4. p # new  BY <1>4, <2>2, <2>3, <3>3
    <3>5. PICK x \in S : p.at = x.at /\ p.status = x.status  BY <1>4, <2>1, <3>4
    <3> QED  BY <2>3, <3>3, <3>5 DEF WithdrawnFirst
  <2> QED  BY <2>3 DEF WithdrawnFirst
<1>5. ASSUME NEW p, publications'[c] = {p} PROVE WithdrawnFirst(publications'[c])
  BY <1>5 DEF WithdrawnFirst
<1> QED  BY <1>2, <1>3, <1>4, <1>5 DEF RowsStep

\* The withdrawn rows of a curriculum are its oldest: a retire or a delete
\* withdraws them all (withdrawPublications), and only a publish adds a row.
THEOREM WithdrawnAreTogether == Spec => []WithdrawnTogether
<1> DEFINE WInv == \A c \in Curricula : WithdrawnFirst(publications[c])
<1>1. Init => WInv  BY DEF Init, WithdrawnFirst
<1>2. IInv /\ WInv /\ [Next]_vars => WInv'
  BY NextRows, RowsKeepWithdrawnFirst
<1>3. IInv /\ WInv => WithdrawnTogether
  <2> SUFFICES ASSUME IInv, WInv, NEW c \in Curricula,
                      StateOf(publications[c]) # "published", NEW p \in publications[c]
               PROVE  p.status = "withdrawn"
    BY DEF WithdrawnTogether
  <2> DEFINE last == Latest(publications[c])
  <2>1. last \in publications[c] /\ p.at <= last.at /\ last \in Publication
    BY LatestIsNewest DEF IInv, StoredFacts, Ordered, TypeOK
  <2>2. last.status = "withdrawn"
    BY <2>1 DEF StateOf, Publication
  <2> QED  BY <2>1, <2>2 DEF WithdrawnFirst
<1> QED  BY <1>1, <1>2, <1>3, Invariance, PTL DEF Spec

(***************************************************************************)
(* Retention                                                               *)
(***************************************************************************)

\* Retention by position: a row is whole while at most one row is later.
Whole(S) ==
    \A p \in S :
        /\ p.payload <=> \A q, r \in S : p.at < q.at /\ p.at < r.at => q = r
        /\ p.hashes <=> p.payload

\* A request makes one row of a curriculum.
OneEach(S) == \A p, q \in S : p.id = q.id => p = q

RetentionFacts ==
    \A c \in Curricula :
        IsFiniteSet(publications[c]) /\ Whole(publications[c]) /\ OneEach(publications[c])

\* Withdrawing changes none of it.
LEMMA WithdrawnKeepsWhole ==
    ASSUME NEW S \in SUBSET Publication, Ordered(S), IsFiniteSet(S), Whole(S), OneEach(S)
    PROVE  IsFiniteSet(Withdrawn(S)) /\ Whole(Withdrawn(S)) /\ OneEach(Withdrawn(S))
<1> DEFINE W(p) == [p EXCEPT !.status = "withdrawn"]
           f == [p \in S |-> W(p)]
<1>1. \A p \in S : /\ W(p).at = p.at /\ W(p).id = p.id
                   /\ W(p).payload = p.payload /\ W(p).hashes = p.hashes
  BY DEF Publication
<1>2. Withdrawn(S) = { W(p) : p \in S }
  BY DEF Withdrawn
<1>3. IsFiniteSet(Withdrawn(S))
  <2>1. f \in Surjection(S, Withdrawn(S))
    BY <1>2 DEF Surjection
  <2> QED BY <2>1, FS_Surjection
<1> HIDE DEF W
<1>4. \A p, q \in S : W(p) = W(q) <=> p = q
  <2>1. \A p, q \in S : p.at = q.at => p = q
    BY DEF Ordered, InOrder
  <2> QED BY <1>1, <2>1
<1>5. OneEach(Withdrawn(S))
  BY <1>1, <1>2 DEF OneEach
<1>6. Whole(Withdrawn(S))
  <2> SUFFICES ASSUME NEW p \in S
               PROVE  /\ W(p).payload <=>
                           \A q, r \in S : W(p).at < W(q).at /\ W(p).at < W(r).at => W(q) = W(r)
                      /\ W(p).hashes <=> W(p).payload
    BY <1>2 DEF Whole
  <2> QED BY <1>1, <1>4 DEF Whole
<1> QED BY <1>3, <1>5, <1>6

\* Retention and the insert that follows keep it.
LEMMA RetainedKeepsWhole ==
    ASSUME NEW S \in SUBSET Publication, Ordered(S), IsFiniteSet(S), Whole(S), OneEach(S),
           NEW new \in Publication, new.payload, new.hashes,
           \A q \in S : q.at < new.at /\ q.id # new.id
    PROVE  /\ IsFiniteSet(Retained(S) \cup {new})
           /\ Whole(Retained(S) \cup {new}) /\ OneEach(Retained(S) \cup {new})
<1> DEFINE K(p) == IF S # {} /\ p = Latest(S) THEN p ELSE Slimmed(p)
           f == [p \in S |-> K(p)]
           T == Retained(S) \cup {new}
<1>1. \A p \in S : K(p).at = p.at /\ K(p).id = p.id /\ p.at \in Nat
  BY SlimmedKeeps DEF Publication
<1>2. Retained(S) = { K(p) : p \in S }
  BY DEF Retained
<1>3. IsFiniteSet(T)
  <2>1. f \in Surjection(S, Retained(S))
    BY <1>2 DEF Surjection
  <2> QED BY <2>1, FS_Surjection, FS_AddElement
<1>4. S # {} => Latest(S) \in S /\ \A q \in S : q.at <= Latest(S).at
  BY LatestIsNewest DEF Ordered
<1>5. \A p, q \in S : p.at = q.at => p = q
  BY DEF Ordered, InOrder
<1>6. ASSUME NEW p \in S PROVE K(p).hashes <=> K(p).payload
  <2>1. CASE p = Latest(S)
    BY <2>1 DEF Whole
  <2>2. CASE p # Latest(S)
    BY <2>2 DEF Slimmed, Publication
  <2> QED BY <2>1, <2>2
<1>7. ASSUME NEW p \in S PROVE K(p).payload <=> p = Latest(S)
  <2>1. CASE p = Latest(S)
    <3>1. \A q \in S : ~(p.at < q.at)
      BY <1>1, <1>4, <2>1
    <3> QED BY <2>1, <3>1 DEF Whole
  <2>2. CASE p # Latest(S)
    BY <2>2, SlimmedKeeps
  <2> QED BY <2>1, <2>2
<1> HIDE DEF K
<1>8. OneEach(T)
  BY <1>1, <1>2 DEF OneEach
<1>9. new.at \in Nat
  BY DEF Publication
<1>10. ASSUME NEW p \in S
       PROVE  K(p).payload <=> \A q, r \in T : K(p).at < q.at /\ K(p).at < r.at => q = r
  <2>1. CASE p = Latest(S)
    <3>1. \A q \in S : ~(K(p).at < K(q).at)
      BY <1>1, <1>4, <2>1
    <3>2. \A q \in T : K(p).at < q.at => q = new
      BY <1>2, <3>1
    <3> QED BY <1>7, <2>1, <3>2
  <2>2. CASE p # Latest(S)
    <3>1. p.at < Latest(S).at /\ Latest(S) \in S
      BY <1>1, <1>4, <1>5, <2>2
    <3>2. K(Latest(S)) \in T /\ new \in T /\ K(Latest(S)).at < new.at
      BY <1>1, <1>2, <3>1
    <3>3. K(p).at < K(Latest(S)).at /\ K(p).at < new.at
      BY <1>1, <3>1
    <3>4. K(Latest(S)) # new
      BY <1>9, <3>2
    <3> QED BY <1>7, <2>2, <3>2, <3>3, <3>4
  <2> QED BY <2>1, <2>2
<1>11. \A q \in T : ~(new.at < q.at)
  BY <1>1, <1>2, <1>9
<1>12. Whole(T)
  BY <1>2, <1>6, <1>10, <1>11 DEF Whole
<1> QED BY <1>3, <1>8, <1>12

\* Every step keeps it, whichever of the four it does.
LEMMA NextKeepsRetention ==
    ASSUME IInv, RetentionFacts, [Next]_vars
    PROVE  RetentionFacts'
<1> SUFFICES ASSUME NEW c \in Curricula
             PROVE  /\ IsFiniteSet(publications'[c])
                    /\ Whole(publications'[c]) /\ OneEach(publications'[c])
  BY DEF RetentionFacts
<1> DEFINE S == publications[c]
<1>1. /\ S \in SUBSET Publication /\ Ordered(S)
      /\ IsFiniteSet(S) /\ Whole(S) /\ OneEach(S)
  BY DEF IInv, TypeOK, StoredFacts, RetentionFacts
<1>2. CASE publications'[c] = S
  BY <1>1, <1>2
<1>3. CASE publications'[c] = Withdrawn(S)
  BY <1>1, <1>3, WithdrawnKeepsWhole
<1>4. ASSUME NEW new \in Publication, new.payload, new.hashes,
             \A q \in S : q.at < new.at /\ q.id # new.id,
             publications'[c] = Retained(S) \cup {new}
      PROVE  /\ IsFiniteSet(publications'[c])
             /\ Whole(publications'[c]) /\ OneEach(publications'[c])
  BY <1>1, <1>4, RetainedKeepsWhole
<1>5. ASSUME NEW p \in Publication, p.payload, p.hashes, publications'[c] = {p}
      PROVE  /\ IsFiniteSet(publications'[c])
             /\ Whole(publications'[c]) /\ OneEach(publications'[c])
  BY <1>5, FS_Singleton DEF Whole, OneEach
<1>6. RowsStep(c)
  BY NextRows
<1> QED BY <1>2, <1>3, <1>4, <1>5, <1>6 DEF RowsStep

\* The rows of a curriculum are finitely many, one of each request, and whole
\* while at most one row is later.
THEOREM RetentionInvariance == Spec => []RetentionFacts
<1>1. Init => RetentionFacts
  BY FS_EmptySet DEF Init, RetentionFacts, Whole, OneEach
<1>2. IInv /\ RetentionFacts /\ [Next]_vars => RetentionFacts'
  BY NextKeepsRetention
<1> QED BY <1>1, <1>2, Invariance, PTL DEF Spec

\* A finite set has at most one member when any two of its members are the same.
LEMMA AtMostOne ==
    ASSUME NEW T, IsFiniteSet(T)
    PROVE  Cardinality(T) <= 1 <=> \A q, r \in T : q = r
<1>1. Cardinality(T) \in Nat
  BY FS_CardinalityType
<1>2. Cardinality(T) = 0 <=> T = {}
  BY FS_EmptySet
<1>3. Cardinality(T) = 1 <=> \E x : T = {x}
  BY FS_Singleton
<1>4. ASSUME \A q, r \in T : q = r PROVE T = {} \/ \E x : T = {x}
  <2>1. ASSUME NEW x \in T PROVE T = {x}
    BY <1>4, <2>1
  <2> QED BY <2>1
<1>5. Cardinality(T) <= 1 <=> Cardinality(T) = 0 \/ Cardinality(T) = 1
  BY <1>1
<1>6. ASSUME T = {} \/ \E x : T = {x} PROVE \A q, r \in T : q = r
  BY <1>6
<1> QED BY <1>2, <1>3, <1>4, <1>5, <1>6

\* Exactly the latest two publications keep payload and hashes (the retention
\* of publishCurriculum), however often a curriculum is published.
THEOREM TwoAreWhole == Spec => []LatestTwoAreWhole
<1>1. RetentionFacts => LatestTwoAreWhole
  <2> SUFFICES ASSUME RetentionFacts, NEW c \in Curricula, NEW p \in publications[c]
               PROVE  /\ p.payload <=> Cardinality({ q \in publications[c] : p.at < q.at }) <= 1
                      /\ p.hashes <=> p.payload
    BY DEF LatestTwoAreWhole
  <2> DEFINE later == { q \in publications[c] : p.at < q.at }
  <2>1. IsFiniteSet(later)
    BY FS_Subset DEF RetentionFacts
  <2>2. Cardinality(later) <= 1 <=> \A q, r \in later : q = r
    BY <2>1, AtMostOne
  <2> QED BY <2>2 DEF RetentionFacts, Whole
<1> QED BY <1>1, RetentionInvariance, PTL

(***************************************************************************)
(* The initial run                                                         *)
(***************************************************************************)

\* What a run found live is published, or is still to be published by it.
PlanFacts(r) ==
    r \in Initials =>
        /\ pc[r] \in {"lock", "commit", "write"} =>
              \A c \in got[r].live \ wanted[r] : publications[c] # {}
        /\ pc[r] = "published" => \A c \in got[r].live : publications[c] # {}

\* A curriculum that has a publication has one for ever.
LEMMA StaysPublished ==
    ASSUME IInv, [Next]_vars, NEW c \in Curricula, publications[c] # {}
    PROVE  publications'[c] # {}
BY NextKeepsHistory DEF KeepsHistory

\* A step of another request leaves a run its plan.
LEMMA OthersKeepPlan ==
    ASSUME IInv, [Next]_vars, NEW r \in Requests, PlanFacts(r),
           pc'[r] = pc[r], got'[r] = got[r], wanted'[r] = wanted[r]
    PROVE  PlanFacts(r)'
<1>1. got[r].live \subseteq Curricula
  BY DEF IInv, TypeOK
<1> QED BY <1>1, StaysPublished DEF PlanFacts

\* A run's own step keeps it: what it drops from its plan is published, and at
\* the commit the rest is.
LEMMA OwnStepKeepsPlan ==
    ASSUME IInv, [Next]_vars, NEW r \in Requests, PlanFacts(r), Step(r) \/ Fail(r)
    PROVE  PlanFacts(r)'
<1>1. TypeOK /\ got[r].live \subseteq Curricula /\ wanted[r] \subseteq Curricula
  BY DEF IInv, TypeOK
<1>2. CASE r \notin Initials
  BY <1>2 DEF PlanFacts
<1>3. CASE r \in Initials
  <2>0. r \notin Publishers /\ r \notin Retirers /\ r \notin Deleters
    BY <1>3, RequestsAssumption
  <2>1. CASE \/ ReadBank(r) \/ ReadTree(r) \/ BeginInitial(r) \/ Fail(r)
    BY <1>1, <2>1 DEF ReadBank, ReadTree, BeginInitial, Fail, Goto, PlanFacts, TypeOK
  <2>2. CASE PlanInitial(r)
    <3>1. /\ wanted'[r] = Unpublished(got[r].live) /\ got' = got /\ publications' = publications
          /\ pc'[r] \in {"nothing", "refused", "lock"}
      BY <1>1, <2>2 DEF PlanInitial, Goto, TypeOK, store
    <3> QED BY <3>1 DEF PlanFacts, Unpublished
  <2>3. CASE LockToInitial(r)
    <3>1. /\ wanted' = wanted /\ got' = got /\ publications' = publications /\ pc[r] = "lock"
          /\ pc'[r] \in {"lock", "commit"}
      BY <1>1, <2>3 DEF LockToInitial, Goto, TypeOK, store
    <3> QED BY <3>1 DEF PlanFacts
  <2>4. CASE CheckInitial(r)
    <3>1. /\ wanted'[r] = Unpublished(wanted[r]) /\ got' = got /\ publications' = publications
          /\ pc[r] = "commit" /\ pc'[r] = "write"
      BY <1>1, <2>4 DEF CheckInitial, Goto, TypeOK, store
    <3> QED BY <3>1 DEF PlanFacts, Unpublished
  <2>5. CASE WriteInitial(r)
    BY <2>5, OthersKeepPlan DEF WriteInitial
  <2>6. CASE CommitInitial(r)
    <3>1. /\ got' = got /\ pc[r] = "write" /\ pc'[r] \in {"nothing", "published"}
          /\ wanted[r] \subseteq Written(r)
      BY <1>1, <2>6 DEF CommitInitial, AllWritten, Goto, TypeOK
    <3>2. \A c \in wanted[r] : publications'[c] # {}
      BY <1>1, <2>6, <3>1 DEF CommitInitial, Written
    <3>3. \A c \in got[r].live \ wanted[r] : publications'[c] # {}
      BY <1>1, <1>3, <3>1, StaysPublished DEF PlanFacts
    <3> QED BY <3>1, <3>2, <3>3 DEF PlanFacts
  <2> QED BY <2>0, <2>1, <2>2, <2>3, <2>4, <2>5, <2>6
          DEF Step, BeginPublish, BuildPayload, LockToPublish, RefusePublish, CommitPublish,
              BeginRetire, LockToWithdraw, CommitRetire, AnswerRetire, BeginDelete, CommitDelete
<1> QED BY <1>2, <1>3

\* Every step keeps the plans of all runs.
LEMMA NextKeepsPlans ==
    ASSUME IInv, \A r \in Requests : PlanFacts(r), [Next]_vars, NEW r \in Requests
    PROVE  PlanFacts(r)'
<1>1. CASE UNCHANGED vars \/ EditBank \/ \E c \in Curricula : EditTree(c)
  BY <1>1, OthersKeepPlan DEF vars, EditBank, EditTree
<1>2. ASSUME NEW q \in Requests, q # r, Step(q) \/ Fail(q) PROVE PlanFacts(r)'
  <2>1. pc'[r] = pc[r] /\ got'[r] = got[r] /\ wanted'[r] = wanted[r]
    BY <1>2
    DEF IInv, TypeOK, Step, Fail, Goto, ReadBank, ReadTree, BeginPublish, BuildPayload,
        LockToPublish, RefusePublish, CommitPublish, BeginRetire, LockToWithdraw, CommitRetire,
        AnswerRetire, BeginDelete, CommitDelete, BeginInitial, PlanInitial, LockToInitial,
        CheckInitial, WriteInitial, CommitInitial
  <2> QED BY <2>1, OthersKeepPlan
<1>3. CASE Step(r) \/ Fail(r)
  BY <1>3, OwnStepKeepsPlan
<1> QED BY <1>1, <1>2, <1>3 DEF Next

\* publishInitial is all or nothing: when it has published anything, everything
\* it found live has a publication, whoever made it.
THEOREM InitialRunIsWhole == Spec => []InitialIsAllOrNothing
<1> DEFINE Plans == \A r \in Requests : PlanFacts(r)
<1>1. Init => Plans
  BY DEF Init, PlanFacts
<1>2. IInv /\ Plans /\ [Next]_vars => Plans'
  BY NextKeepsPlans
<1>3. IInv /\ Plans => InitialIsAllOrNothing
  <2> SUFFICES ASSUME IInv, Plans, NEW r \in Initials, NEW c \in Curricula,
                      NEW p \in publications[c], p.id = r
               PROVE  \A d \in got[r].live : publications[d] # {}
    BY DEF InitialIsAllOrNothing
  <2>1. pc[r] = "published" /\ r \in Requests
    BY DEF IInv, StoredFacts, Requests
  <2> QED BY <2>1 DEF PlanFacts
<1> QED BY <1>1, <1>2, <1>3, Invariance, PTL DEF Spec

\* A publish about to commit names a live curriculum, and the rows of a deleted
\* one are all withdrawn.
DeletedFacts ==
    /\ DeletedNotPublished
    /\ \A r \in Publishers : pc[r] = "commit" => target[r] \notin deleted

\* Where no initial run takes part, every step keeps that: the publish looks at
\* `isdeleted` under the lock that the delete needs.
LEMMA NextKeepsDeletedFacts ==
    ASSUME Initials = {}, IInv, DeletedFacts, [Next]_vars
    PROVE  DeletedFacts'
<1>1. TypeOK  BY DEF IInv
<1>2. ASSUME NEW c \in Curricula, publications'[c] = Withdrawn(publications[c])
      PROVE  \A p \in publications'[c] : p.status = "withdrawn"
  BY <1>1, <1>2 DEF Withdrawn, TypeOK, Publication
<1>3. CASE /\ UNCHANGED <<deleted, publications, target>>
           /\ \A r \in Publishers : pc'[r] = "commit" =>
                 pc[r] = "commit" \/ target[r] \notin deleted
  BY <1>3 DEF DeletedFacts, DeletedNotPublished
<1>4. CASE \/ EditBank \/ (\E c \in Curricula : EditTree(c)) \/ UNCHANGED vars
  BY <1>3, <1>4 DEF EditBank, EditTree, store, vars
<1>5. ASSUME NEW r \in Requests, LockToPublish(r) PROVE DeletedFacts'
  <2>1. \A q \in Publishers : pc'[q] = "commit" =>
           pc[q] = "commit" \/ target[q] \notin deleted
    <3>1. \/ pc' = [pc EXCEPT ![r] = "commit"] /\ target[r] \notin deleted
          \/ pc' = [pc EXCEPT ![r] = "notfound"]
      BY <1>5 DEF LockToPublish, Goto, Gone
    <3>2. pc' = [pc EXCEPT ![r] = "commit"] => pc'[r] = "commit"
      BY <1>1 DEF TypeOK
    <3>3. \A q \in Requests : q # r => pc'[q] = pc[q]
      BY <1>1, <3>1 DEF TypeOK
    <3>4. pc' = [pc EXCEPT ![r] = "notfound"] => pc'[r] # "commit"
      BY <1>1 DEF TypeOK
    <3>5. \A q \in Publishers : q \in Requests  BY DEF Requests
    <3> QED  BY <3>1, <3>2, <3>3, <3>4, <3>5
  <2> QED  BY <1>3, <1>5, <2>1 DEF LockToPublish, store
<1>6. ASSUME NEW r \in Requests, CommitPublish(r) PROVE DeletedFacts'
  <2>1. target[r] \in Curricula /\ target[r] \notin deleted
    BY <1>1, <1>6 DEF CommitPublish, TypeOK, DeletedFacts
  <2>2. \A c \in deleted : publications'[c] = publications[c]
    BY <1>1, <1>6, <2>1 DEF CommitPublish, TypeOK
  <2>3. \A q \in Publishers : pc'[q] = "commit" => pc[q] = "commit"
    BY <1>1, <1>6 DEF CommitPublish, Goto, TypeOK
  <2> QED  BY <1>6, <2>2, <2>3 DEF CommitPublish, DeletedFacts, DeletedNotPublished
<1>7. ASSUME NEW r \in Requests, CommitRetire(r) PROVE DeletedFacts'
  <2>1. \A c \in deleted : \/ publications'[c] = publications[c]
                           \/ publications'[c] = Withdrawn(publications[c])
    BY <1>1, <1>7 DEF CommitRetire, TypeOK
  <2>2. \A q \in Publishers : pc'[q] = "commit" => pc[q] = "commit"
    BY <1>1, <1>7 DEF CommitRetire, Goto, TypeOK
  <2>3. deleted \in SUBSET Curricula  BY <1>1 DEF TypeOK
  <2> QED
    BY <1>2, <1>7, <2>1, <2>2, <2>3 DEF CommitRetire, DeletedFacts, DeletedNotPublished
<1>8. ASSUME NEW r \in Requests, CommitDelete(r) PROVE DeletedFacts'
  <2> DEFINE c == target[r]
  <2>1. /\ c \in Curricula /\ lock[c] = r /\ r \notin Publishers
        /\ deleted' = deleted \cup {c} /\ target' = target
    BY <1>1, <1>8, RequestsAssumption
    DEF CommitDelete, TypeOK, IInv, RequestFacts, LockFacts
  <2>2. publications'[c] = Withdrawn(publications[c])
    BY <1>1, <1>8, <2>1 DEF CommitDelete, TypeOK
  <2>3. \A d \in Curricula : d # c => publications'[d] = publications[d]
    BY <1>1, <1>8 DEF CommitDelete, TypeOK
  <2>4. \A d \in deleted' : \A p \in publications'[d] : p.status = "withdrawn"
    BY <1>1, <1>2, <2>1, <2>2, <2>3 DEF TypeOK, DeletedFacts, DeletedNotPublished
  <2>5. ASSUME NEW q \in Publishers, pc'[q] = "commit" PROVE target[q] \notin deleted'
    <3>1. pc[q] = "commit"
      BY <1>1, <1>8, <2>5 DEF CommitDelete, Goto, TypeOK
    <3>2. lock[target[q]] = q
      BY <2>5, <3>1, RequestsAssumption DEF IInv, RequestFacts, LockFacts, Requests
    <3> QED  BY <2>1, <2>5, <3>1, <3>2 DEF DeletedFacts
  <2> QED  BY <2>1, <2>4, <2>5 DEF DeletedFacts, DeletedNotPublished
<1>9. ASSUME NEW r \in Requests, Fail(r) PROVE DeletedFacts'
  <2>1. \A q \in Publishers : pc'[q] = "commit" => pc[q] = "commit"
    BY <1>1, <1>9 DEF Fail, Goto, TypeOK
  <2> QED  BY <1>3, <1>9, <2>1 DEF Fail, store
<1>10. ASSUME NEW r \in Requests,
              \/ ReadBank(r) \/ ReadTree(r) \/ BeginPublish(r) \/ BuildPayload(r)
              \/ RefusePublish(r) \/ BeginRetire(r) \/ LockToWithdraw(r)
              \/ AnswerRetire(r) \/ BeginDelete(r)
       PROVE  DeletedFacts'
  <2>1. UNCHANGED <<deleted, publications, target>>
    BY <1>10
    DEF store, ReadBank, ReadTree, BeginPublish, BuildPayload, RefusePublish,
        BeginRetire, LockToWithdraw, AnswerRetire, BeginDelete
  <2>2. CASE LockToWithdraw(r)
    <3>1. \A q \in Publishers : pc'[q] = "commit" => pc[q] = "commit"
      BY <1>1, <2>2, RequestsAssumption DEF LockToWithdraw, Goto, TypeOK
    <3> QED  BY <1>3, <2>1, <3>1
  <2>3. CASE ~LockToWithdraw(r)
    <3>1. CASE AnswerRetire(r)
      <4>1. r \notin Publishers  BY <3>1, RequestsAssumption DEF AnswerRetire
      <4>2. \A q \in Publishers : pc'[q] = "commit" => pc[q] = "commit"
        BY <1>1, <3>1, <4>1 DEF AnswerRetire, Goto, TypeOK
      <4> QED  BY <1>3, <2>1, <4>2
    <3>2. CASE ~AnswerRetire(r)
      <4>1. PICK l \in Labels \ {"commit"} : Goto(r, l)
        BY <1>10, <2>3, <3>2
        DEF ReadBank, ReadTree, BeginPublish, BuildPayload, RefusePublish,
            BeginRetire, BeginDelete, Labels, Ended
      <4>2. \A q \in Publishers : pc'[q] = "commit" => pc[q] = "commit"
        BY <1>1, <4>1 DEF Goto, TypeOK
      <4> QED  BY <1>3, <2>1, <4>2
    <3> QED  BY <3>1, <3>2
  <2> QED  BY <2>2, <2>3
<1>11. ASSUME NEW r \in Requests
       PROVE  ~(\/ BeginInitial(r) \/ PlanInitial(r) \/ LockToInitial(r)
                \/ CheckInitial(r) \/ WriteInitial(r) \/ CommitInitial(r))
  BY DEF BeginInitial, PlanInitial, LockToInitial, CheckInitial, WriteInitial,
         CommitInitial
<1> QED
  BY <1>4, <1>5, <1>6, <1>7, <1>8, <1>9, <1>10, <1>11 DEF Next, Step

\* Among publishes, retires and deletes a deleted curriculum is never left
\* published.  The assumption is needed: publish:initial breaks it.
THEOREM DeletedIsWithdrawn ==
    ASSUME Initials = {}
    PROVE  Spec => []DeletedNotPublished
<1>1. Init => DeletedFacts
  BY DEF Init, DeletedFacts, DeletedNotPublished
<1>2. IInv /\ DeletedFacts /\ [Next]_vars => DeletedFacts'
  BY NextKeepsDeletedFacts
<1>3. DeletedFacts => DeletedNotPublished
  BY DEF DeletedFacts
<1> QED  BY <1>1, <1>2, <1>3, Invariance, PTL DEF Spec
=============================================================================
