----------------------- MODULE PublicationSummaryProofs -----------------------
(***************************************************************************)
(* The theorems of PublicationSummary, for any trees, curricula and bounds:*)
(* what a publish names is what its curriculum takes from learners, and    *)
(* what it takes is named, but for the exceptions the properties state.    *)
(***************************************************************************)
EXTENDS PublicationSummary, TLAPS

USE PublicationSummaryAssumption

\* The publications are records, and each is made of its three parts.
Shape ==
    /\ latest = [c \in Curricula |-> latest[c]]
    /\ \A c \in Curricula :
         latest[c] = [at |-> latest[c].at, status |-> latest[c].status, rows |-> latest[c].rows]

IInv == TypeOK /\ Shape

(***************************************************************************)
(* The tree                                                                *)
(***************************************************************************)

\* What a row hangs from is of the tier above.
LEMMA Hanging ==
    ASSUME up \in Trees
    PROVE  /\ \A x \in Grades : up[x] \in Curricula
           /\ \A x \in Levels : up[x] \in Grades
           /\ \A x \in Lessons : up[x] \in Levels
<1>1. \A x \in Rows : up[x] \in Parents(x)
  BY DEF Trees
<1>2. \A x \in Grades : Parents(x) = Curricula
  BY DEF Parents, Rows
<1>3. \A x \in Levels : Parents(x) = Grades
  BY DEF Parents, Rows
<1>4. \A x \in Lessons : Parents(x) = Levels
  BY DEF Parents, Rows
<1> QED BY <1>1, <1>2, <1>3, <1>4 DEF Rows

\* The steps up from a row, tier by tier.
LEMMA Steps ==
    ASSUME up \in Trees
    PROVE  /\ \A c \in Curricula : Above(c) = c
           /\ \A x \in Rows : Above(x) = up[x]
           /\ \A x \in Rows : Above(Above(Above(x))) \in Curricula
<1>1. /\ \A c \in Curricula : Above(c) = c
      /\ \A x \in Rows : Above(x) = up[x]
  BY DEF Above
<1>2. ASSUME NEW x \in Rows PROVE Above(Above(Above(x))) \in Curricula
  <2>1. CASE x \in Grades
    BY <1>1, <2>1, Hanging
  <2>2. CASE x \in Levels
    BY <1>1, <2>2, Hanging DEF Rows
  <2>3. CASE x \in Lessons
    <3>1. up[x] \in Levels /\ up[x] \in Rows /\ up[up[x]] \in Grades /\ up[up[x]] \in Rows
          /\ up[up[up[x]]] \in Curricula
      BY <2>3, Hanging DEF Rows
    <3> QED BY <1>1, <3>1
  <2> QED BY <2>1, <2>2, <2>3 DEF Rows
<1> QED BY <1>1, <1>2

\* What a row in a live curriculum hangs from is in it too.
LEMMA SameHome ==
    ASSUME up \in Trees, NEW x \in Levels \cup Lessons, Home(x) # None
    PROVE  up[x] \in Rows /\ up[x] \in Path(x) /\ Path(up[x]) \subseteq Path(x) /\ Home(up[x]) = Home(x)
<1>1. x \in Rows /\ up[x] \in Rows /\ Above(x) = up[x]
  BY Hanging, Steps DEF Rows
<1>2. Above(Above(Above(x))) \in Curricula
  BY <1>1, Steps
<1>3. Above(Above(Above(Above(x)))) = Above(Above(Above(x)))
  BY <1>2, Steps
<1>4. Path(up[x]) \subseteq Path(x) /\ up[x] \in Path(x)
  BY <1>1, <1>3 DEF Path
<1>5. Path(x) \cap gone = {} /\ Home(x) = Above(Above(Above(x)))
  BY DEF Home
<1>6. Home(up[x]) = Above(Above(Above(x)))
  BY <1>1, <1>3, <1>4, <1>5 DEF Home
<1> QED BY <1>1, <1>4, <1>5, <1>6

\* A row is at home in a curriculum, or nowhere.
LEMMA HomeType ==
    ASSUME up \in Trees, NEW x \in Rows
    PROVE  Home(x) \in Curricula \cup {None}
BY Steps DEF Home

\* A publish copies rows of the tree and the bank.
LEMMA PickedType ==
    ASSUME TypeOK, NEW c \in Curricula
    PROVE  Picked(c) \subseteq Keys /\ DOMAIN Payload(c) = Picked(c)
<1>1. TreeOf(c) \subseteq Curricula \cup Rows
  BY DEF TreeOf, Under
<1>2. \A u \in Users : uses[u] \subseteq Bank
  BY DEF TypeOK
<1> QED BY <1>1, <1>2 DEF Picked, Payload, Keys

(***************************************************************************)
(* A publish                                                               *)
(***************************************************************************)

\* What a publish writes, and what it leaves.
LEMMA Published ==
    ASSUME IInv, NEW c \in Curricula, Publish(c)
    PROVE  /\ c \in Served'
           /\ latest'[c].rows = Payload(c) /\ latest'[c].at = clock + 1
           /\ latest'[c].status = "published"
           /\ \A o \in Curricula \ {c} : latest'[o] = latest[o]
           /\ Served' \ {c} = Served \ {c}
           /\ clock' = clock + 1
<1>1. /\ latest'[c] = [at |-> clock', status |-> "published", rows |-> Payload(c)]
      /\ \A o \in Curricula \ {c} : latest'[o] = latest[o]
      /\ gone' = gone /\ c \notin gone /\ clock' = clock + 1
  BY DEF Publish, IInv, Shape, content
<1> QED BY <1>1 DEF Served

\* The carriers of a row after a publish.
LEMMA Carried ==
    ASSUME IInv, NEW c \in Curricula, Publish(c), NEW k
    PROVE  /\ c \in Holders(k)' <=> k \in Picked(c)
           /\ \A o \in Curricula \ {c} : o \in Holders(k)' <=> o \in Holders(k)
           /\ \A o \in Curricula \ {c} :
                o \in Holders(k) <=> Carries(PublishedHashesOf(c), o, k)
<1>1. DOMAIN Payload(c) = Picked(c)
  BY PickedType DEF IInv
<1>2. c \in Holders(k)' <=> k \in Picked(c)
  BY <1>1, Published DEF Holders
<1>3. ASSUME NEW o \in Curricula \ {c}
      PROVE  /\ o \in Holders(k)' <=> o \in Holders(k)
             /\ o \in Holders(k) <=> Carries(PublishedHashesOf(c), o, k)
  <2>1. o \in Served' <=> o \in Served
    BY Published
  <2>2. latest'[o] = latest[o]
    BY Published
  <2>3. o \in Holders(k)' <=> o \in Holders(k)
    BY <2>1, <2>2 DEF Holders
  <2>4. o \in Holders(k) <=> Carries(PublishedHashesOf(c), o, k)
    BY DEF Holders, Carries, PublishedHashesOf
  <2> QED BY <2>3, <2>4
<1> QED BY <1>2, <1>3

(***************************************************************************)
(* The invariant                                                           *)
(***************************************************************************)

\* It holds at the start.
LEMMA InitInvariant ==
    ASSUME Init, Grown \subseteq Trees
    PROVE  IInv
BY DEF Init, IInv, TypeOK, Shape, Never, NoSummary, Nothing

\* What a publish answers is about rows and curricula.
LEMMA SummaryType ==
    ASSUME IInv, NEW c \in Curricula
    PROVE  /\ Summarise(c, Payload(c)).of = c
           /\ Summarise(c, Payload(c)).shared \subseteq Bank \X Curricula
           /\ Summarise(c, Payload(c)).movedaway \subseteq Rows \X Curricula
<1>1. \A now, diff : SharedRows(now, diff, PublishedHashesOf(c)) \subseteq Bank \X Curricula
  BY DEF SharedRows, PublishedHashesOf, Served
<1>2. \A diff, published : MovedAway(c, diff, published) \subseteq Rows \X Curricula
  BY HomeType DEF MovedAway, IInv, TypeOK
<1> QED BY <1>1, <1>2 DEF Summarise

\* Each step keeps it.
LEMMA NextInvariant ==
    ASSUME IInv, [Next]_vars
    PROVE  IInv'
<1> USE DEF IInv
<1>1. ASSUME NEW c \in Curricula, Publish(c) PROVE IInv'
  <2>1. UNCHANGED <<up, uses, gone, says, edits>>
    BY <1>1 DEF Publish, content
  <2>2. clock' = clock + 1 /\ clock' \in 0 .. MaxPublications
    BY <1>1 DEF Publish, TypeOK
  <2>3. latest' = [latest EXCEPT ![c] = [at |-> clock', status |-> "published", rows |-> Payload(c)]]
    BY <1>1 DEF Publish
  <2>4. Shape'
    BY <2>3 DEF Shape
  <2>5. \A d \in Curricula : /\ latest'[d].at \in 0 .. clock'
                             /\ latest'[d].status \in {"never", "published", "withdrawn"}
                             /\ DOMAIN latest'[d].rows \subseteq Keys
    <3>1. \A d \in Curricula \ {c} : latest'[d] = latest[d]
      BY <2>3 DEF Shape
    <3>2. latest'[c] = [at |-> clock', status |-> "published", rows |-> Payload(c)]
      BY <2>3 DEF Shape
    <3>3. DOMAIN Payload(c) \subseteq Keys
      BY PickedType
    <3> QED BY <2>2, <3>1, <3>2, <3>3 DEF TypeOK
  <2>6. /\ summary'.of \in Curricula \cup {None}
        /\ summary'.shared \subseteq Bank \X Curricula
        /\ summary'.movedaway \subseteq Rows \X Curricula
    BY <1>1, SummaryType DEF Publish
  <2> QED BY <2>1, <2>2, <2>4, <2>5, <2>6 DEF TypeOK
<1>2. ASSUME Edit PROVE edits' \in 0 .. MaxEdits /\ UNCHANGED <<summary, clock>>
  BY <1>2 DEF Edit, TypeOK
<1>3. ASSUME NEW c \in Curricula, Withdraw(c), clock' = clock
      PROVE  /\ Shape'
             /\ \A d \in Curricula : /\ latest'[d].at \in 0 .. clock'
                                     /\ latest'[d].status \in {"never", "published", "withdrawn"}
                                     /\ DOMAIN latest'[d].rows \subseteq Keys
  <2>1. \A d \in Curricula \ {c} : latest'[d] = latest[d]
    BY <1>3 DEF Shape, Withdraw
  <2>2. latest'[c] = [latest[c] EXCEPT !.status = IF @ = "published" THEN "withdrawn" ELSE @]
    BY <1>3 DEF Shape, Withdraw
  <2>3. latest'[c] = [at |-> latest[c].at,
                      status |-> IF latest[c].status = "published" THEN "withdrawn" ELSE latest[c].status,
                      rows |-> latest[c].rows]
    BY <2>2 DEF Shape
  <2>4. latest' = [d \in Curricula |-> latest'[d]]
    BY <1>3 DEF Shape, Withdraw
  <2>5. ASSUME NEW d \in Curricula
        PROVE  /\ latest'[d] = [at |-> latest'[d].at, status |-> latest'[d].status,
                                rows |-> latest'[d].rows]
               /\ latest'[d].at \in 0 .. clock
               /\ latest'[d].status \in {"never", "published", "withdrawn"}
               /\ DOMAIN latest'[d].rows \subseteq Keys
    <3>1. CASE d = c
      BY <2>3, <3>1 DEF TypeOK
    <3>2. CASE d # c
      BY <2>1, <3>2 DEF TypeOK, Shape
    <3> QED BY <3>1, <3>2
  <2> QED BY <1>3, <2>4, <2>5 DEF Shape
<1>4. ASSUME NEW c \in Curricula, Retire(c) PROVE IInv'
  BY <1>2, <1>3, <1>4 DEF Retire, content, TypeOK
<1>5. ASSUME NEW c \in Curricula, DeleteCurriculum(c) PROVE IInv'
  <2>1. gone' \subseteq Curricula \cup Rows
    BY <1>5 DEF DeleteCurriculum, TypeOK
  <2> QED BY <1>2, <1>3, <1>5, <2>1 DEF DeleteCurriculum, TypeOK
<1>6. ASSUME NEW x \in Rows, DeleteRow(x) PROVE IInv'
  BY <1>2, <1>6 DEF DeleteRow, TypeOK, Shape
<1>7. ASSUME NEW x \in Rows, NEW p \in Parents(x), Move(x, p) PROVE IInv'
  <2>1. up' \in Trees
    <3>1. Parents(x) \subseteq Curricula \cup Rows
      BY DEF Parents, Rows
    <3>2. up \in [Rows -> Curricula \cup Rows] /\ \A y \in Rows : up[y] \in Parents(y)
      BY DEF TypeOK, Trees
    <3>3. up' = [up EXCEPT ![x] = p]
      BY <1>7 DEF Move
    <3>4. \A y \in Rows : up'[y] \in Parents(y)
      BY <3>2, <3>3
    <3> QED BY <3>1, <3>2, <3>3, <3>4 DEF Trees
  <2> QED BY <1>2, <1>7, <2>1 DEF Move, TypeOK, Shape
<1>8. ASSUME NEW k \in Bank, NEW text \in Contents, EditBank(k, text) PROVE IInv'
  BY <1>2, <1>8 DEF EditBank, TypeOK, Shape
<1>9. ASSUME NEW u \in Users, NEW k \in Bank, Link(u, k) PROVE IInv'
  BY <1>2, <1>9 DEF Link, TypeOK, Shape
<1>10. ASSUME NEW u \in Users, NEW k \in Bank, Unlink(u, k) PROVE IInv'
  BY <1>2, <1>10 DEF Unlink, TypeOK, Shape
<1>11. CASE UNCHANGED vars
  BY <1>11 DEF vars, content, TypeOK, Shape
<1> QED BY <1>1, <1>4, <1>5, <1>6, <1>7, <1>8, <1>9, <1>10, <1>11 DEF Next

\* The invariant holds in every reachable state, for any trees and bounds.
THEOREM Invariant == Spec => []IInv
<1>1. Init => IInv
  BY InitInvariant
<1>2. IInv /\ [Next]_vars => IInv'
  BY NextInvariant
<1> QED BY <1>1, <1>2, PTL DEF Spec

\* Every variable keeps its type.
THEOREM TypeCorrect == Spec => []TypeOK
<1>1. IInv => TypeOK
  BY DEF IInv
<1> QED BY Invariant, <1>1, PTL

(***************************************************************************)
(* What is said, and what is so                                            *)
(***************************************************************************)

\* A row a publish takes out is named, when it is live elsewhere, its parent
\* was not taken out with it, and nobody carries it afterwards.
LEMMA RootsAreNamed ==
    ASSUME IInv, NEW c \in Curricula, Publish(c), latest[c].status = "published",
           NEW r \in Rows, r \in DOMAIN latest[c].rows, r \notin Picked(c),
           Home(r) \notin {c, None}, ~Sent(r)',
           \/ r \in Grades
           \/ up[r] \notin DOMAIN latest[c].rows
           \/ up[r] \in Picked(c)
    PROVE  r \in Named'
<1> DEFINE diff == DiffHashes(Payload(c), BaseOf(c, "published"))
<1>1. DOMAIN Payload(c) = Picked(c)
  BY PickedType DEF IInv
<1>2. diff.removed = DOMAIN latest[c].rows \ Picked(c)
  BY <1>1 DEF DiffHashes, BaseOf
<1>3. Home(r) \in Curricula \ {c}
  BY HomeType DEF IInv, TypeOK
<1>4. ~Carries(PublishedHashesOf(c), Home(r), r)
  BY <1>3, Carried DEF Sent
<1>5. <<r, Home(r)>> \in MovedAway(c, diff, PublishedHashesOf(c))
  BY <1>2, <1>4 DEF MovedAway
<1>6. summary'.movedaway = MovedAway(c, diff, PublishedHashesOf(c))
  BY DEF Publish, Summarise
<1> QED BY <1>5, <1>6 DEF Named

\* Whatever a publish takes from learners is named by what it hangs from.
LEMMA LossIsNamed ==
    ASSUME IInv, NEW c \in Curricula, Publish(c), NEW x \in Lost(c)
    PROVE  \/ Path(x) \cap Named' # {}
           \/ \E r \in Path(x) : r \in DOMAIN BaseOf(c, "published") /\ Sent(r)'
<1> DEFINE base == DOMAIN latest[c].rows
<1>1. x \in Rows /\ Sent(x) /\ ~Sent(x)' /\ Home(x) \notin {c, None}
  BY DEF Lost
<1>2. PICK h \in Curricula : h \in Holders(x)
  BY <1>1 DEF Sent, Holders, Served
<1>3. h = c
  BY <1>1, <1>2, Carried DEF Sent
<1>4. latest[c].status = "published" /\ x \in base
  BY <1>2, <1>3 DEF Holders, Served
<1>5. BaseOf(c, "published") = latest[c].rows
  BY <1>4 DEF BaseOf
<1>6. ASSUME NEW r \in Rows, ~Sent(r)' PROVE r \notin Picked(c)
  BY <1>6, Carried DEF Sent
<1>7. up \in Trees
  BY DEF IInv, TypeOK
<1>8. x \in Path(x)
  BY DEF Path
<1>9. CASE \/ x \in Grades
           \/ up[x] \notin base
           \/ up[x] \in Picked(c)
  BY <1>1, <1>4, <1>6, <1>8, <1>9, RootsAreNamed
<1>10. CASE x \notin Grades /\ up[x] \in base /\ up[x] \notin Picked(c)
  <2>0. PICK p \in Rows : p = up[x]
    BY <1>1, <1>7, <1>10, SameHome DEF Rows
  <2>1. p \in Path(x) /\ Path(p) \subseteq Path(x) /\ Home(p) = Home(x)
    BY <1>1, <1>7, <1>10, <2>0, SameHome DEF Rows
  <2>2. CASE Sent(p)'
    BY <1>5, <1>10, <2>0, <2>1, <2>2
  <2>3. CASE ~Sent(p)' /\ (\/ p \in Grades \/ up[p] \notin base \/ up[p] \in Picked(c))
    BY <1>1, <1>4, <1>10, <2>0, <2>1, <2>3, RootsAreNamed
  <2>4. CASE ~Sent(p)' /\ p \notin Grades /\ up[p] \in base /\ up[p] \notin Picked(c)
    <3>0. PICK g \in Rows : g = up[p]
      BY <1>1, <1>7, <2>1, <2>4, SameHome DEF Rows
    <3>1. g \in Path(p) /\ Home(g) = Home(p)
      BY <1>1, <1>7, <2>1, <2>4, <3>0, SameHome DEF Rows
    <3>2. g \in Grades
      BY <1>1, <1>7, <1>10, <2>0, <2>4, <3>0, Hanging DEF Rows
    <3>3. CASE Sent(g)'
      BY <1>5, <2>1, <2>4, <3>0, <3>1, <3>3
    <3>4. CASE ~Sent(g)'
      BY <1>1, <1>4, <2>1, <2>4, <3>0, <3>1, <3>2, <3>4, RootsAreNamed
    <3> QED BY <3>3, <3>4
  <2> QED BY <2>2, <2>3, <2>4
<1> QED BY <1>9, <1>10

\* A live row that a publish takes from learners is named.
THEOREM LossesNamed == Spec => LossesAreNamed
<1>1. IInv /\ [Next]_vars =>
        [\A c \in Curricula : Publish(c) =>
           \A x \in Lost(c) :
              \/ Path(x) \cap Named' # {}
              \/ \E r \in Path(x) : r \in DOMAIN BaseOf(c, "published") /\ Sent(r)' ]_vars
  BY LossIsNamed
<1> QED BY Invariant, <1>1, PTL DEF Spec, LossesAreNamed

\* What a publish names, neither its curriculum nor the other one still sends.
THEOREM NamedAreLost == Spec => NamedIsLost
<1>1. ASSUME IInv, NEW c \in Curricula, Publish(c), NEW m \in summary'.movedaway
      PROVE  Holders(m[1])' \cap {c, m[2]} = {}
  <2> DEFINE diff == DiffHashes(Payload(c), BaseOf(c, "published"))
  <2>1. summary'.movedaway = MovedAway(c, diff, PublishedHashesOf(c))
    BY <1>1 DEF Publish, Summarise
  <2>2. PICK x \in Rows \cap diff.removed :
          m = <<x, Home(x)>> /\ Home(x) \notin {c, None} /\ ~Carries(PublishedHashesOf(c), Home(x), x)
    BY <1>1, <2>1 DEF MovedAway
  <2>3. x \notin Picked(c)
    BY <1>1, PickedType DEF DiffHashes, IInv
  <2>4. Home(x) \in Curricula \ {c}
    BY <1>1, <2>2, HomeType DEF IInv, TypeOK
  <2>5. c \notin Holders(x)' /\ Home(x) \notin Holders(x)'
    BY <1>1, <2>2, <2>3, <2>4, Carried
  <2> QED BY <2>2, <2>5
<1>2. IInv /\ [Next]_vars =>
        [\A c \in Curricula : Publish(c) =>
           \A m \in summary'.movedaway : Holders(m[1])' \cap {c, m[2]} = {} ]_vars
  BY <1>1
<1> QED BY Invariant, <1>2, PTL DEF Spec, NamedIsLost

\* After a publish learners get its copy of what it carries.
LEMMA NewestIsGot ==
    ASSUME IInv, NEW c \in Curricula, Publish(c), NEW k \in Picked(c)
    PROVE  Got(k)' = Payload(c)[k]
<1>1. c \in Holders(k)' /\ Holders(k)' \subseteq Curricula
  BY Carried DEF Holders, Served
<1>2. ASSUME NEW o \in Curricula \ {c}
      PROVE  latest'[o].at \in Nat /\ latest'[o].at < latest'[c].at
  BY Published DEF IInv, TypeOK
<1>3. latest'[c].at = clock + 1 /\ clock \in Nat
  BY Published DEF IInv, TypeOK
<1>4. \A o \in Holders(k)' : latest'[o].at <= latest'[c].at
  BY <1>1, <1>2, <1>3
<1>5. ASSUME NEW d \in Holders(k)', \A o \in Holders(k)' : latest'[o].at <= latest'[d].at
      PROVE  d = c
  BY <1>1, <1>2, <1>3, <1>5
<1>6. (CHOOSE d \in Holders(k)' : \A o \in Holders(k)' : latest'[o].at <= latest'[d].at) = c
  BY <1>1, <1>4, <1>5
<1>7. latest'[c].rows = Payload(c)
  BY Published
<1> QED BY <1>6, <1>7 DEF Got

\* A copy that reaches the learners of another curriculum is listed.
THEOREM ReachListed == Spec => ReachIsListed
<1>1. ASSUME IInv, NEW c \in Curricula, Publish(c), NEW o \in Served \ {c},
             NEW k \in Bank \cap DOMAIN latest[o].rows, k \in Picked(c),
             Got(k)' # latest[o].rows[k],
             ~(c \in Holders(k) /\ latest[c].rows[k] = Got(k)')
      PROVE  <<k, o>> \in summary'.shared
  <2> DEFINE now == Payload(c)
             before == BaseOf(c, "published")
             diff == DiffHashes(now, before)
             published == PublishedHashesOf(c)
  <2>1. Got(k)' = now[k] /\ DOMAIN now = Picked(c)
    BY <1>1, NewestIsGot, PickedType DEF IInv
  <2>2. c \in Curricula \ gone
    BY <1>1 DEF Publish
  <2>3. k \in diff.added \cup diff.changed
    <3>1. CASE latest[c].status = "published"
      <4>1. before = latest[c].rows
        BY <3>1 DEF BaseOf
      <4>2. c \in Holders(k) <=> k \in DOMAIN before
        BY <2>2, <3>1, <4>1 DEF Holders, Served
      <4> QED BY <1>1, <2>1, <4>1, <4>2 DEF DiffHashes
    <3>2. CASE latest[c].status # "published"
      <4>1. DOMAIN before = {}
        BY <3>2 DEF BaseOf, Nothing
      <4> QED BY <1>1, <2>1, <4>1 DEF DiffHashes
    <3> QED BY <3>1, <3>2
  <2>4. o \in DOMAIN published /\ published[o] = latest[o].rows
    BY <1>1 DEF PublishedHashesOf
  <2>5. <<k, o>> \in SharedRows(now, diff, published)
    BY <1>1, <2>1, <2>3, <2>4 DEF SharedRows
  <2>6. summary'.shared = SharedRows(now, diff, published)
    BY <1>1 DEF Publish, Summarise
  <2> QED BY <2>5, <2>6
<1>2. IInv /\ [Next]_vars =>
        [\A c \in Curricula : Publish(c) =>
           \A o \in Served \ {c} : \A k \in Bank \cap DOMAIN latest[o].rows :
              \/ k \notin Picked(c)
              \/ Got(k)' \in {Got(k), latest[o].rows[k]}
              \/ c \in Holders(k) /\ latest[c].rows[k] = Got(k)'
              \/ <<k, o>> \in summary'.shared ]_vars
  BY <1>1
<1> QED BY Invariant, <1>2, PTL DEF Spec, ReachIsListed
=============================================================================
