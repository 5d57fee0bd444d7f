------------------------- MODULE CurriculumTreeProofs -------------------------
(***************************************************************************)
(* Proofs about CurriculumTree, for any tree and any requests.             *)
(*                                                                         *)
(* The orders of a lesson's items.  A reorder writes in a transaction:     *)
(* what it has placed is locked, so no other request moves, orders or      *)
(* removes it before the commit (Drafted), and its list is the one it      *)
(* compared with the lesson's items (Fits).  Counting again changes points *)
(* only, but it does so everywhere, so the invariant says of every request *)
(* what is left of it.                                                     *)
(*                                                                         *)
(* The types.  A save writes what its request holds from reads made before *)
(* it: what is left of a request is a chain in which each step follows the *)
(* one that read for it (Steps), so the row, the level or the sum it is to *)
(* write is in hand (InHand), and the foreign keys keep what it is under   *)
(* in its table (Rooted).  A sum of points is a number because subsets of  *)
(* a finite set are well-founded.                                          *)
(*                                                                         *)
(* The branches.  A row that comes under another brings along who was on   *)
(* it, so what a request is about, what it holds and what it has sent to   *)
(* save stays on its branch (Branches, SavesOn), nobody else's steps       *)
(* change that (Acts), and a clean request is on its branch alone (Alone). *)
(***************************************************************************)
EXTENDS CurriculumTree, FiniteSetTheorems, WellFoundedInduction, TLAPS

OrderSteps == {"check", "list", "place", "commit"}

\* A finite sequence.
IsSeq(s) == s \in Seq({ s[n] : n \in DOMAIN s })

\* A step is one of the request a: the steps of a reorder are a reorder's only,
\* and once its list was compared with the lesson's items, it names each once.
Fits(a, step) ==
    /\ a \in AskRow
    /\ step.at \in OrderSteps <=> a.do = "reorder"
    /\ step.at = "place" => \E n \in DOMAIN a.list : step.of = <<a.list[n], n>>
    /\ step.at \in {"place", "commit"} =>
          /\ IsInjective(a.list)
          /\ \A n \in DOMAIN a.list : a.list[n] \in Items

AllFit(a, steps) == IsSeq(steps) /\ \A n \in DOMAIN steps : Fits(a, steps[n])

\* Steps that reorder nothing.
Plain(steps) == IsSeq(steps) /\ \A n \in DOMAIN steps : steps[n].at \notin OrderSteps

\* What is left of every request is of that request.
Todos == todo \in [Requests -> {todo[p] : p \in Requests}]
            /\ \A p \in Requests : AllFit(ask[p], todo[p])

\* A row of the three items tables has a lesson and an order.
Shaped ==
    /\ item \in [Items -> {item[i] : i \in Items}]
    /\ \A i \in Items : item[i] # None => {"lesson", "order"} \subseteq DOMAIN item[i]

\* No save that is not awaited is a reorder's.
Unsaved == \A w \in unsaved : ask[w.by].do # "reorder"

\* What a reorder has placed is an item of its lesson and kind, placed where
\* its list has it, and no one else's.
Drafted ==
    /\ draft \in [Requests -> {draft[p] : p \in Requests}]
    /\ \A p \in Requests : \A i \in DOMAIN draft[p] :
          /\ ask[p].do = "reorder"
          /\ i \in Items /\ KindOf[i] = ask[p].kind
          /\ item[i] # None /\ item[i].lesson = ask[p].lesson
          /\ draft[p][i] \in DOMAIN ask[p].list /\ ask[p].list[draft[p][i]] = i
          /\ IsInjective(ask[p].list)
          /\ \A q \in Requests \ {p} : i \notin DOMAIN draft[q]

\* What a list still names is of its lesson and kind, and in its place.
Listed ==
    /\ DOMAIN listed = Lessons
    /\ \A s \in Lessons : DOMAIN listed[s] = KindSet
    /\ \A s \in Lessons : \A k \in KindSet : \A n \in DOMAIN listed[s][k] :
          listed[s][k][n] # None =>
             LET i == listed[s][k][n]
             IN  /\ i \in Items /\ KindOf[i] = k
                 /\ {"lesson", "order"} \subseteq DOMAIN item[i]
                 /\ item[i].lesson = s /\ item[i].order = n

IInv == Todos /\ Shaped /\ Unsaved /\ Drafted /\ Listed

(***************************************************************************)
(* Steps                                                                   *)
(***************************************************************************)

\* A sequence is one of its own elements.
LEMMA OwnElements ==
    ASSUME NEW S, NEW s \in Seq(S)
    PROVE  IsSeq(s) /\ Len(s) \in Nat /\ DOMAIN s = 1 .. Len(s)
<1> DEFINE R == { s[n] : n \in DOMAIN s }
<1>1. /\ Len(s) \in Nat /\ DOMAIN s = 1 .. Len(s)
      /\ s = [n \in 1 .. Len(s) |-> s[n]]
  OBVIOUS
<1>2. \A n \in 1 .. Len(s) : s[n] \in R  BY <1>1
<1> HIDE DEF R
<1>3. s \in [1 .. Len(s) -> R]  BY <1>1, <1>2
<1>4. s \in Seq(R)  BY <1>1, <1>3
<1> QED  BY <1>1, <1>4 DEF IsSeq, R

\* A sequence whose elements are of one of the two.
Joins(c, a, b) ==
    /\ IsSeq(c)
    /\ \A n \in DOMAIN c : \/ \E m \in DOMAIN a : c[n] = a[m]
                          \/ \E m \in DOMAIN b : c[n] = b[m]

\* A concatenation is such a sequence.
LEMMA Concatenation ==
    ASSUME NEW a, NEW b, IsSeq(a), IsSeq(b)
    PROVE  Joins(a \o b, a, b)
<1> DEFINE A == { a[n] : n \in DOMAIN a }  B == { b[n] : n \in DOMAIN b }
           c == a \o b
<1>1. a \in Seq(A) /\ b \in Seq(B)  BY DEF IsSeq
<1>2. a \in Seq(A \cup B) /\ b \in Seq(A \cup B)  BY <1>1
<1>3. /\ c \in Seq(A \cup B) /\ Len(c) = Len(a) + Len(b)
      /\ \A n \in 1 .. Len(a) + Len(b) :
            c[n] = IF n <= Len(a) THEN a[n] ELSE b[n - Len(a)]
  BY <1>2
<1>4. DOMAIN a = 1 .. Len(a) /\ DOMAIN b = 1 .. Len(b) /\ DOMAIN c = 1 .. Len(a) + Len(b)
      /\ Len(a) \in Nat /\ Len(b) \in Nat
  BY <1>1, <1>3
<1>5. ASSUME NEW n \in DOMAIN c
      PROVE  \/ \E m \in DOMAIN a : c[n] = a[m]
             \/ \E m \in DOMAIN b : c[n] = b[m]
  <2>1. CASE n <= Len(a)
    BY <1>3, <1>4, <2>1
  <2>2. CASE ~(n <= Len(a))
    <3>1. n - Len(a) \in DOMAIN b  BY <1>4, <2>2
    <3> QED  BY <1>3, <1>4, <2>2, <3>1
  <2> QED  BY <2>1, <2>2
<1>6. IsSeq(c)
  <2> HIDE DEF c
  <2> QED  BY <1>3, OwnElements
<1> HIDE DEF c
<1> QED  BY <1>5, <1>6 DEF Joins, c

\* The rest of a sequence.
LEMMA Rest ==
    ASSUME NEW s, IsSeq(s), s # <<>>
    PROVE  /\ IsSeq(Tail(s))
           /\ \A n \in DOMAIN Tail(s) : \E m \in DOMAIN s : Tail(s)[n] = s[m]
           /\ 1 \in DOMAIN s /\ Head(s) = s[1]
<1> DEFINE S == { s[n] : n \in DOMAIN s }  t == Tail(s)
<1>1. s \in Seq(S)  BY DEF IsSeq
<1>2. /\ Len(s) \in Nat /\ Len(s) > 0 /\ DOMAIN s = 1 .. Len(s)
      /\ t \in Seq(S) /\ Len(t) = Len(s) - 1 /\ DOMAIN t = 1 .. Len(s) - 1
      /\ \A n \in 1 .. Len(s) - 1 : t[n] = s[n + 1]
      /\ Head(s) = s[1]
  BY <1>1
<1>3. IsSeq(t)
  <2> HIDE DEF t
  <2> QED  BY <1>2, OwnElements
<1>4. ASSUME NEW n \in DOMAIN t PROVE \E m \in DOMAIN s : t[n] = s[m]
  <2>1. n + 1 \in DOMAIN s /\ t[n] = s[n + 1]  BY <1>2
  <2> QED  BY <2>1
<1>5. 1 \in DOMAIN s  BY <1>2
<1> QED  BY <1>2, <1>3, <1>4, <1>5

\* Functions on 1..k and tuples are sequences.
LEMMA Literal ==
    ASSUME NEW s, NEW k \in Nat, DOMAIN s = 1 .. k, s = [n \in 1 .. k |-> s[n]]
    PROVE  IsSeq(s)
BY DEF IsSeq

\* Steps that reorder nothing, one list of them after another.
LEMMA PlainConcatenation ==
    ASSUME NEW a, NEW b, Plain(a), Plain(b)
    PROVE  Plain(a \o b)
<1> DEFINE c == a \o b
<1>1. IsSeq(a) /\ IsSeq(b)  BY DEF Plain
<1>2. Joins(c, a, b)  BY <1>1, Concatenation
<1> HIDE DEF c
<1>3. Plain(c)  BY <1>2, Zenon DEF Plain, Joins
<1> QED  BY <1>3 DEF c

\* No steps at all are of any request.
LEMMA PlainEmpty == Plain(<<>>) /\ \A a : AllFit(a, <<>>)
BY DEF Plain, IsSeq, AllFit

\* Counting again reorders nothing.
LEMMA PlainSteps ==
    ASSUME NEW x
    PROVE  Plain(Regrade(x)) /\ Plain(Resum(x)) /\ Plain(Reload(x))
           /\ Plain(Recount(x)) /\ Plain(Respread(x))
<1>1. Plain(Regrade(x))
  BY Literal DEF Regrade, Plain, At, OrderSteps, IsSeq
<1>2. Plain(Resum(x))
  BY DEF Resum, Plain, At, OrderSteps, IsSeq
<1>3. Plain(<<At("level", x)>>) /\ Plain(Recount(x)) /\ Plain(<<At("last", x)>>)
  BY DEF Recount, Plain, At, OrderSteps, IsSeq
<1>4. Plain([n \in 1..3 |-> At("count", <<x, Kinds[n]>>)])
      /\ Plain([n \in 1..3 |-> At("spread", <<x, Kinds[n]>>)])
  BY DEF Plain, At, OrderSteps, IsSeq
<1> QED  BY <1>1, <1>2, <1>3, <1>4, PlainConcatenation DEF Reload, Respread

\* Steps that reorder nothing are of any request that is not a reorder.
LEMMA PlainFits ==
    ASSUME NEW a \in AskRow, a.do # "reorder", NEW steps, Plain(steps)
    PROVE  AllFit(a, steps)
BY DEF AllFit, Plain, Fits, OrderSteps

\* A request's steps, one list of them after another.
LEMMA FitConcatenation ==
    ASSUME NEW a, NEW s, NEW t, AllFit(a, s), AllFit(a, t)
    PROVE  AllFit(a, s \o t)
<1> DEFINE c == s \o t
<1>1. IsSeq(s) /\ IsSeq(t)  BY DEF AllFit
<1>2. Joins(c, s, t)  BY <1>1, Concatenation
<1> HIDE DEF c
<1>3. AllFit(a, c)  BY <1>2, Zenon DEF AllFit, Joins
<1> QED  BY <1>3 DEF c

\* p goes on with steps of its own.
LEMMA ContinueFits ==
    ASSUME Todos, NEW p \in Requests, todo[p] # <<>>, NEW steps, NEW held,
           Continue(p, steps, held), AllFit(ask[p], steps), ask' = ask
    PROVE  Todos'
<1> DEFINE rest == steps \o Tail(todo[p])
<1>1. todo' = [todo EXCEPT ![p] = rest]  BY DEF Continue
<1>2. AllFit(ask[p], rest)
  <2>1. IsSeq(todo[p]) /\ \A n \in DOMAIN todo[p] : Fits(ask[p], todo[p][n])
    BY DEF Todos, AllFit
  <2>3. /\ IsSeq(Tail(todo[p]))
        /\ \A n \in DOMAIN Tail(todo[p]) : \E m \in DOMAIN todo[p] : Tail(todo[p])[n] = todo[p][m]
    BY <2>1, Rest, Zenon
  <2>4. \A n \in DOMAIN Tail(todo[p]) : Fits(ask[p], Tail(todo[p])[n])
    BY <2>1, <2>3, Zenon
  <2>5. AllFit(ask[p], Tail(todo[p]))  BY <2>3, <2>4, Zenon DEF AllFit
  <2> QED  BY <2>5, FitConcatenation
<1> HIDE DEF rest
<1>3. ASSUME NEW q \in Requests PROVE AllFit(ask'[q], todo'[q])
  <2>1. todo'[q] = IF q = p THEN rest ELSE todo[q]  BY <1>1 DEF Todos
  <2> QED  BY <1>2, <2>1 DEF Todos
<1>4. todo' \in [Requests -> {todo'[q] : q \in Requests}]
  BY <1>1 DEF Todos
<1> QED  BY <1>3, <1>4 DEF Todos

\* p has nothing left to do.
LEMMA StopFits ==
    ASSUME Todos, NEW p \in Requests, NEW how, Stop(p, how), ask' = ask
    PROVE  Todos'
<1>1. todo' = [todo EXCEPT ![p] = <<>>]  BY DEF Stop
<1>2. ASSUME NEW q \in Requests PROVE AllFit(ask'[q], todo'[q])
  <2>1. todo'[q] = IF q = p THEN <<>> ELSE todo[q]  BY <1>1 DEF Todos
  <2> QED  BY <2>1, PlainEmpty DEF Todos
<1>3. todo' \in [Requests -> {todo'[q] : q \in Requests}]
  BY <1>1 DEF Todos
<1> QED  BY <1>2, <1>3 DEF Todos

\* The step p is at is one of its own.
LEMMA AtStep ==
    ASSUME Todos, NEW p \in Requests, NEW step, Does(p, step)
    PROVE  /\ todo[p] # <<>> /\ ask[p] \in AskRow
           /\ Head(todo[p]).at = step /\ Fits(ask[p], Head(todo[p]))
           /\ step \notin OrderSteps => ask[p].do # "reorder"
           /\ step \in OrderSteps => ask[p].do = "reorder"
<1>1. todo[p] # <<>> /\ Head(todo[p]).at = step  BY DEF Does
<1>2. IsSeq(todo[p]) /\ \A n \in DOMAIN todo[p] : Fits(ask[p], todo[p][n])
  BY DEF Todos, AllFit
<1>3. Fits(ask[p], Head(todo[p]))
  BY <1>1, <1>2, Rest
<1> QED  BY <1>1, <1>3 DEF Fits

\* A request that reorders nothing goes on with steps that reorder nothing.
LEMMA PlainContinues ==
    ASSUME Todos, NEW p \in Requests, NEW step, Does(p, step), step \notin OrderSteps,
           NEW steps, NEW held, Plain(steps), Continue(p, steps, held), ask' = ask
    PROVE  Todos'
BY AtStep, PlainFits, ContinueFits

(***************************************************************************)
(* A step that leaves the items and their orders alone                     *)
(***************************************************************************)

\* Such a step keeps the invariant, if what it leaves to do is of its request.
LEMMA QuietKeeps ==
    ASSUME IInv, UNCHANGED <<ask, item, draft, listed>>, Todos',
           \A w \in unsaved' \ unsaved : ask[w.by].do # "reorder"
    PROVE  IInv'
<1>1. Shaped' /\ Listed'  BY DEF IInv, Shaped, Listed
<1>2. Unsaved'  BY DEF IInv, Unsaved
<1>3. Drafted'  BY DEF IInv, Drafted
<1> QED  BY <1>1, <1>2, <1>3 DEF IInv

\* A request arrives.
LEMMA BeginKeeps ==
    ASSUME CurriculumTreeAssumption, ask \in Asks, IInv, NEW p \in Requests, Begin(p)
    PROVE  IInv'
<1> DEFINE a == ask[p]
<1>1. /\ a # None
      /\ todo' = [todo EXCEPT ![p] = FirstSteps(a)]
      /\ UNCHANGED <<ask, item, draft, listed, unsaved>>
  BY DEF Begin, tables
<1>2. a \in AskRow  BY <1>1 DEF CurriculumTreeAssumption
<1>3. AllFit(a, FirstSteps(a))
  <2>1. CASE a.do = "reorder"
    <3> DEFINE checks == [n \in DOMAIN a.list |-> At("check", a.list[n])]
    <3>1. FirstSteps(a) = checks \o <<At("list", None)>>
      BY <2>1 DEF FirstSteps, Bulk
    <3>2. a.list \in Seq(Items)  BY <1>2 DEF AskRow
    <3>3. IsSeq(checks)
      <4>1. Len(a.list) \in Nat /\ DOMAIN a.list = 1 .. Len(a.list)  BY <3>2
      <4> QED  BY <4>1, Literal
    <3>4. \A n \in DOMAIN checks : checks[n].at = "check"  BY DEF At
    <3>5. IsSeq(<<At("list", None)>>)  BY DEF IsSeq
    <3>6. \A n \in DOMAIN <<At("list", None)>> : <<At("list", None)>>[n].at = "list"
      BY DEF At
    <3> HIDE DEF checks
    <3>7. AllFit(a, checks) /\ AllFit(a, <<At("list", None)>>)
      BY <1>2, <2>1, <3>3, <3>4, <3>5, <3>6 DEF AllFit, Fits, OrderSteps
    <3> QED  BY <3>1, <3>7, FitConcatenation
  <2>2. CASE a.do # "reorder"
    <3>1. Plain(<<At("write", None)>>) /\ Plain(<<At("scan", None)>>)
          /\ Plain(<<At("read", None), At("write", None)>>)
      BY DEF Plain, IsSeq, At, OrderSteps
    <3>2. Plain(FirstSteps(a))  BY <2>2, <3>1 DEF FirstSteps
    <3> QED  BY <1>2, <2>2, <3>2, PlainFits
  <2> QED  BY <2>1, <2>2
<1>4. Todos'
  <2>1. ASSUME NEW q \in Requests PROVE AllFit(ask'[q], todo'[q])
    <3>1. todo'[q] = IF q = p THEN FirstSteps(a) ELSE todo[q]  BY <1>1 DEF IInv, Todos
    <3> QED  BY <1>1, <1>3, <3>1 DEF IInv, Todos
  <2>2. todo' \in [Requests -> {todo'[q] : q \in Requests}]
    BY <1>1 DEF IInv, Todos
  <2> QED  BY <2>1, <2>2 DEF Todos
<1> QED  BY <1>1, <1>4, QuietKeeps

\* A row is read, or is not there.
LEMMA ReadRowKeeps ==
    ASSUME IInv, NEW p \in Requests, ReadRow(p)
    PROVE  IInv'
<1>1. /\ Does(p, "read") /\ "read" \notin OrderSteps
      /\ UNCHANGED <<ask, item, draft, listed, unsaved>>
  BY DEF ReadRow, tables, OrderSteps
<1>2. CASE Stop(p, "refused")
  BY <1>1, <1>2, StopFits, QuietKeeps DEF IInv
<1>3. CASE Continue(p, <<>>, Hold(p, "row", Target(ask[p])))
  BY <1>1, <1>3, PlainEmpty, PlainContinues, QuietKeeps DEF IInv
<1> QED  BY <1>2, <1>3 DEF ReadRow

\* A lesson, a level or a question is written.
LEMMA WritesKeep ==
    ASSUME IInv, NEW p \in Requests, WriteLesson(p) \/ WriteLevel(p) \/ WriteQuestion(p)
    PROVE  IInv'
<1>1. /\ Does(p, "write") /\ "write" \notin OrderSteps
      /\ UNCHANGED <<ask, item, draft, listed, unsaved>>
  BY DEF WriteLesson, WriteLevel, WriteQuestion, OrderSteps
<1>2. ASSUME WriteLesson(p) PROVE \E steps, held : Plain(steps) /\ Continue(p, steps, held)
  <2>1. \A x : Plain(Reload(x)) /\ Plain(Recount(x))  BY PlainSteps
  <2>2. \A x, y : Plain(Recount(x) \o (IF y # x THEN Reload(y) ELSE <<>>))
                  /\ Plain(Recount(x) \o Reload(y)) /\ Plain(Recount(x) \o <<>>)
    BY <2>1, PlainEmpty, PlainConcatenation
  <2>3. \E x, held : \/ Continue(p, Reload(x), held)
                     \/ \E y : Continue(p, Recount(x) \o Reload(y), held)
                     \/ Continue(p, Recount(x) \o <<>>, held)
    <3>1. CASE ask[p].do = "addLesson"  BY <1>2, <3>1 DEF WriteLesson
    <3>2. CASE ask[p].do = "editLesson"
      <4>1. Continue(p, Recount(ask[p].lesson) \o
                           (IF mem[p].row.level # ask[p].level
                            THEN Reload(mem[p].row.level) ELSE <<>>), mem[p])
        BY <1>2, <3>2 DEF WriteLesson
      <4> QED  BY <4>1
    <3>3. CASE ask[p].do \in {"dropLesson", "switchLesson"}  BY <1>2, <3>3 DEF WriteLesson
    <3> QED  BY <1>2, <3>1, <3>2, <3>3 DEF WriteLesson
  <2> QED  BY <2>1, <2>2, <2>3
<1>3. ASSUME WriteLevel(p) PROVE \E steps, held : Plain(steps) /\ Continue(p, steps, held)
  <2>1. \A x, y : Plain(Resum(x)) /\ Plain(Regrade(x)) /\ Plain(Resum(x) \o Regrade(y))
                  /\ Plain(Resum(x) \o <<>>)
    BY PlainSteps, PlainEmpty, PlainConcatenation
  <2>2. \E x, held : \/ Continue(p, Resum(x), held)
                     \/ Continue(p, Regrade(x), held)
                     \/ \E y : Continue(p, Resum(x) \o Regrade(y), held)
                     \/ Continue(p, Resum(x) \o <<>>, held)
    <3>1. CASE ask[p].do = "editLevel"
      <4>1. \E held : Continue(p, Resum(ask[p].level) \o
                           (IF mem[p].row.grade # ask[p].grade
                            THEN Regrade(mem[p].row.grade) ELSE <<>>), held)
        BY <1>3, <3>1 DEF WriteLevel
      <4> QED  BY <4>1
    <3>2. CASE ask[p].do # "editLevel"  BY <1>3, <3>2 DEF WriteLevel
    <3> QED  BY <3>1, <3>2
  <2> QED  BY <2>1, <2>2
<1>4. ASSUME WriteQuestion(p) PROVE \E steps, held : Plain(steps) /\ Continue(p, steps, held)
  <2>1. \A x : Plain(Reload(x))  BY PlainSteps
  <2>2. \E x, held : Continue(p, Reload(x), held)  BY <1>4 DEF WriteQuestion
  <2> QED  BY <2>1, <2>2
<1>5. PICK steps, held : Plain(steps) /\ Continue(p, steps, held)
  BY <1>2, <1>3, <1>4
<1> QED  BY <1>1, <1>5, PlainContinues, QuietKeeps DEF IInv

\* The bulk requests: a step for each row read, which is finitely many.
LEMMA ScanKeeps ==
    ASSUME CurriculumTreeAssumption, DOMAIN lesson = Lessons, DOMAIN level = Levels,
           IInv, NEW p \in Requests, Scan(p)
    PROVE  IInv'
<1>1. /\ Does(p, "scan") /\ "scan" \notin OrderSteps
      /\ UNCHANGED <<ask, item, draft, listed, unsaved>>
  BY DEF Scan, tables, OrderSteps
<1>2. ASSUME NEW S, IsFiniteSet(S), NEW rows \in SetToSeqs(S)
      PROVE  Cardinality(S) \in Nat /\ DOMAIN rows = 1 .. Cardinality(S)
  BY <1>2, FS_CardinalityType DEF SetToSeqs
<1>3. IsFiniteSet(Live(lesson)) /\ IsFiniteSet(Live(level))
  <2>1. Live(lesson) \subseteq Lessons /\ Live(level) \subseteq Levels  BY DEF Live
  <2> QED  BY <2>1, FS_Subset DEF CurriculumTreeAssumption
<1>4. CASE ask[p].do = "allLessons"
  <2>1. PICK rows \in SetToSeqs(Live(lesson)) :
          Continue(p, [n \in DOMAIN rows |-> At("refresh", rows[n])], mem[p])
    BY <1>4 DEF Scan
  <2> DEFINE steps == [n \in DOMAIN rows |-> At("refresh", rows[n])]
  <2>2. IsSeq(steps)
    <3>1. Cardinality(Live(lesson)) \in Nat /\ DOMAIN rows = 1 .. Cardinality(Live(lesson))
      BY <1>2, <1>3, <2>1
    <3> QED  BY <3>1, Literal
  <2>3. \A n \in DOMAIN steps : steps[n].at \notin OrderSteps  BY DEF At, OrderSteps
  <2> HIDE DEF steps
  <2>4. Plain(steps)  BY <2>2, <2>3 DEF Plain
  <2> QED  BY <1>1, <2>1, <2>4, PlainContinues, QuietKeeps DEF IInv, steps
<1>5. CASE ask[p].do = "allLevels"
  <2>1. PICK rows \in SetToSeqs(Live(level)) :
          Continue(p, [n \in DOMAIN rows |-> At("worth", <<rows[n], level[rows[n]]>>)], mem[p])
    BY <1>5 DEF Scan
  <2> DEFINE steps == [n \in DOMAIN rows |-> At("worth", <<rows[n], level[rows[n]]>>)]
  <2>2. IsSeq(steps)
    <3>1. Cardinality(Live(level)) \in Nat /\ DOMAIN rows = 1 .. Cardinality(Live(level))
      BY <1>2, <1>3, <2>1
    <3> QED  BY <3>1, Literal
  <2>3. \A n \in DOMAIN steps : steps[n].at \notin OrderSteps  BY DEF At, OrderSteps
  <2> HIDE DEF steps
  <2>4. Plain(steps)  BY <2>2, <2>3 DEF Plain
  <2> QED  BY <1>1, <2>1, <2>4, PlainContinues, QuietKeeps DEF IInv, steps
<1> QED  BY <1>4, <1>5 DEF Scan

\* Counting again: reads, and saves of lessons, levels and grades.
LEMMA CountsKeep ==
    ASSUME IInv, NEW p \in Requests,
           \/ Refresh(p) \/ SetWorth(p) \/ ReadLesson(p)
           \/ ReadLevel(p) \/ SumLessons(p) \/ CountQuiz(p) \/ SaveLevel(p)
           \/ ReadGrade(p) \/ SumLevels(p) \/ SaveGrade(p)
    PROVE  IInv'
<1>1. UNCHANGED <<ask, item, draft, listed, unsaved>>
  BY DEF Refresh, SetWorth, ReadLesson, ReadLevel, SumLessons, CountQuiz, SaveLevel,
         ReadGrade, SumLevels, SaveGrade, tables
<1>2. Todos
  BY DEF IInv
<1>3. ASSUME NEW step, Does(p, step), step \notin OrderSteps,
             NEW steps, NEW held, Plain(steps), Continue(p, steps, held)
      PROVE  Todos'
  BY <1>1, <1>2, <1>3, PlainContinues
<1>4. CASE Refresh(p)
  <2>1. Does(p, "refresh") /\ (Continue(p, <<>>, mem[p]) \/ Continue(p, Recount(Row(p)), mem[p]))
    BY <1>4 DEF Refresh
  <2> QED  BY <1>1, <1>3, <2>1, PlainEmpty, PlainSteps, QuietKeeps DEF OrderSteps
<1>5. CASE SetWorth(p)
  <2>1. Does(p, "worth") /\ \E held : Continue(p, Resum(Row(p)[1]), held)
    BY <1>5 DEF SetWorth
  <2> QED  BY <1>1, <1>3, <2>1, PlainSteps, QuietKeeps DEF OrderSteps
<1>6. CASE ReadLesson(p)
  <2> DEFINE s == Row(p)
  <2>1. Does(p, "lesson") /\ (Stop(p, "refused")
          \/ Continue(p, Respread(s) \o Reload(lesson[s].level), Hold(p, "lesson", lesson[s])))
    BY <1>6 DEF ReadLesson
  <2>2. Plain(Respread(s) \o Reload(lesson[s].level))
    BY PlainSteps, PlainConcatenation
  <2>3. Todos'
    <3>1. CASE Stop(p, "refused")  BY <1>1, <1>2, <3>1, StopFits
    <3>2. CASE ~Stop(p, "refused")  BY <1>3, <2>1, <2>2, <3>2 DEF OrderSteps
    <3> QED  BY <3>1, <3>2
  <2> QED  BY <1>1, <2>3, QuietKeeps
<1>7. CASE ReadLevel(p) \/ SumLessons(p) \/ CountQuiz(p) \/ ReadGrade(p) \/ SumLevels(p)
           \/ SaveGrade(p)
  <2>1. \E step \in {"level", "sum", "quiz", "grade", "sumGrade", "saveGrade"} :
          Does(p, step) /\ \E held : Continue(p, <<>>, held)
    <3>1. CASE ReadLevel(p)  BY <3>1 DEF ReadLevel
    <3>2. CASE SumLessons(p)  BY <3>2 DEF SumLessons
    <3>3. CASE CountQuiz(p)  BY <3>3 DEF CountQuiz
    <3>4. CASE ReadGrade(p)  BY <3>4 DEF ReadGrade
    <3>5. CASE SumLevels(p)  BY <3>5 DEF SumLevels
    <3>6. CASE SaveGrade(p)  BY <3>6 DEF SaveGrade
    <3> QED  BY <1>7, <3>1, <3>2, <3>3, <3>4, <3>5, <3>6
  <2> QED  BY <1>1, <1>3, <2>1, PlainEmpty, QuietKeeps DEF OrderSteps
<1>8. CASE SaveLevel(p)
  <2>1. Does(p, "saveLevel") /\ Continue(p, Regrade(mem[p].level.grade), mem[p])
    BY <1>8 DEF SaveLevel
  <2> QED  BY <1>1, <1>3, <2>1, PlainSteps, QuietKeeps DEF OrderSteps
<1> QED  BY <1>4, <1>5, <1>6, <1>7, <1>8

\* Saves are sent that nobody waits for, by a request that reorders nothing.
LEMMA SendsKeep ==
    ASSUME IInv, NEW p \in Requests, CountKind(p) \/ SpreadRest(p)
    PROVE  IInv'
<1>1. UNCHANGED <<ask, item, draft, listed>>
  BY DEF CountKind, SpreadRest, tables
<1>2. \E step \in {"count", "last"} : Does(p, step) /\ \E held : Continue(p, <<>>, held)
  <2>1. CASE CountKind(p)  BY <2>1 DEF CountKind
  <2>2. CASE SpreadRest(p)  BY <2>2 DEF SpreadRest
  <2> QED  BY <2>1, <2>2
<1>3. Todos' /\ ask[p].do # "reorder"
  BY <1>1, <1>2, PlainEmpty, PlainContinues, AtStep DEF IInv, OrderSteps
<1>4. \A w \in unsaved' \ unsaved : w.by = p
  <2>1. CASE CountKind(p)  BY <2>1 DEF CountKind, ShareSaves
  <2>2. CASE SpreadRest(p)  BY <2>2 DEF SpreadRest
  <2> QED  BY <2>1, <2>2
<1> QED  BY <1>1, <1>3, <1>4, QuietKeeps

(***************************************************************************)
(* Steps that write items                                                  *)
(***************************************************************************)

\* Points are not orders: where only points change, and only of items no
\* reorder has placed, everything stays in its place.
LEMMA PointsKeep ==
    ASSUME IInv, UNCHANGED <<ask, draft, listed>>, Todos', Unsaved',
           DOMAIN item' = Items, item' = [i \in Items |-> item'[i]],
           \A i \in Items :
              \/ item'[i] = item[i]
              \/ /\ item[i] # None
                 /\ \E v : item'[i] = [item[i] EXCEPT !.points = v]
                 /\ \A q \in Requests : i \notin DOMAIN draft[q]
    PROVE  IInv'
<1>1. ASSUME NEW i \in Items, {"lesson", "order"} \subseteq DOMAIN item[i]
      PROVE  /\ {"lesson", "order"} \subseteq DOMAIN item'[i]
             /\ item'[i].lesson = item[i].lesson /\ item'[i].order = item[i].order
  BY <1>1
<1>2. Shaped'
  <2>1. item' \in [Items -> {item'[i] : i \in Items}]  OBVIOUS
  <2>2. ASSUME NEW i \in Items, item'[i] # None
        PROVE  {"lesson", "order"} \subseteq DOMAIN item'[i]
    <3>1. item[i] # None  BY <2>2
    <3> QED  BY <1>1, <3>1 DEF IInv, Shaped
  <2> QED  BY <2>1, <2>2 DEF Shaped
<1>3. Listed'
  BY <1>1 DEF IInv, Listed
<1>4. Drafted'
  <2>1. ASSUME NEW p \in Requests, NEW i \in DOMAIN draft[p] PROVE item'[i] = item[i]
    BY <2>1 DEF IInv, Drafted
  <2> QED  BY <2>1 DEF IInv, Drafted
<1> QED  BY <1>2, <1>3, <1>4 DEF IInv

\* A total is spread over the items of a kind that no one has locked.
LEMMA SpreadKeeps ==
    ASSUME IInv, NEW p \in Requests, Spread(p)
    PROVE  IInv'
<1> DEFINE items == ItemsOfKind(Row(p)[1], Row(p)[2])
<1>1. /\ Does(p, "spread") /\ Continue(p, <<>>, mem[p]) /\ Unlocked(p, items)
      /\ item' = [i \in Items |->
            IF i \in items THEN [item[i] EXCEPT !.points = Points(mem[p])] ELSE item[i]]
      /\ UNCHANGED <<ask, draft, listed, unsaved>>
  BY DEF Spread
<1>2. Todos' /\ ask[p].do # "reorder"
  BY <1>1, PlainEmpty, PlainContinues, AtStep DEF IInv, OrderSteps
<1>3. DOMAIN draft[p] = {}  BY <1>2 DEF IInv, Drafted
<1>4. ASSUME NEW i \in items PROVE item[i] # None /\ \A q \in Requests : i \notin DOMAIN draft[q]
  BY <1>1, <1>3 DEF Unlocked, ItemsOfKind, ItemsOf
<1>5. Unsaved'  BY <1>1 DEF IInv, Unsaved
<1> HIDE DEF items
<1> QED  BY <1>1, <1>2, <1>4, <1>5, PointsKeep

\* A save nobody waits for lands, or is lost.
LEMMA LandKeeps ==
    ASSUME IInv, NEW w \in unsaved, Land(w)
    PROVE  IInv'
<1>1. /\ UNCHANGED <<ask, draft, listed, todo>> /\ unsaved' \subseteq unsaved
  BY DEF Land
<1>2. Todos' /\ Unsaved'  BY <1>1 DEF IInv, Todos, Unsaved
<1>3. CASE item' = item  BY <1>1, <1>2, <1>3, QuietKeeps DEF IInv
<1>4. CASE item' # item
  <2>1. /\ Unlocked(w.by, {w.of}) /\ item[w.of] # None
        /\ item' = [item EXCEPT ![w.of].points = w.set]
    BY <1>4 DEF Land
  <2>2. \A q \in Requests : w.of \notin DOMAIN draft[q]
    <3>1. ask[w.by].do # "reorder"  BY DEF IInv, Unsaved
    <3> QED  BY <2>1, <3>1 DEF Unlocked, IInv, Drafted
  <2>3. /\ DOMAIN item' = Items /\ item' = [i \in Items |-> item'[i]]
        /\ \A i \in Items : item'[i] =
              IF i = w.of THEN [item[i] EXCEPT !.points = w.set] ELSE item[i]
    BY <2>1 DEF IInv, Shaped
  <2>4. ASSUME NEW i \in Items
        PROVE  \/ item'[i] = item[i]
               \/ /\ item[i] # None
                  /\ \E v : item'[i] = [item[i] EXCEPT !.points = v]
                  /\ \A q \in Requests : i \notin DOMAIN draft[q]
    BY <2>1, <2>2, <2>3
  <2> QED  BY <1>1, <1>2, <2>3, <2>4, PointsKeep
<1> QED  BY <1>3, <1>4

\* A save that is lost changes no item.
LEMMA LoseSaveKeeps ==
    ASSUME IInv, NEW w \in unsaved, LoseSave(w)
    PROVE  IInv'
<1>1. UNCHANGED <<ask, item, draft, listed, todo>> /\ unsaved' \subseteq unsaved
  BY DEF LoseSave, tables
<1>2. Todos'  BY <1>1 DEF IInv, Todos
<1> QED  BY <1>1, <1>2, QuietKeeps

\* An item is added, removed, moved or ordered by itself: it leaves its list,
\* and no reorder has placed it.
LEMMA WriteItemKeeps ==
    ASSUME IInv, NEW p \in Requests, WriteItem(p)
    PROVE  IInv'
<1> DEFINE a == ask[p]  i == a.item
<1>1. /\ Does(p, "write") /\ listed' = Unlisted(i)
      /\ UNCHANGED <<ask, draft, unsaved>>
  BY DEF WriteItem
<1>2. a \in AskRow /\ a.do # "reorder"
  BY <1>1, AtStep DEF IInv, OrderSteps
<1>3. Todos'
  <2>1. \E steps \in {<<>>, Recount(a.lesson), Recount(mem[p].row.lesson)} :
          Continue(p, steps, mem[p])
    BY DEF WriteItem
  <2>2. \A steps \in {<<>>, Recount(a.lesson), Recount(mem[p].row.lesson)} : Plain(steps)
    BY PlainEmpty, PlainSteps
  <2> QED  BY <1>1, <2>1, <2>2, PlainContinues DEF IInv, OrderSteps
<1>4. \A q \in Requests : i \notin DOMAIN draft[q]
  <2>1. DOMAIN draft[p] = {}  BY <1>2 DEF IInv, Drafted
  <2>2. item[i] = None \/ Unlocked(p, {i})  BY DEF WriteItem
  <2> QED  BY <2>1, <2>2 DEF Unlocked, IInv, Drafted
<1>5. /\ DOMAIN item' = Items /\ item' = [j \in Items |-> item'[j]]
      /\ \A j \in Items : j # i => item'[j] = item[j]
      /\ i \in Items /\ item'[i] # None => {"lesson", "order"} \subseteq DOMAIN item'[i]
  <2>1. CASE a.do = "addItem"
    <3>1. item' = [item EXCEPT ![i] = [lesson |-> a.lesson, order |-> a.n, points |-> 0]]
      BY <2>1 DEF WriteItem
    <3> QED  BY <3>1 DEF IInv, Shaped
  <2>2. CASE a.do = "dropItem"
    <3>1. item' = [item EXCEPT ![i] = None]  BY <2>2 DEF WriteItem
    <3> QED  BY <3>1 DEF IInv, Shaped
  <2>3. CASE a.do = "editItem"
    <3>1. item' = IF item[i] = None THEN item
                  ELSE [item EXCEPT ![i].lesson = a.lesson, ![i].points = a.n]
      BY <2>3 DEF WriteItem
    <3> QED  BY <3>1 DEF IInv, Shaped
  <2>4. CASE a.do = "orderItem"
    <3>1. item' = item \/ (item[i] # None /\ item' = [item EXCEPT ![i].order = a.n])
      BY <2>4 DEF WriteItem
    <3> QED  BY <3>1 DEF IInv, Shaped
  <2> QED  BY <2>1, <2>2, <2>3, <2>4 DEF WriteItem
<1> HIDE DEF i
<1>6. Shaped'
  BY <1>5 DEF IInv, Shaped
<1>7. Unsaved'  BY <1>1 DEF IInv, Unsaved
<1>8. Drafted'
  <2>1. \A q \in Requests : \A j \in DOMAIN draft[q] : item'[j] = item[j]
    BY <1>4, <1>5 DEF IInv, Drafted
  <2> QED  BY <1>1, <2>1 DEF IInv, Drafted
<1>9. Listed'
  <2>1. /\ DOMAIN listed' = Lessons
        /\ \A s \in Lessons : DOMAIN listed'[s] = KindSet
        /\ \A s \in Lessons : \A k \in KindSet :
              /\ DOMAIN listed'[s][k] = DOMAIN listed[s][k]
              /\ \A n \in DOMAIN listed[s][k] :
                    listed'[s][k][n] = IF listed[s][k][n] = i THEN None ELSE listed[s][k][n]
    BY <1>1 DEF Unlisted
  <2>2. ASSUME NEW s \in Lessons, NEW k \in KindSet, NEW n \in DOMAIN listed'[s][k],
               listed'[s][k][n] # None
        PROVE  LET j == listed'[s][k][n]
               IN  /\ j \in Items /\ KindOf[j] = k
                   /\ {"lesson", "order"} \subseteq DOMAIN item'[j]
                   /\ item'[j].lesson = s /\ item'[j].order = n
    <3>1. n \in DOMAIN listed[s][k] /\ listed'[s][k][n] = listed[s][k][n] /\ listed[s][k][n] # i
      BY <2>1, <2>2
    <3> QED  BY <1>5, <2>2, <3>1 DEF IInv, Listed
  <2> QED  BY <2>1, <2>2 DEF Listed
<1> QED  BY <1>3, <1>6, <1>7, <1>8, <1>9 DEF IInv

(***************************************************************************)
(* A reorder                                                               *)
(***************************************************************************)

\* The list names each of its items once.
LEMMA ListingKeeps ==
    ASSUME IInv, NEW p \in Requests, CheckChild(p) \/ ListChildren(p)
    PROVE  IInv'
<1> DEFINE a == ask[p]
<1>1. UNCHANGED <<ask, item, draft, listed, unsaved>>
  BY DEF CheckChild, ListChildren, tables
<1>2. Todos  BY DEF IInv
<1>3. CASE Stop(p, "refused")  BY <1>1, <1>2, <1>3, StopFits, QuietKeeps
<1>4. CASE CheckChild(p) /\ ~Stop(p, "refused")
  <2>1. Does(p, "check") /\ Continue(p, <<>>, mem[p])  BY <1>4 DEF CheckChild
  <2> QED  BY <1>1, <1>2, <2>1, AtStep, PlainEmpty, ContinueFits, QuietKeeps
<1>5. CASE ListChildren(p) /\ ~Stop(p, "refused")
  <2> DEFINE places == [n \in DOMAIN a.list |-> At("place", <<a.list[n], n>>)]
             last == <<At("commit", None)>>
  <2>1. /\ Does(p, "list") /\ IsInjective(a.list)
        /\ Continue(p, places \o last, mem[p])
    BY <1>5 DEF ListChildren
  <2>2. a \in AskRow /\ a.do = "reorder" /\ todo[p] # <<>>
    BY <1>2, <2>1, AtStep DEF OrderSteps
  <2>3. \A n \in DOMAIN a.list : a.list[n] \in Items
    <3>1. a.list \in Seq(Items)  BY <2>2 DEF AskRow
    <3> QED  BY <3>1
  <2>4. AllFit(a, places \o last)
    <3>1. IsSeq(places)
      <4>1. a.list \in Seq(Items)  BY <2>2 DEF AskRow
      <4>2. Len(a.list) \in Nat /\ DOMAIN a.list = 1 .. Len(a.list)  BY <4>1
      <4> QED  BY <4>2, Literal
    <3>2. IsSeq(last)  BY DEF IsSeq
    <3>3. \A n \in DOMAIN places : Fits(a, places[n])
      BY <2>1, <2>2, <2>3 DEF Fits, At, OrderSteps
    <3>4. \A n \in DOMAIN last : Fits(a, last[n])
      BY <2>1, <2>2, <2>3 DEF Fits, At, OrderSteps
    <3> HIDE DEF places, last
    <3>5. AllFit(a, places) /\ AllFit(a, last)  BY <3>1, <3>2, <3>3, <3>4 DEF AllFit
    <3> QED  BY <3>5, FitConcatenation
  <2> HIDE DEF places, last
  <2>5. Todos'  BY <1>1, <1>2, <2>1, <2>2, <2>4, ContinueFits
  <2> QED  BY <1>1, <2>5, QuietKeeps
<1> QED  BY <1>3, <1>4, <1>5

\* A row is placed and locked, if it is still an item of the lesson.
LEMMA PlaceKeeps ==
    ASSUME IInv, NEW p \in Requests, Place(p)
    PROVE  IInv'
<1> DEFINE a == ask[p]  i == Row(p)[1]  n == Row(p)[2]
<1>1. /\ Does(p, "place") /\ Unlocked(p, {i}) /\ Continue(p, <<>>, mem[p])
      /\ UNCHANGED <<ask, item, listed, unsaved>>
      /\ draft' = IF i \in ItemsOfKind(a.lesson, a.kind)
                  THEN [draft EXCEPT ![p] = [j \in DOMAIN @ \cup {i} |-> IF j = i THEN n ELSE @[j]]]
                  ELSE draft
  BY DEF Place, tables
<1>2. Todos'  BY <1>1, AtStep, PlainEmpty, ContinueFits DEF IInv
<1>3. /\ a.do = "reorder" /\ IsInjective(a.list)
      /\ n \in DOMAIN a.list /\ a.list[n] = i /\ i \in Items
  BY <1>1, AtStep DEF IInv, Fits, OrderSteps, Row
<1>4. Shaped' /\ Unsaved' /\ Listed'
  BY <1>1 DEF IInv, Shaped, Unsaved, Listed
<1> HIDE DEF i, n
<1>5. Drafted'
  <2>1. CASE i \notin ItemsOfKind(a.lesson, a.kind)
    BY <1>1, <2>1 DEF IInv, Drafted
  <2>2. CASE i \in ItemsOfKind(a.lesson, a.kind)
    <3>1. item[i] # None /\ item[i].lesson = a.lesson /\ KindOf[i] = a.kind
      BY <2>2 DEF ItemsOfKind, ItemsOf
    <3>2. \A q \in Requests \ {p} : draft'[q] = draft[q] /\ i \notin DOMAIN draft[q]
      BY <1>1, <2>2 DEF IInv, Drafted, Unlocked
    <3>3. /\ draft' \in [Requests -> {draft'[q] : q \in Requests}]
          /\ DOMAIN draft'[p] = DOMAIN draft[p] \cup {i}
          /\ \A j \in DOMAIN draft'[p] : draft'[p][j] = IF j = i THEN n ELSE draft[p][j]
      BY <1>1, <2>2 DEF IInv, Drafted
    <3>4. ASSUME NEW q \in Requests, NEW j \in DOMAIN draft'[q]
          PROVE  /\ ask[q].do = "reorder"
                 /\ j \in Items /\ KindOf[j] = ask[q].kind
                 /\ item[j] # None /\ item[j].lesson = ask[q].lesson
                 /\ draft'[q][j] \in DOMAIN ask[q].list /\ ask[q].list[draft'[q][j]] = j
                 /\ IsInjective(ask[q].list)
                 /\ \A r \in Requests \ {q} : j \notin DOMAIN draft'[r]
      <4>1. CASE q = p /\ j = i  BY <1>3, <3>1, <3>2, <3>3, <4>1
      <4>2. CASE q = p /\ j # i  BY <3>2, <3>3, <4>2 DEF IInv, Drafted
      <4>3. CASE q # p
        <5>1. draft'[q] = draft[q] /\ i \notin DOMAIN draft[q]  BY <3>2, <4>3
        <5>2. \A r \in Requests \ {q} : j \notin DOMAIN draft'[r]
          BY <3>2, <3>3, <5>1 DEF IInv, Drafted
        <5> QED  BY <5>1, <5>2 DEF IInv, Drafted
      <4> QED  BY <4>1, <4>2, <4>3
    <3>5. UNCHANGED <<ask, item>>  BY <1>1
    <3> HIDE DEF a
    <3> QED  BY <3>3, <3>4, <3>5 DEF Drafted
  <2> QED  BY <2>1, <2>2
<1> QED  BY <1>2, <1>4, <1>5 DEF IInv

\* A transaction that writes nothing more: what it has placed is let go.
LEMMA DraftDropped ==
    ASSUME Drafted, NEW p \in Requests, draft' = [draft EXCEPT ![p] = NoDraft],
           UNCHANGED ask,
           \A q \in Requests \ {p} : \A i \in DOMAIN draft[q] : item'[i] = item[i]
    PROVE  Drafted'
<1>1. /\ draft' \in [Requests -> {draft'[q] : q \in Requests}]
      /\ DOMAIN draft'[p] = {} /\ \A q \in Requests \ {p} : draft'[q] = draft[q]
  BY DEF Drafted, NoDraft
<1> QED  BY <1>1 DEF Drafted

\* A request that fails lets go of what it has placed.
LEMMA FailuresKeep ==
    ASSUME IInv, NEW p \in Requests, Fail(p) \/ Deadlocked(p)
    PROVE  IInv'
<1>1. /\ UNCHANGED <<ask, item, listed, unsaved>> /\ Stop(p, "failed")
      /\ draft' = [draft EXCEPT ![p] = NoDraft]
  BY DEF Fail, Deadlocked, tables
<1>2. Todos'  BY <1>1, StopFits DEF IInv
<1>3. Drafted'  BY <1>1, DraftDropped DEF IInv
<1>4. Shaped' /\ Unsaved' /\ Listed'  BY <1>1 DEF IInv, Shaped, Unsaved, Listed
<1> QED  BY <1>2, <1>3, <1>4 DEF IInv

\* The orders are committed: the items of its list that it placed are in their
\* places, and every other list names other items.
LEMMA CommitOrderKeeps ==
    ASSUME IInv, NEW p \in Requests, CommitOrder(p)
    PROVE  IInv'
<1> DEFINE a == ask[p]  placed == DOMAIN draft[p]
           new == [n \in DOMAIN a.list |-> IF a.list[n] \in placed THEN a.list[n] ELSE None]
<1>1. /\ Does(p, "commit") /\ Continue(p, <<>>, mem[p])
      /\ item' = [i \in Items |-> IF i \in placed THEN [item[i] EXCEPT !.order = draft[p][i]]
                                  ELSE item[i]]
      /\ listed' = [listed EXCEPT ![a.lesson][a.kind] = new]
      /\ draft' = [draft EXCEPT ![p] = NoDraft]
      /\ UNCHANGED <<ask, unsaved>>
  BY DEF CommitOrder
<1>2. Todos'  BY <1>1, AtStep, PlainEmpty, ContinueFits DEF IInv
<1>3. ASSUME NEW i \in placed
      PROVE  /\ i \in Items /\ KindOf[i] = a.kind
             /\ {"lesson", "order"} \subseteq DOMAIN item[i] /\ item[i].lesson = a.lesson
             /\ draft[p][i] \in DOMAIN a.list /\ a.list[draft[p][i]] = i
             /\ IsInjective(a.list)
             /\ \A q \in Requests \ {p} : i \notin DOMAIN draft[q]
  BY DEF IInv, Drafted, Shaped
<1>4. ASSUME NEW i \in placed
      PROVE  /\ {"lesson", "order"} \subseteq DOMAIN item'[i]
             /\ item'[i].lesson = a.lesson /\ item'[i].order = draft[p][i]
  BY <1>1, <1>3
<1>5. \A i \in Items \ placed : item'[i] = item[i]  BY <1>1
<1>6. Shaped'
  <2>1. item' \in [Items -> {item'[i] : i \in Items}]  BY <1>1
  <2> QED  BY <1>4, <1>5, <2>1 DEF IInv, Shaped
<1>7. Unsaved'  BY <1>1 DEF IInv, Unsaved
<1>8. Drafted'
  <2>1. \A q \in Requests \ {p} : \A i \in DOMAIN draft[q] : item'[i] = item[i]
    BY <1>3, <1>5 DEF IInv, Drafted
  <2> QED  BY <1>1, <2>1, DraftDropped DEF IInv
<1>9. Listed'
  <2>1. DOMAIN listed = Lessons /\ \A s \in Lessons : DOMAIN listed[s] = KindSet
    BY DEF IInv, Listed
  <2> HIDE DEF new
  <2>2. /\ DOMAIN listed' = Lessons
        /\ \A s \in Lessons : DOMAIN listed'[s] = KindSet
        /\ \A s \in Lessons : \A k \in KindSet :
              listed'[s][k] = IF s = a.lesson /\ k = a.kind THEN new ELSE listed[s][k]
    BY <1>1, <2>1
  <2>3. ASSUME NEW s \in Lessons, NEW k \in KindSet, NEW n \in DOMAIN listed'[s][k],
               listed'[s][k][n] # None
        PROVE  LET j == listed'[s][k][n]
               IN  /\ j \in Items /\ KindOf[j] = k
                   /\ {"lesson", "order"} \subseteq DOMAIN item'[j]
                   /\ item'[j].lesson = s /\ item'[j].order = n
    <3> DEFINE j == listed'[s][k][n]
    <3>1. CASE s = a.lesson /\ k = a.kind
      <4>1. listed'[s][k] = new  BY <2>2, <3>1
      <4>2. n \in DOMAIN a.list /\ j = a.list[n] /\ j \in placed
        BY <2>3, <4>1 DEF new
      <4>3. draft[p][j] = n  BY <1>3, <4>2 DEF IsInjective
      <4> QED  BY <1>3, <1>4, <3>1, <4>2, <4>3
    <3>2. CASE ~(s = a.lesson /\ k = a.kind)
      <4>1. n \in DOMAIN listed[s][k] /\ j = listed[s][k][n]  BY <2>2, <2>3, <3>2
      <4>2. /\ j \in Items /\ KindOf[j] = k
            /\ {"lesson", "order"} \subseteq DOMAIN item[j]
            /\ item[j].lesson = s /\ item[j].order = n
        BY <2>3, <4>1 DEF IInv, Listed
      <4>3. j \notin placed  BY <1>3, <3>2, <4>2
      <4> QED  BY <1>5, <4>2, <4>3
    <3> QED  BY <3>1, <3>2
  <2> QED  BY <2>2, <2>3 DEF Listed
<1> QED  BY <1>2, <1>6, <1>7, <1>8, <1>9 DEF IInv

(***************************************************************************)
(* The theorem                                                             *)
(***************************************************************************)

\* The rows there may be are given; no request adds to them.
Given == ask \in Asks /\ DOMAIN lesson = Lessons /\ DOMAIN level = Levels

\* Nothing is placed or listed at first.
LEMMA InitIInv == CurriculumTreeAssumption /\ Init => IInv /\ Given
<1> SUFFICES ASSUME CurriculumTreeAssumption, Init PROVE IInv /\ Given  OBVIOUS
<1>1. PICK t \in Trees : level = t.level /\ lesson = t.lesson /\ item = t.item
  BY DEF Init
<1>2. /\ t.level \in [Levels -> LevelRow \cup {None}]
      /\ t.lesson \in [Lessons -> LessonRow \cup {None}]
      /\ t.item \in [Items -> ItemRow \cup {None}]
  BY DEF CurriculumTreeAssumption
<1>3. Given  BY <1>1, <1>2 DEF Given, Init
<1>4. Shaped
  <2>1. \A r \in ItemRow : {"lesson", "order"} \subseteq DOMAIN r  BY DEF ItemRow
  <2> QED  BY <1>1, <1>2, <2>1 DEF Shaped
<1>5. Todos  BY PlainEmpty DEF Init, Todos
<1>6. Unsaved /\ Drafted /\ Listed  BY DEF Init, Unsaved, Drafted, NoDraft, Listed
<1> QED  BY <1>3, <1>4, <1>5, <1>6 DEF IInv

\* No step changes what is asked or which rows there may be.
LEMMA NextGiven == Given /\ [Next]_vars => Given'
<1> SUFFICES ASSUME Given, [Next]_vars PROVE Given'  OBVIOUS
<1>1. ask' = ask /\ DOMAIN lesson' = DOMAIN lesson /\ DOMAIN level' = DOMAIN level
  <2>1. CASE UNCHANGED vars  BY <2>1 DEF vars, tables
  <2>2. ASSUME NEW p \in Requests, Begin(p) \/ ReadRow(p) \/ WriteItem(p)
        PROVE  UNCHANGED <<ask, lesson, level>>
    BY <2>2 DEF Begin, ReadRow, WriteItem, tables
  <2>3. ASSUME NEW p \in Requests, WriteLesson(p)
        PROVE  ask' = ask /\ DOMAIN lesson' = DOMAIN lesson /\ level' = level
    BY <2>3 DEF WriteLesson
  <2>4. ASSUME NEW p \in Requests, WriteLevel(p)
        PROVE  ask' = ask /\ lesson' = lesson /\ DOMAIN level' = DOMAIN level
    BY <2>4 DEF WriteLevel
  <2>5. ASSUME NEW p \in Requests, WriteQuestion(p) \/ Scan(p)
        PROVE  UNCHANGED <<ask, lesson, level>>
    BY <2>5 DEF WriteQuestion, Scan, tables
  <2>6. ASSUME NEW p \in Requests, Refresh(p) \/ SetWorth(p) \/ SaveLevel(p)
        PROVE  ask' = ask /\ DOMAIN lesson' = DOMAIN lesson /\ DOMAIN level' = DOMAIN level
    BY <2>6 DEF Refresh, SetWorth, SaveLevel
  <2>7. ASSUME NEW p \in Requests,
               \/ ReadLesson(p) \/ CountKind(p) \/ Spread(p) \/ SpreadRest(p)
               \/ ReadLevel(p) \/ SumLessons(p) \/ CountQuiz(p)
               \/ ReadGrade(p) \/ SumLevels(p) \/ SaveGrade(p)
        PROVE  UNCHANGED <<ask, lesson, level>>
    BY <2>7 DEF ReadLesson, CountKind, Spread, SpreadRest, ReadLevel, SumLessons,
               CountQuiz, ReadGrade, SumLevels, SaveGrade, tables
  <2>8. ASSUME NEW p \in Requests,
               \/ CheckChild(p) \/ ListChildren(p) \/ Place(p) \/ CommitOrder(p)
               \/ Deadlocked(p) \/ Fail(p)
        PROVE  UNCHANGED <<ask, lesson, level>>
    BY <2>8 DEF CheckChild, ListChildren, Place, CommitOrder, Deadlocked, Fail, tables
  <2>9. ASSUME NEW w \in unsaved, Land(w) \/ LoseSave(w)
        PROVE  ask' = ask /\ DOMAIN lesson' = DOMAIN lesson /\ level' = level
    BY <2>9 DEF Land, LoseSave, tables
  <2> QED  BY <2>1, <2>2, <2>3, <2>4, <2>5, <2>6, <2>7, <2>8, <2>9 DEF Next
<1> QED  BY <1>1 DEF Given

\* Every step keeps the invariant.
LEMMA NextIInv ==
    CurriculumTreeAssumption /\ Given /\ IInv /\ [Next]_vars => IInv'
<1> SUFFICES ASSUME CurriculumTreeAssumption, Given, IInv, [Next]_vars PROVE IInv'
  OBVIOUS
<1>1. CASE UNCHANGED vars
  <2>1. UNCHANGED <<ask, item, draft, listed, todo, unsaved>>  BY <1>1 DEF vars, tables
  <2>2. Todos'  BY <2>1 DEF IInv, Todos
  <2> QED  BY <2>1, <2>2, QuietKeeps
<1>2. ASSUME NEW p \in Requests, Begin(p) \/ ReadRow(p) PROVE IInv'
  BY <1>2, BeginKeeps, ReadRowKeeps DEF Given
<1>3. ASSUME NEW p \in Requests,
             WriteItem(p) \/ WriteLesson(p) \/ WriteLevel(p) \/ WriteQuestion(p)
      PROVE  IInv'
  BY <1>3, WriteItemKeeps, WritesKeep
<1>4. ASSUME NEW p \in Requests,
             \/ Scan(p) \/ Refresh(p) \/ SetWorth(p)
             \/ ReadLesson(p) \/ CountKind(p) \/ Spread(p) \/ SpreadRest(p)
             \/ ReadLevel(p) \/ SumLessons(p) \/ CountQuiz(p) \/ SaveLevel(p)
             \/ ReadGrade(p) \/ SumLevels(p) \/ SaveGrade(p)
      PROVE  IInv'
  BY <1>4, ScanKeeps, CountsKeep, SendsKeep, SpreadKeeps DEF Given
<1>5. ASSUME NEW p \in Requests,
             \/ CheckChild(p) \/ ListChildren(p) \/ Place(p) \/ CommitOrder(p)
             \/ Deadlocked(p) \/ Fail(p)
      PROVE  IInv'
  BY <1>5, ListingKeeps, PlaceKeeps, CommitOrderKeeps, FailuresKeep
<1>6. ASSUME NEW w \in unsaved, Land(w) \/ LoseSave(w) PROVE IInv'
  BY <1>6, LandKeeps, LoseSaveKeeps
<1> QED  BY <1>1, <1>2, <1>3, <1>4, <1>5, <1>6 DEF Next

\* The inductive invariant holds in every reachable state.
THEOREM OrderInvariance == Spec => [](IInv /\ Given)
<1>1. Init => IInv /\ Given  BY InitIInv, CurriculumTreeAssumed
<1>2. IInv /\ Given /\ [Next]_vars => IInv' /\ Given'
  BY NextIInv, NextGiven, CurriculumTreeAssumed
<1> QED  BY <1>1, <1>2, PTL DEF Spec

\* Reorders of the same items that overlap end as one of them, whatever else
\* moves, removes, orders or counts those items meanwhile (reorderChildren).
THEOREM ReordersDoNotMix == Spec => []ListsAreNotMixed
<1>1. IInv => ListsAreNotMixed
  BY DEF IInv, Listed, ListsAreNotMixed
<1> QED  BY <1>1, OrderInvariance, PTL

(***************************************************************************)
(* Sums                                                                    *)
(***************************************************************************)

\* The sum of f over S, and the function it is read from.
Part(f, S) == SumFunctionOnSet(f, S)
OneOf(S) == CHOOSE x \in S : TRUE
Adds(f, g, S) ==
    g = [T \in SUBSET S |-> IF T = {} THEN 0 ELSE f[OneOf(T)] + g[T \ {OneOf(T)}]]

\* Among subsets of a finite set there is one with no smaller one below it.
LEMMA SmallestSet ==
    ASSUME NEW S, IsFiniteSet(S), NEW B, B \subseteq SUBSET S, B # {}
    PROVE  \E T \in B : \A U \in B : U \subseteq T => U = T
<1>1. IsWellFoundedOn(StrictSubsetOrdering(S), SUBSET S)
  BY FS_StrictSubsetOrderingWellFounded, FS_FiniteSubsetsOfFinite
<1>2. PICK T \in B : \A U \in B : ~(<<U, T>> \in StrictSubsetOrdering(S))
  BY <1>1, WFMin
<1>3. ASSUME NEW U \in B, U \subseteq T PROVE U = T
  <2>1. <<U, T>> \in (SUBSET S) \X (SUBSET S)  OBVIOUS
  <2> QED  BY <1>2, <1>3, <2>1 DEF StrictSubsetOrdering
<1> QED  BY <1>2, <1>3

\* Some element of a set that has one.
LEMMA OneOfIn == \A S : S # {} => OneOf(S) \in S
BY DEF OneOf

\* Two such functions agree on a set where what they add up agrees.
LEMMA AddsAgree ==
    ASSUME NEW S, NEW T, NEW f, NEW e, NEW g, NEW h, Adds(f, g, S), Adds(e, h, T),
           NEW V, V \subseteq S, V \subseteq T, IsFiniteSet(V), \A x \in V : f[x] = e[x]
    PROVE  g[V] = h[V]
<1> DEFINE B == { U \in SUBSET V : g[U] # h[U] }
<1> SUFFICES ASSUME B # {} PROVE FALSE  OBVIOUS
<1>1. PICK U \in B : \A W \in B : W \subseteq U => W = U
  <2>1. B \subseteq SUBSET V  OBVIOUS
  <2> HIDE DEF B
  <2> QED  BY <2>1, SmallestSet
<1>2. U \in SUBSET S /\ U \in SUBSET T  OBVIOUS
<1>3. /\ g[U] = IF U = {} THEN 0 ELSE f[OneOf(U)] + g[U \ {OneOf(U)}]
      /\ h[U] = IF U = {} THEN 0 ELSE e[OneOf(U)] + h[U \ {OneOf(U)}]
  BY <1>2 DEF Adds
<1>4. U # {}  BY <1>3
<1>5. OneOf(U) \in U  BY <1>4, OneOfIn
<1> DEFINE W == U \ {OneOf(U)}
<1>6. W \in SUBSET V /\ W \subseteq U /\ W # U  BY <1>5
<1>7. W \notin B  BY <1>1, <1>6
<1>8. g[W] = h[W]  BY <1>6, <1>7
<1>9. f[OneOf(U)] = e[OneOf(U)]  BY <1>5
<1> QED  BY <1>1, <1>3, <1>4, <1>8, <1>9

\* There is such a function.
LEMMA AddsExists ==
    ASSUME NEW S, IsFiniteSet(S), NEW f
    PROVE  \E g : Adds(f, g, S)
<1> DEFINE B == { T \in SUBSET S : ~ \E g : Adds(f, g, T) }
<1> SUFFICES ASSUME B # {} PROVE FALSE  OBVIOUS
<1>1. PICK T \in B : \A U \in B : U \subseteq T => U = T
  <2>1. B \subseteq SUBSET S  OBVIOUS
  <2> HIDE DEF B
  <2> QED  BY <2>1, SmallestSet
<1> DEFINE of(U) == CHOOSE h : Adds(f, h, U)
<1>2. ASSUME NEW U \in SUBSET T, U # T PROVE Adds(f, of(U), U)
  <2>1. U \notin B  BY <1>1, <1>2
  <2>2. \E g : Adds(f, g, U)  BY <2>1
  <2> QED  BY <2>2
<1> HIDE DEF of
<1>3. ASSUME NEW U \in SUBSET T, U # T, NEW V \in SUBSET U PROVE of(U)[V] = of(V)[V]
  <2>1. V \in SUBSET T /\ V # T  BY <1>3
  <2>2. IsFiniteSet(V)  BY FS_Subset
  <2> QED  BY <1>2, <1>3, <2>1, <2>2, AddsAgree
<1> DEFINE g == [U \in SUBSET T |->
                    IF U = {} THEN 0
                    ELSE f[OneOf(U)] + of(U \ {OneOf(U)})[U \ {OneOf(U)}]]
<1>4. ASSUME NEW U \in SUBSET T, U # T PROVE g[U] = of(U)[U]
  <2>1. of(U)[U] = IF U = {} THEN 0 ELSE f[OneOf(U)] + of(U)[U \ {OneOf(U)}]
    <3>1. Adds(f, of(U), U)  BY <1>2, <1>4
    <3> QED  BY <3>1 DEF Adds
  <2>2. U \ {OneOf(U)} \in SUBSET U  OBVIOUS
  <2>3. of(U)[U \ {OneOf(U)}] = of(U \ {OneOf(U)})[U \ {OneOf(U)}]
    BY <1>3, <1>4, <2>2
  <2> QED  BY <2>1, <2>3
<1>5. ASSUME NEW U \in SUBSET T
      PROVE  g[U] = IF U = {} THEN 0 ELSE f[OneOf(U)] + g[U \ {OneOf(U)}]
  <2>1. CASE U = {}  BY <2>1
  <2>2. CASE U # {}
    <3>1. OneOf(U) \in U  BY <2>2, OneOfIn
    <3>2. U \ {OneOf(U)} \in SUBSET T /\ U \ {OneOf(U)} # T  BY <3>1
    <3>3. g[U \ {OneOf(U)}] = of(U \ {OneOf(U)})[U \ {OneOf(U)}]  BY <1>4, <3>2
    <3> QED  BY <2>2, <3>3
  <2> QED  BY <2>1, <2>2
<1>6. Adds(f, g, T)
  <2> DEFINE k == [U \in SUBSET T |-> IF U = {} THEN 0 ELSE f[OneOf(U)] + g[U \ {OneOf(U)}]]
  <2>1. DOMAIN g = SUBSET T /\ DOMAIN k = SUBSET T  OBVIOUS
  <2>2. \A U \in SUBSET T : g[U] = k[U]  BY <1>5
  <2>3. g = [U \in SUBSET T |-> g[U]] /\ k = [U \in SUBSET T |-> k[U]]  OBVIOUS
  <2> HIDE DEF g, k
  <2>4. g = k  BY <2>2, <2>3
  <2> QED  BY <2>4 DEF Adds, k
<1> QED  BY <1>1, <1>6

\* The sum is the value of such a function.
LEMMA PartAdds ==
    ASSUME NEW S, IsFiniteSet(S), NEW f
    PROVE  \E g : Adds(f, g, S) /\ Part(f, S) = g[S]
<1> DEFINE g == CHOOSE h : Adds(f, h, S)
<1>1. Adds(f, g, S)  BY AddsExists
<1>2. Part(f, S) = g[S]
  BY DEF Part, SumFunctionOnSet, FoldFunctionOnSet, MapThenFoldSet, Adds, OneOf
<1> QED  BY <1>1, <1>2

\* Functions that agree have the same sum.
LEMMA PartAgrees ==
    ASSUME NEW S, IsFiniteSet(S), NEW f, NEW e, \A x \in S : f[x] = e[x]
    PROVE  Part(f, S) = Part(e, S)
<1>1. PICK g : Adds(f, g, S) /\ Part(f, S) = g[S]  BY PartAdds
<1>2. PICK h : Adds(e, h, S) /\ Part(e, S) = h[S]  BY PartAdds
<1> QED  BY <1>1, <1>2, AddsAgree

\* Nothing sums to 0; what is left without one element is added to it.
LEMMA PartUnfolds ==
    ASSUME NEW S, IsFiniteSet(S), NEW f
    PROVE  Part(f, S) = IF S = {} THEN 0 ELSE f[OneOf(S)] + Part(f, S \ {OneOf(S)})
<1> DEFINE T == S \ {OneOf(S)}
<1>1. PICK g : Adds(f, g, S) /\ Part(f, S) = g[S]  BY PartAdds
<1>2. IsFiniteSet(T)  BY FS_Subset
<1>3. PICK h : Adds(f, h, T) /\ Part(f, T) = h[T]  BY <1>2, PartAdds
<1>4. g[T] = h[T]  BY <1>1, <1>2, <1>3, AddsAgree
<1>5. g[S] = IF S = {} THEN 0 ELSE f[OneOf(S)] + g[T]  BY <1>1 DEF Adds
<1> QED  BY <1>1, <1>3, <1>4, <1>5

\* A sum of naturals is one.
LEMMA PartNat ==
    ASSUME NEW S, IsFiniteSet(S), NEW f, \A x \in S : f[x] \in Nat
    PROVE  Part(f, S) \in Nat
<1> DEFINE B == { T \in SUBSET S : Part(f, T) \notin Nat }
<1> SUFFICES ASSUME B # {} PROVE FALSE  OBVIOUS
<1>1. PICK T \in B : \A U \in B : U \subseteq T => U = T
  <2>1. B \subseteq SUBSET S  OBVIOUS
  <2> HIDE DEF B
  <2> QED  BY <2>1, SmallestSet
<1>2. IsFiniteSet(T)  BY FS_Subset
<1>3. Part(f, T) = IF T = {} THEN 0 ELSE f[OneOf(T)] + Part(f, T \ {OneOf(T)})
  BY <1>2, PartUnfolds
<1>4. T # {}  BY <1>3
<1>5. OneOf(T) \in T  BY <1>4, OneOfIn
<1>6. T \ {OneOf(T)} \notin B  BY <1>1, <1>5
<1>7. Part(f, T \ {OneOf(T)}) \in Nat  BY <1>6
<1>8. f[OneOf(T)] \in Nat  BY <1>5
<1> QED  BY <1>3, <1>4, <1>7, <1>8

\* Any element may be the one.
LEMMA PartWithout ==
    ASSUME NEW S, IsFiniteSet(S), NEW f, \A x \in S : f[x] \in Nat, NEW x \in S
    PROVE  Part(f, S) = f[x] + Part(f, S \ {x})
<1> DEFINE Bad(T) == \E y \in T : Part(f, T) # f[y] + Part(f, T \ {y})
           B == { T \in SUBSET S : Bad(T) }
<1> SUFFICES ASSUME B # {} PROVE FALSE  OBVIOUS
<1>1. PICK T \in B : \A U \in B : U \subseteq T => U = T
  <2>1. B \subseteq SUBSET S  OBVIOUS
  <2> HIDE DEF B
  <2> QED  BY <2>1, SmallestSet
<1>2. PICK y \in T : Part(f, T) # f[y] + Part(f, T \ {y})  OBVIOUS
<1> DEFINE c == OneOf(T)  R == (T \ {c}) \ {y}
<1>3. c \in T  BY <1>2, OneOfIn
<1>4. IsFiniteSet(T) /\ IsFiniteSet(R)  BY FS_Subset
<1>5. Part(f, T) = f[c] + Part(f, T \ {c})  BY <1>3, <1>4, PartUnfolds
<1>6. y # c  BY <1>2, <1>5
<1> HIDE DEF c
<1>7. T \ {c} \notin B /\ T \ {y} \notin B  BY <1>1, <1>2, <1>3
<1>8. Part(f, T \ {c}) = f[y] + Part(f, R)  BY <1>2, <1>6, <1>7
<1>9. (T \ {y}) \ {c} = R  OBVIOUS
<1>10. Part(f, T \ {y}) = f[c] + Part(f, R)  BY <1>3, <1>6, <1>7, <1>9
<1>11. f[c] \in Nat /\ f[y] \in Nat  BY <1>2, <1>3
<1>12. Part(f, R) \in Nat  BY <1>4, PartNat
<1> HIDE DEF R
<1> QED  BY <1>2, <1>5, <1>8, <1>10, <1>11, <1>12

(***************************************************************************)
(* Types: what is left of a request and what it holds                      *)
(***************************************************************************)

\* The rows of a table that are there.
There(table) == { x \in DOMAIN table : table[x] # None }

\* A level in hand: a new one's points are not known.
LevelInHand == [grade : Grades, on : BOOLEAN, deleted : BOOLEAN, worth : Nat,
                points : Nat \cup {None}]

\* What a request holds is of these types.
MemRow == [row : ItemRow \cup LessonRow \cup LevelRow \cup QuestionRow \cup {None},
           lesson : LessonRow \cup {None}, count : [KindSet -> Nat],
           level : LevelInHand \cup {None}, sum : Nat \cup {None}, grade : Nat]

OfItem     == {"dropItem", "editItem", "orderItem"}
OfLesson   == {"editLesson", "dropLesson", "switchLesson"}
OfLevel    == {"editLevel", "dropLevel", "switchLevel"}
OfQuestion == {"dropQuestion", "switchQuestion"}

\* The step that comes right before one, of the same row.
Prior == [write |-> "read", sum |-> "level", quiz |-> "sum", saveLevel |-> "quiz",
          sumGrade |-> "grade", saveGrade |-> "sumGrade"]

\* A step that may come before another in what is left of a request.
Follows(a, b) ==
    /\ b.at \in DOMAIN Prior => a = At(Prior[b.at], b.of)
    /\ b.at = "count" =>
          \E n \in 1 .. 2 : a = At("count", <<b.of[1], Kinds[n]>>) /\ b.of[2] = Kinds[n + 1]
    /\ b.at = "spread" =>
          \/ a = At("count", <<b.of[1], Kinds[3]>>) /\ b.of[2] = Kinds[1]
          \/ \E n \in 1 .. 2 : a = At("spread", <<b.of[1], Kinds[n]>>) /\ b.of[2] = Kinds[n + 1]
    /\ b.at = "last" => a = At("spread", <<b.of, Kinds[3]>>)
    /\ b.at \notin {"read", "scan"}

Chain(steps) == \A n \in DOMAIN steps : n > 1 => Follows(steps[n - 1], steps[n])

\* A step of the request a is about a row that is there: of lessons ss, levels ls.
Apt(a, step, ss, ls) ==
    /\ step.at = "read" => a.do \in OfItem \cup OfLesson \cup OfLevel \cup OfQuestion
    /\ step.at \in {"lesson", "refresh", "last"} => step.of \in ss
    /\ step.at \in {"count", "spread"} => step.of \in ss \X KindSet
    /\ step.at \in {"level", "sum", "quiz", "saveLevel"} => step.of \in ls
    /\ step.at \in {"grade", "sumGrade", "saveGrade"} => step.of \in Grades
    /\ step.at = "worth" => step.of \in ls \X LevelRow

Sound(a, steps, ss, ls) ==
    IsSeq(steps) /\ Chain(steps) /\ \A n \in DOMAIN steps : Apt(a, steps[n], ss, ls)

Steps == \A p \in Requests : Sound(ask[p], todo[p], There(lesson), There(level))

\* The row that is to be written was read, and what it hangs from is there.
RowInHand(a, row, ss, ls) ==
    /\ a.do \in OfItem => row \in ItemRow /\ row.lesson \in ss
    /\ a.do \in OfLesson => row \in LessonRow /\ row.level \in ls /\ a.lesson \in ss
    /\ a.do \in OfLevel => row \in LevelRow /\ a.level \in ls
    /\ a.do \in OfQuestion => row \in QuestionRow /\ row.level \in ls

\* What a request holds at a step.
HoldsAt(a, at, held, ss, ls) ==
    /\ at = "write" => RowInHand(a, held.row, ss, ls)
    /\ at \in {"count", "spread", "last"} => held.lesson \in LessonRow
    /\ at \in {"sum", "quiz", "saveLevel"} => held.level \in LevelInHand
    /\ at \in {"quiz", "saveLevel"} => held.sum \in Nat

InHand ==
    /\ mem \in [Requests -> MemRow]
    /\ \A p \in Requests : todo[p] # <<>> =>
          HoldsAt(ask[p], Head(todo[p]).at, mem[p], There(lesson), There(level))

\* A save that is not awaited is of a row and of what its columns take.
SavesTyped ==
    \A w \in unsaved :
        /\ w.at \in {"item", "lesson"} /\ w.by \in Requests
        /\ w.at = "item" => w.of \in Items /\ w.set \in Nat
        /\ w.at = "lesson" =>
              /\ w.of \in There(lesson)
              /\ \A c \in DOMAIN w.set : c \in Columns /\ w.set[c] \in Nat

\* The tables have their rows.
Tabled ==
    /\ grade \in [Grades -> Nat]
    /\ level \in [Levels -> LevelRow \cup {None}]
    /\ lesson \in [Lessons -> LessonRow \cup {None}]
    /\ item \in [Items -> ItemRow \cup {None}]
    /\ question \in [Questions -> QuestionRow \cup {None}]

\* Foreign keys, of the rows and of what is asked.
Rooted ==
    /\ \A i \in There(item) : item[i].lesson \in There(lesson)
    /\ \A s \in There(lesson) : lesson[s].level \in There(level)
    /\ \A x \in There(question) : question[x].level \in There(level)
    /\ \A p \in Requests : ask[p] # None =>
          /\ "lesson" \in Under(ask[p].do) => ask[p].lesson \in There(lesson)
          /\ "level" \in Under(ask[p].do) => ask[p].level \in There(level)

\* A request runs while it has steps left.
Running ==
    /\ status \in [Requests -> {"idle", "running", "done", "refused", "failed"}]
    /\ \A p \in Requests : status[p] = "running" <=> todo[p] # <<>>

Tallied == failures \in 0 .. MaxFailures /\ clean \in [Requests -> BOOLEAN]

Going == Steps /\ InHand /\ Running
TInv == Tabled /\ Rooted /\ Going /\ SavesTyped /\ Tallied

\* A step that needs no other right before it.
Open(step) == step.at \notin DOMAIN Prior \cup {"count", "spread", "last", "read", "scan"}

\* A step after which comes an open one.
Closing == {"write", "scan", "refresh", "worth", "lesson", "saveLevel", "saveGrade", "last",
            "check", "list", "place", "commit"}

\* The rows that are there stay.
Stay == There(lesson) \subseteq There(lesson)' /\ There(level) \subseteq There(level)'

(***************************************************************************)
(* Chains of steps, and how a request goes on along them                   *)
(***************************************************************************)

\* An open step follows any; after a closing one comes an open one.
LEMMA OpenFollows ==
    /\ \A a, b : Open(b) => Follows(a, b)
    /\ \A a, b : Follows(a, b) /\ a.at \in Closing => Open(b)
BY DEF Open, Follows, Prior, Closing, At

\* The step that is right before one that needs it.
LEMMA FollowsAt ==
    ASSUME NEW a, NEW b, Follows(a, b)
    PROVE  /\ b.at = "write" => a.at = "read"
           /\ b.at = "sum" => a.at = "level"
           /\ b.at = "quiz" => a.at = "sum"
           /\ b.at = "saveLevel" => a.at = "quiz"
           /\ b.at = "count" => a.at = "count"
           /\ b.at = "spread" => a.at \in {"count", "spread"}
           /\ b.at = "last" => a.at = "spread"
BY DEF Follows, Prior, At

\* One chain after another, if the second begins with an open step.
LEMMA JoinChains ==
    ASSUME NEW a, NEW b, IsSeq(a), IsSeq(b), Chain(a), Chain(b), b # <<>> => Open(b[1])
    PROVE  Chain(a \o b)
<1> DEFINE A == { a[n] : n \in DOMAIN a }  B == { b[n] : n \in DOMAIN b }  c == a \o b
<1>1. a \in Seq(A) /\ b \in Seq(B)  BY DEF IsSeq
<1>2. a \in Seq(A \cup B) /\ b \in Seq(A \cup B)  BY <1>1
<1>3. /\ Len(c) = Len(a) + Len(b) /\ Len(a) \in Nat /\ Len(b) \in Nat
      /\ DOMAIN c = 1 .. Len(a) + Len(b) /\ DOMAIN a = 1 .. Len(a) /\ DOMAIN b = 1 .. Len(b)
      /\ \A n \in 1 .. Len(a) + Len(b) : c[n] = IF n <= Len(a) THEN a[n] ELSE b[n - Len(a)]
  BY <1>2
<1> HIDE DEF c
<1>4. ASSUME NEW n \in DOMAIN c, n > 1 PROVE Follows(c[n - 1], c[n])
  <2>0. n \in Nat /\ n <= Len(a) + Len(b)  BY <1>3, <1>4
  <2>1. CASE n <= Len(a)
    <3>1. n \in DOMAIN a /\ c[n] = a[n] /\ c[n - 1] = a[n - 1]  BY <1>3, <1>4, <2>0, <2>1
    <3> QED  BY <1>4, <3>1 DEF Chain
  <2>2. CASE n = Len(a) + 1
    <3>1. c[n] = b[1] /\ Len(b) # 0  BY <1>3, <2>0, <2>2
    <3>2. b # <<>>  BY <3>1
    <3> QED  BY <3>1, <3>2, OpenFollows
  <2>3. CASE n > Len(a) + 1
    <3>1. /\ n - Len(a) \in DOMAIN b /\ n - Len(a) > 1
          /\ c[n] = b[n - Len(a)] /\ c[n - 1] = b[(n - Len(a)) - 1]
      BY <1>3, <1>4, <2>0, <2>3
    <3> QED  BY <3>1 DEF Chain
  <2> QED  BY <1>3, <2>0, <2>1, <2>2, <2>3
<1>5. Chain(c)  BY <1>4 DEF Chain
<1> QED  BY <1>5 DEF c

\* What comes after the step at hand.
LEMMA RestChain ==
    ASSUME NEW s, IsSeq(s), s # <<>>, Chain(s)
    PROVE  /\ IsSeq(Tail(s)) /\ Chain(Tail(s))
           /\ Tail(s) # <<>> => Head(Tail(s)) = Tail(s)[1] /\ Follows(Head(s), Tail(s)[1])
<1> DEFINE S == { s[n] : n \in DOMAIN s }  t == Tail(s)
<1>1. s \in Seq(S)  BY DEF IsSeq
<1>2. /\ Len(s) \in Nat /\ Len(s) > 0 /\ DOMAIN s = 1 .. Len(s)
      /\ t \in Seq(S) /\ Len(t) = Len(s) - 1 /\ DOMAIN t = 1 .. Len(s) - 1
      /\ \A n \in 1 .. Len(s) - 1 : t[n] = s[n + 1]
      /\ Head(s) = s[1]
  BY <1>1
<1>3. IsSeq(t)  BY Rest
<1>5. ASSUME t # <<>> PROVE Head(t) = t[1] /\ Follows(Head(s), t[1])
  <2>1. Len(t) # 0  BY <1>2, <1>5
  <2>2. 2 \in DOMAIN s /\ t[1] = s[2] /\ Head(s) = s[2 - 1] /\ Head(t) = t[1]
    BY <1>2, <2>1
  <2> QED  BY <2>2 DEF Chain
<1> HIDE DEF t
<1>4. ASSUME NEW n \in DOMAIN t, n > 1 PROVE Follows(t[n - 1], t[n])
  <2>0. n \in 1 .. Len(s) - 1 /\ n - 1 \in 1 .. Len(s) - 1 /\ (n + 1) - 1 = n /\ (n - 1) + 1 = n
    BY <1>2, <1>4
  <2>1. n + 1 \in DOMAIN s /\ t[n] = s[n + 1] /\ t[n - 1] = s[n] /\ n + 1 > 1
    BY <1>2, <2>0
  <2>2. Follows(s[(n + 1) - 1], s[n + 1])  BY <2>1 DEF Chain
  <2> QED  BY <2>0, <2>1, <2>2
<1> QED  BY <1>3, <1>4, <1>5 DEF Chain, t

\* Nothing before a sequence is the sequence.
LEMMA NothingBefore == \A s : IsSeq(s) => <<>> \o s = s
<1> TAKE s
<1> HAVE IsSeq(s)
<1> DEFINE S == { s[n] : n \in DOMAIN s }
<1>1. s \in Seq(S)  BY DEF IsSeq
<1> HIDE DEF S
<1> QED  BY <1>1

\* Of two sequences the first, if there is one, has the head.
LEMMA HeadOfJoin ==
    ASSUME NEW s, NEW t, IsSeq(s), IsSeq(t), s # <<>>
    PROVE  Head(s \o t) = s[1] /\ (s \o t)[1] = s[1] /\ s \o t # <<>>
<1> DEFINE S == { s[n] : n \in DOMAIN s }  T == { t[n] : n \in DOMAIN t }
<1>1. s \in Seq(S) /\ t \in Seq(T)  BY DEF IsSeq
<1>2. s \in Seq(S \cup T) /\ t \in Seq(S \cup T)  BY <1>1
<1> HIDE DEF S, T
<1> QED  BY <1>2

\* What is there stays enough.
LEMMA StaysApt ==
    ASSUME NEW ss, NEW ls, NEW ss2, NEW ls2, ss \subseteq ss2, ls \subseteq ls2, NEW a
    PROVE  /\ \A steps : Sound(a, steps, ss, ls) => Sound(a, steps, ss2, ls2)
           /\ \A at, held : HoldsAt(a, at, held, ss, ls) => HoldsAt(a, at, held, ss2, ls2)
<1>1. \A step : Apt(a, step, ss, ls) => Apt(a, step, ss2, ls2)  BY DEF Apt
<1>2. \A row : RowInHand(a, row, ss, ls) => RowInHand(a, row, ss2, ls2)  BY DEF RowInHand
<1> QED  BY <1>1, <1>2 DEF Sound, HoldsAt

\* Steps that are sound, one list of them after another.
LEMMA SoundJoins ==
    ASSUME NEW a, NEW ss, NEW ls, NEW s, NEW t, Sound(a, s, ss, ls), Sound(a, t, ss, ls),
           t # <<>> => Open(t[1])
    PROVE  Sound(a, s \o t, ss, ls)
<1> DEFINE c == s \o t
<1>1. IsSeq(s) /\ IsSeq(t) /\ Chain(s) /\ Chain(t)  BY DEF Sound
<1>2. Joins(c, s, t) /\ Chain(c)  BY <1>1, Concatenation, JoinChains
<1> HIDE DEF c
<1>3. Sound(a, c, ss, ls)  BY <1>2, Zenon DEF Sound, Joins
<1> QED  BY <1>3 DEF c

\* Where a request goes on: at the steps it has made for itself, else at the
\* one that comes next.
LEMMA Goes ==
    ASSUME Todos, Going, ask' = ask, Stay, NEW p \in Requests, todo[p] # <<>>,
           NEW steps, NEW held \in MemRow, Continue(p, steps, held),
           Sound(ask[p], steps, There(lesson)', There(level)'),
           steps # <<>> =>
              /\ Head(todo[p]).at \in Closing
              /\ HoldsAt(ask[p], steps[1].at, held, There(lesson)', There(level)'),
           steps = <<>> => \A b : Follows(Head(todo[p]), b) =>
              HoldsAt(ask[p], b.at, held, There(lesson)', There(level)')
    PROVE  Going'
<1> DEFINE rest == steps \o Tail(todo[p])  ss == There(lesson)'  ls == There(level)'
<1>1. /\ todo' = [todo EXCEPT ![p] = rest]
      /\ mem' = [mem EXCEPT ![p] = IF rest = <<>> THEN NoMem ELSE held]
      /\ status' = [status EXCEPT ![p] = IF rest = <<>> THEN "done" ELSE @]
  BY DEF Continue
<1>0. \A q, at, h : HoldsAt(ask[q], at, h, There(lesson), There(level))
                     => HoldsAt(ask[q], at, h, ss, ls)
  BY StaysApt DEF Stay
<1>2. \A q \in Requests : Sound(ask[q], todo[q], ss, ls)
  BY StaysApt DEF Going, Steps, Stay
<1>3. /\ IsSeq(Tail(todo[p])) /\ Sound(ask[p], Tail(todo[p]), ss, ls)
      /\ Tail(todo[p]) # <<>> => Follows(Head(todo[p]), Tail(todo[p])[1])
  <2>1. IsSeq(todo[p]) /\ Chain(todo[p]) /\ \A n \in DOMAIN todo[p] : Apt(ask[p], todo[p][n], ss, ls)
    BY <1>2 DEF Sound
  <2>2. \A n \in DOMAIN Tail(todo[p]) : Apt(ask[p], Tail(todo[p])[n], ss, ls)
    BY <2>1, Rest, Zenon
  <2> QED  BY <2>1, <2>2, RestChain, Zenon DEF Sound
<1>4. IsSeq(steps)  BY DEF Sound
<1>5. Sound(ask[p], rest, ss, ls)
  <2>1. CASE steps = <<>>  BY <1>3, <2>1, NothingBefore
  <2>2. CASE steps # <<>>  BY <1>3, <2>2, OpenFollows, SoundJoins
  <2> QED  BY <2>1, <2>2
<1>6. ASSUME rest # <<>> PROVE HoldsAt(ask[p], Head(rest).at, held, ss, ls)
  <2>1. CASE steps = <<>>
    <3>1. rest = Tail(todo[p]) /\ Tail(todo[p]) # <<>>  BY <1>3, <1>6, <2>1, NothingBefore
    <3>2. Head(rest) = Tail(todo[p])[1]  BY <3>1
    <3> QED  BY <1>3, <2>1, <3>1, <3>2
  <2>2. CASE steps # <<>>
    BY <1>3, <1>4, <2>2, HeadOfJoin
  <2> QED  BY <2>1, <2>2
<1> HIDE DEF rest
<1>7. Steps'
  <2>1. \A q \in Requests : todo'[q] = IF q = p THEN rest ELSE todo[q]
    BY <1>1 DEF Todos
  <2> QED  BY <1>2, <1>5, <2>1 DEF Steps
<1>8. NoMem \in MemRow  BY DEF NoMem, MemRow
<1>9. InHand'
  <2>1. mem' \in [Requests -> MemRow]  BY <1>1, <1>8 DEF Going, InHand
  <2>2. ASSUME NEW q \in Requests, todo'[q] # <<>>
        PROVE  HoldsAt(ask[q], Head(todo'[q]).at, mem'[q], ss, ls)
    <3>1. CASE q = p
      <4>1. todo'[q] = rest /\ mem'[q] = held
        BY <1>1, <2>2, <3>1 DEF Going, InHand, Todos
      <4> QED  BY <1>6, <2>2, <3>1, <4>1
    <3>2. CASE q # p
      <4>1. todo'[q] = todo[q] /\ mem'[q] = mem[q]
        BY <1>1, <3>2 DEF Going, InHand, Todos
      <4>2. HoldsAt(ask[q], Head(todo[q]).at, mem[q], There(lesson), There(level))
        BY <2>2, <4>1 DEF Going, InHand
      <4>3. HoldsAt(ask[q], Head(todo[q]).at, mem[q], ss, ls)
        BY <1>0, <4>2
      <4> QED  BY <4>1, <4>3
    <3> QED  BY <3>1, <3>2
  <2> QED  BY <2>1, <2>2 DEF InHand
<1>10. Running'
  <2>1. status' \in [Requests -> {"idle", "running", "done", "refused", "failed"}]
    BY <1>1 DEF Going, Running
  <2>2. \A q \in Requests : status'[q] = "running" <=> todo'[q] # <<>>
    BY <1>1 DEF Going, Running, Todos
  <2> QED  BY <2>1, <2>2 DEF Running
<1> QED  BY <1>7, <1>9, <1>10 DEF Going

\* A request that has nothing left to do.
LEMMA Stops ==
    ASSUME Todos, Going, ask' = ask, Stay, NEW p \in Requests,
           NEW how \in {"refused", "failed"}, Stop(p, how)
    PROVE  Going'
<1> DEFINE ss == There(lesson)'  ls == There(level)'
<1>1. /\ todo' = [todo EXCEPT ![p] = <<>>]
      /\ mem' = [mem EXCEPT ![p] = NoMem]
      /\ status' = [status EXCEPT ![p] = how]
  BY DEF Stop
<1>0. \A q, at, h : HoldsAt(ask[q], at, h, There(lesson), There(level))
                     => HoldsAt(ask[q], at, h, ss, ls)
  BY StaysApt DEF Stay
<1>2. \A q \in Requests : Sound(ask[q], todo[q], ss, ls)
  BY StaysApt DEF Going, Steps, Stay
<1>3. Sound(ask[p], <<>>, ss, ls)  BY DEF Sound, IsSeq, Chain
<1>4. \A q \in Requests : todo'[q] = IF q = p THEN <<>> ELSE todo[q]  BY <1>1 DEF Todos
<1>5. Steps'  BY <1>2, <1>3, <1>4 DEF Steps
<1>6. NoMem \in MemRow  BY DEF NoMem, MemRow
<1>7. InHand'
  <2>1. mem' \in [Requests -> MemRow]  BY <1>1, <1>6 DEF Going, InHand
  <2>2. ASSUME NEW q \in Requests, todo'[q] # <<>>
        PROVE  HoldsAt(ask[q], Head(todo'[q]).at, mem'[q], ss, ls)
    <3>1. q # p /\ todo'[q] = todo[q] /\ mem'[q] = mem[q]
      BY <1>1, <1>4, <2>2 DEF Going, InHand
    <3>2. HoldsAt(ask[q], Head(todo[q]).at, mem[q], There(lesson), There(level))
      BY <2>2, <3>1 DEF Going, InHand
    <3> QED  BY <1>0, <3>1, <3>2
  <2> QED  BY <2>1, <2>2 DEF InHand
<1>8. Running'
  BY <1>1, <1>4 DEF Going, Running
<1> QED  BY <1>5, <1>7, <1>8 DEF Going

\* A step that leaves every request where it is.
LEMMA Waiting ==
    ASSUME Going, UNCHANGED <<ask, todo, mem, status>>, Stay
    PROVE  Going'
<1> DEFINE ss == There(lesson)'  ls == There(level)'
<1>1. /\ \A q, steps : Sound(ask[q], steps, There(lesson), There(level))
                       => Sound(ask[q], steps, ss, ls)
      /\ \A q, at, h : HoldsAt(ask[q], at, h, There(lesson), There(level))
                       => HoldsAt(ask[q], at, h, ss, ls)
  BY StaysApt DEF Stay
<1>2. \A q \in Requests : Sound(ask[q], todo[q], ss, ls)  BY <1>1 DEF Going, Steps
<1>3. Steps'  BY <1>2 DEF Steps
<1>4. ASSUME NEW q \in Requests, todo[q] # <<>>
      PROVE  HoldsAt(ask[q], Head(todo[q]).at, mem[q], ss, ls)
  <2>1. HoldsAt(ask[q], Head(todo[q]).at, mem[q], There(lesson), There(level))
    BY <1>4 DEF Going, InHand
  <2> QED  BY <1>1, <2>1
<1>5. mem \in [Requests -> MemRow]  BY DEF Going, InHand
<1>6. InHand'  BY <1>4, <1>5 DEF InHand
<1>7. Running'  BY DEF Going, Running
<1> QED  BY <1>3, <1>6, <1>7 DEF Going

(***************************************************************************)
(* The steps a request makes for itself                                    *)
(***************************************************************************)

\* A list of sound steps that begins with this one.
Begins(a, steps, step, ss, ls) ==
    Sound(a, steps, ss, ls) /\ steps # <<>> /\ steps[1] = step

\* Two lists of steps, the second of which begins with an open step.
LEMMA BeginsJoins ==
    ASSUME NEW a, NEW ss, NEW ls, NEW s, NEW t, NEW x, NEW y,
           Begins(a, s, x, ss, ls), Begins(a, t, y, ss, ls), Open(y)
    PROVE  Begins(a, s \o t, x, ss, ls)
<1>1. IsSeq(s) /\ IsSeq(t)  BY DEF Begins, Sound
<1>2. (s \o t)[1] = s[1] /\ s \o t # <<>>  BY <1>1, HeadOfJoin DEF Begins
<1>3. Sound(a, s \o t, ss, ls)  BY SoundJoins DEF Begins
<1> QED  BY <1>2, <1>3 DEF Begins

\* The elements of one sequence after another.
LEMMA JoinAt ==
    ASSUME NEW X, NEW s \in Seq(X), NEW t \in Seq(X)
    PROVE  /\ s \o t \in Seq(X) /\ Len(s \o t) = Len(s) + Len(t)
           /\ \A n \in 1 .. Len(s) + Len(t) :
                 (s \o t)[n] = IF n <= Len(s) THEN s[n] ELSE t[n - Len(s)]
OBVIOUS

\* The three counts, the three spreads and the last item, one by one.
LEMMA RespreadIs ==
    ASSUME NEW s
    PROVE  /\ IsSeq(Respread(s)) /\ DOMAIN Respread(s) = 1 .. 7
           /\ Respread(s)[1] = At("count", <<s, "learning">>)
           /\ Respread(s)[2] = At("count", <<s, "practice">>)
           /\ Respread(s)[3] = At("count", <<s, "quiz">>)
           /\ Respread(s)[4] = At("spread", <<s, "learning">>)
           /\ Respread(s)[5] = At("spread", <<s, "practice">>)
           /\ Respread(s)[6] = At("spread", <<s, "quiz">>)
           /\ Respread(s)[7] = At("last", s)
<1> DEFINE C == [n \in 1 .. 3 |-> At("count", <<s, Kinds[n]>>)]
           S == [n \in 1 .. 3 |-> At("spread", <<s, Kinds[n]>>)]
           L == <<At("last", s)>>
           X == { C[n] : n \in 1 .. 3 } \cup { S[n] : n \in 1 .. 3 } \cup { At("last", s) }
<1>1. C \in [1 .. 3 -> X] /\ S \in [1 .. 3 -> X]  OBVIOUS
<1>2. C \in Seq(X) /\ S \in Seq(X) /\ L \in Seq(X)  BY <1>1
<1>3. Len(C) = 3 /\ Len(S) = 3 /\ Len(L) = 1 /\ L[1] = At("last", s)  BY <1>1, <1>2
<1>4. /\ C[1] = At("count", <<s, "learning">>) /\ C[2] = At("count", <<s, "practice">>)
      /\ C[3] = At("count", <<s, "quiz">>)
      /\ S[1] = At("spread", <<s, "learning">>) /\ S[2] = At("spread", <<s, "practice">>)
      /\ S[3] = At("spread", <<s, "quiz">>)
  BY DEF Kinds
<1> HIDE DEF C, S, L, X
<1> DEFINE D == C \o S  R == D \o L
<1> HIDE DEF D
<1>5. /\ D \in Seq(X) /\ Len(D) = 6
      /\ \A n \in 1 .. 3 : D[n] = C[n]
      /\ \A n \in 4 .. 6 : D[n] = S[n - 3]
  <2>1. D = C \o S  BY DEF D
  <2>2. /\ D \in Seq(X) /\ Len(D) = Len(C) + Len(S)
        /\ \A n \in 1 .. Len(C) + Len(S) : D[n] = IF n <= Len(C) THEN C[n] ELSE S[n - Len(C)]
    BY <1>2, <2>1, JoinAt
  <2> QED  BY <1>3, <2>2
<1> HIDE DEF R
<1>6. /\ R \in Seq(X) /\ Len(R) = 7
      /\ \A n \in 1 .. 6 : R[n] = D[n]
      /\ \A n \in 7 .. 7 : R[n] = L[n - 6]
  <2>1. R = D \o L  BY DEF R
  <2>2. /\ R \in Seq(X) /\ Len(R) = Len(D) + Len(L)
        /\ \A n \in 1 .. Len(D) + Len(L) : R[n] = IF n <= Len(D) THEN D[n] ELSE L[n - Len(D)]
    <3>1. D \in Seq(X)  BY <1>5
    <3> QED  BY <1>2, <2>1, <3>1, JoinAt
  <2> QED  BY <1>3, <1>5, <2>2
<1>7. R = Respread(s)  BY DEF R, D, C, S, L, Respread
<1>8. IsSeq(R) /\ DOMAIN R = 1 .. 7  BY <1>6, OwnElements
<1>9. /\ R[1] = D[1] /\ R[2] = D[2] /\ R[3] = D[3]
      /\ R[4] = D[4] /\ R[5] = D[5] /\ R[6] = D[6] /\ R[7] = L[1]
  BY <1>6
<1>10. /\ D[1] = C[1] /\ D[2] = C[2] /\ D[3] = C[3]
       /\ D[4] = S[1] /\ D[5] = S[2] /\ D[6] = S[3]
  BY <1>5 DEF D
<1> QED  BY <1>3, <1>4, <1>7, <1>8, <1>9, <1>10

\* The level read, then what follows.
LEMMA ReloadIs ==
    ASSUME NEW l
    PROVE  /\ DOMAIN Reload(l) = 1 .. 4
           /\ Reload(l)[1] = At("level", l) /\ Reload(l)[2] = At("sum", l)
           /\ Reload(l)[3] = At("quiz", l) /\ Reload(l)[4] = At("saveLevel", l)
<1> DEFINE A == <<At("level", l)>>
           X == {At("level", l), At("sum", l), At("quiz", l), At("saveLevel", l)}
<1>1. A \in Seq(X) /\ Resum(l) \in Seq(X)  BY DEF Resum
<1>2. /\ Len(A) = 1 /\ A[1] = At("level", l) /\ Len(Resum(l)) = 3
      /\ Resum(l)[1] = At("sum", l) /\ Resum(l)[2] = At("quiz", l)
      /\ Resum(l)[3] = At("saveLevel", l)
  BY DEF Resum
<1>3. Reload(l) = A \o Resum(l)  BY DEF Reload
<1> HIDE DEF A, X
<1>4. /\ Reload(l) \in Seq(X) /\ Len(Reload(l)) = 4
      /\ \A n \in 1 .. 1 : Reload(l)[n] = A[n]
      /\ \A n \in 2 .. 4 : Reload(l)[n] = Resum(l)[n - 1]
  <2> DEFINE B == Resum(l)
  <2> HIDE DEF B
  <2>1. B \in Seq(X) /\ Len(B) = 3 /\ Reload(l) = A \o B  BY <1>1, <1>2, <1>3 DEF B
  <2>2. /\ Reload(l) \in Seq(X) /\ Len(Reload(l)) = Len(A) + Len(B)
        /\ \A n \in 1 .. Len(A) + Len(B) : Reload(l)[n] = IF n <= Len(A) THEN A[n] ELSE B[n - Len(A)]
    <3>1. B \in Seq(X) /\ Reload(l) = A \o B  BY <2>1
    <3> QED  BY <1>1, <3>1, JoinAt
  <2>3. /\ Reload(l) \in Seq(X) /\ Len(Reload(l)) = 4
        /\ \A n \in 1 .. 1 : Reload(l)[n] = A[n]
        /\ \A n \in 2 .. 4 : Reload(l)[n] = B[n - 1]
    <3>1. Len(A) = 1  BY <1>2
    <3> QED  BY <2>1, <2>2, <3>1
  <2> QED  BY <2>3 DEF B
<1>5. DOMAIN Reload(l) = 1 .. 4  BY <1>4
<1>6. /\ Reload(l)[1] = A[1] /\ Reload(l)[2] = Resum(l)[1]
      /\ Reload(l)[3] = Resum(l)[2] /\ Reload(l)[4] = Resum(l)[3]
  BY <1>4
<1> QED  BY <1>2, <1>5, <1>6

\* What is counted again, and in which order.
LEMMA StepLists ==
    ASSUME NEW a, NEW ss, NEW ls
    PROVE  /\ Sound(a, <<>>, ss, ls)
           /\ \A s \in ss : Begins(a, Recount(s), At("lesson", s), ss, ls)
           /\ \A g \in Grades : Begins(a, Regrade(g), At("grade", g), ss, ls)
           /\ \A l \in ls : /\ Begins(a, Resum(l), At("sum", l), ss, ls)
                            /\ Begins(a, Reload(l), At("level", l), ss, ls)
           /\ \A s \in ss : Begins(a, Respread(s), At("count", <<s, "learning">>), ss, ls)
<1>1. Sound(a, <<>>, ss, ls)  BY DEF Sound, IsSeq, Chain
<1>2. ASSUME NEW s \in ss PROVE Begins(a, Recount(s), At("lesson", s), ss, ls)
  <2>1. IsSeq(<<At("lesson", s)>>)  BY DEF IsSeq
  <2> QED  BY <2>1 DEF Begins, Recount, Sound, Chain, Apt, At
<1>3. ASSUME NEW g \in Grades PROVE Begins(a, Regrade(g), At("grade", g), ss, ls)
  <2>1. IsSeq(Regrade(g))  BY PlainSteps DEF Plain
  <2>2. Chain(Regrade(g))  BY DEF Chain, Follows, Regrade, At, Prior
  <2>3. \A n \in DOMAIN Regrade(g) : Apt(a, Regrade(g)[n], ss, ls)  BY DEF Regrade, At, Apt
  <2>4. Regrade(g)[1] = At("grade", g) /\ Regrade(g) # <<>>  BY DEF Regrade
  <2> QED  BY <2>1, <2>2, <2>3, <2>4 DEF Begins, Sound
<1>4. ASSUME NEW l \in ls PROVE Begins(a, Resum(l), At("sum", l), ss, ls)
  <2>1. IsSeq(Resum(l))  BY PlainSteps DEF Plain
  <2>2. Chain(Resum(l))  BY DEF Chain, Follows, Resum, At, Prior
  <2>3. \A n \in DOMAIN Resum(l) : Apt(a, Resum(l)[n], ss, ls)  BY DEF Resum, At, Apt
  <2>4. Resum(l)[1] = At("sum", l) /\ Resum(l) # <<>>  BY DEF Resum
  <2> QED  BY <2>1, <2>2, <2>3, <2>4 DEF Begins, Sound
<1>5. ASSUME NEW l \in ls PROVE Begins(a, Reload(l), At("level", l), ss, ls)
  <2>1. IsSeq(Reload(l))  BY PlainSteps DEF Plain
  <2> DEFINE R == Reload(l)
  <2>0. /\ DOMAIN R = 1 .. 4 /\ R[1] = At("level", l) /\ R[2] = At("sum", l)
        /\ R[3] = At("quiz", l) /\ R[4] = At("saveLevel", l)
    BY ReloadIs
  <2> HIDE DEF R
  <2>2. Chain(R)
    <3>1. Follows(R[1], R[2]) /\ Follows(R[2], R[3]) /\ Follows(R[3], R[4])
      BY <2>0 DEF Follows, At, Prior
    <3>2. ASSUME NEW n \in DOMAIN R, n > 1 PROVE Follows(R[n - 1], R[n])
      <4>1. n \in {2, 3, 4}  BY <2>0, <3>2
      <4> QED  BY <3>1, <4>1
    <3> QED  BY <3>2 DEF Chain
  <2>3. \A n \in DOMAIN R : Apt(a, R[n], ss, ls)
    <3>1. /\ Apt(a, R[1], ss, ls) /\ Apt(a, R[2], ss, ls)
          /\ Apt(a, R[3], ss, ls) /\ Apt(a, R[4], ss, ls)
      BY <2>0 DEF At, Apt
    <3> QED  BY <2>0, <3>1
  <2>4. Reload(l)[1] = At("level", l) /\ Reload(l) # <<>>  BY <2>0 DEF R
  <2> QED  BY <2>1, <2>2, <2>3, <2>4 DEF Begins, Sound, R
<1>6. ASSUME NEW s \in ss
      PROVE  Begins(a, Respread(s), At("count", <<s, "learning">>), ss, ls)
  <2> DEFINE R == Respread(s)
  <2>1. /\ IsSeq(R) /\ DOMAIN R = 1 .. 7
        /\ R[1] = At("count", <<s, "learning">>) /\ R[2] = At("count", <<s, "practice">>)
        /\ R[3] = At("count", <<s, "quiz">>)
        /\ R[4] = At("spread", <<s, "learning">>) /\ R[5] = At("spread", <<s, "practice">>)
        /\ R[6] = At("spread", <<s, "quiz">>) /\ R[7] = At("last", s)
    BY RespreadIs
  <2> HIDE DEF R
  <2>2. /\ Follows(R[1], R[2]) /\ Follows(R[2], R[3]) /\ Follows(R[3], R[4])
        /\ Follows(R[4], R[5]) /\ Follows(R[5], R[6]) /\ Follows(R[6], R[7])
    BY <2>1 DEF Follows, At, Prior, Kinds
  <2>3. Chain(R)
    <3>1. ASSUME NEW n \in DOMAIN R, n > 1 PROVE Follows(R[n - 1], R[n])
      <4>1. n \in {2, 3, 4, 5, 6, 7}  BY <2>1, <3>1
      <4> QED  BY <2>2, <4>1
    <3> QED  BY <3>1 DEF Chain
  <2>4. \A n \in DOMAIN R : Apt(a, R[n], ss, ls)
    <3>1. /\ Apt(a, R[1], ss, ls) /\ Apt(a, R[2], ss, ls) /\ Apt(a, R[3], ss, ls)
          /\ Apt(a, R[4], ss, ls) /\ Apt(a, R[5], ss, ls) /\ Apt(a, R[6], ss, ls)
          /\ Apt(a, R[7], ss, ls)
      BY <2>1 DEF Apt, At, KindSet
    <3> QED  BY <2>1, <3>1
  <2>5. R # <<>>  BY <2>1
  <2> QED  BY <2>1, <2>3, <2>4, <2>5 DEF Begins, Sound, R
<1> QED  BY <1>1, <1>2, <1>3, <1>4, <1>5, <1>6

\* Where counting again begins nothing needs to be known.
LEMMA OpenSteps ==
    /\ \A x : Open(At("lesson", x)) /\ Open(At("level", x)) /\ Open(At("grade", x))
    /\ \A a, held, ss, ls : /\ HoldsAt(a, "lesson", held, ss, ls) /\ HoldsAt(a, "level", held, ss, ls)
                            /\ HoldsAt(a, "grade", held, ss, ls)
BY DEF Open, At, Prior, HoldsAt

(***************************************************************************)
(* Where a request is                                                      *)
(***************************************************************************)

\* What a request names is there to be named.
LEMMA AskedRows ==
    ASSUME ask \in Asks, NEW p \in Requests, ask[p] # None
    PROVE  LET a == ask[p]
           IN  /\ a \in AskRow /\ a.n \in Nat
               /\ a.do \in {"addItem"} \cup OfItem => a.item \in Items
               /\ a.do \in {"addItem", "editItem", "addLesson"} \cup OfLesson => a.lesson \in Lessons
               /\ a.do \in {"addLesson", "editLesson", "addQuestion", "addLevel"} \cup OfLevel
                    => a.level \in Levels
               /\ a.do \in {"addLevel", "editLevel"} => a.grade \in Grades
               /\ a.do \in {"addQuestion"} \cup OfQuestion => a.question \in Questions
<1> DEFINE a == ask[p]
<1>1. a \in AskRow  BY CurriculumTreeAssumed DEF CurriculumTreeAssumption
<1>2. \A f \in Fields : a[f] # None <=> f \in Names(a.do)
  BY CurriculumTreeAssumed DEF AsksAssumption
<1>3. /\ a.item \in Items \cup {None} /\ a.lesson \in Lessons \cup {None}
      /\ a.level \in Levels \cup {None} /\ a.grade \in Grades \cup {None}
      /\ a.question \in Questions \cup {None} /\ a.n \in Nat
  BY <1>1 DEF AskRow
<1> HIDE DEF a
<1>4. /\ a.item # None <=> "item" \in Names(a.do)
      /\ a.lesson # None <=> "lesson" \in Names(a.do)
      /\ a.level # None <=> "level" \in Names(a.do)
      /\ a.grade # None <=> "grade" \in Names(a.do)
      /\ a.question # None <=> "question" \in Names(a.do)
  BY <1>2 DEF Fields
<1>5. /\ a.do \in {"addItem"} \cup OfItem => "item" \in Names(a.do)
      /\ a.do \in {"addItem", "editItem", "addLesson"} \cup OfLesson => "lesson" \in Names(a.do)
      /\ a.do \in {"addLesson", "editLesson", "addQuestion", "addLevel"} \cup OfLevel
            => "level" \in Names(a.do)
      /\ a.do \in {"addLevel", "editLevel"} => "grade" \in Names(a.do)
      /\ a.do \in {"addQuestion"} \cup OfQuestion => "question" \in Names(a.do)
  BY DEF Names, OfItem, OfLesson, OfLevel, OfQuestion
<1> QED  BY <1>1, <1>3, <1>4, <1>5 DEF a

\* The step at hand: what it is about and what is held for it.
LEMMA HeadStep ==
    ASSUME Todos, Going, NEW p \in Requests, NEW step, Does(p, step)
    PROVE  /\ todo[p] # <<>> /\ Head(todo[p]).at = step /\ Head(todo[p]).of = Row(p)
           /\ Apt(ask[p], Head(todo[p]), There(lesson), There(level))
           /\ HoldsAt(ask[p], step, mem[p], There(lesson), There(level))
           /\ mem[p] \in MemRow /\ ask[p] \in AskRow /\ ask[p] # None
<1>1. todo[p] # <<>> /\ Head(todo[p]).at = step /\ Head(todo[p]).of = Row(p)
  BY DEF Does, Row
<1>2. IsSeq(todo[p]) /\ \A n \in DOMAIN todo[p] : Apt(ask[p], todo[p][n], There(lesson), There(level))
  BY DEF Going, Steps, Sound
<1>3. Apt(ask[p], Head(todo[p]), There(lesson), There(level))
  BY <1>1, <1>2, Rest
<1>4. HoldsAt(ask[p], step, mem[p], There(lesson), There(level)) /\ mem[p] \in MemRow
  BY <1>1 DEF Going, InHand
<1>5. ask[p] \in AskRow  BY AtStep
<1>6. ask[p] # None  BY <1>5, CurriculumTreeAssumed DEF CurriculumTreeAssumption
<1> QED  BY <1>1, <1>3, <1>4, <1>5, <1>6

\* The request goes on with the step it has next.
LEMMA GoesOn ==
    ASSUME Todos, Going, ask' = ask, Stay, NEW p \in Requests, NEW step, Does(p, step),
           NEW held \in MemRow, Continue(p, <<>>, held),
           step = "read" => RowInHand(ask[p], held.row, There(lesson)', There(level)'),
           step \in {"count", "spread"} => held.lesson \in LessonRow,
           step \in {"level", "sum", "quiz"} => held.level \in LevelInHand,
           step \in {"sum", "quiz"} => held.sum \in Nat
    PROVE  Going'
<1>1. todo[p] # <<>> /\ Head(todo[p]).at = step  BY DEF Does
<1>2. Sound(ask[p], <<>>, There(lesson)', There(level)')  BY StepLists
<1>3. ASSUME NEW b, Follows(Head(todo[p]), b)
      PROVE  HoldsAt(ask[p], b.at, held, There(lesson)', There(level)')
  <2>1. /\ b.at = "write" => step = "read"
        /\ b.at = "sum" => step = "level"
        /\ b.at = "quiz" => step = "sum"
        /\ b.at = "saveLevel" => step = "quiz"
        /\ b.at \in {"count", "spread", "last"} => step \in {"count", "spread"}
    BY <1>1, <1>3, FollowsAt
  <2> QED  BY <2>1 DEF HoldsAt
<1> QED  BY <1>1, <1>2, <1>3, Goes

\* The request goes on with steps it makes for itself.
LEMMA GoesTo ==
    ASSUME Todos, Going, ask' = ask, Stay, NEW p \in Requests, NEW step \in Closing,
           Does(p, step), NEW held \in MemRow, NEW steps, Continue(p, steps, held),
           NEW first, Begins(ask[p], steps, first, There(lesson)', There(level)'),
           HoldsAt(ask[p], first.at, held, There(lesson)', There(level)')
    PROVE  Going'
<1>1. todo[p] # <<>> /\ Head(todo[p]).at \in Closing  BY DEF Does
<1>2. /\ Sound(ask[p], steps, There(lesson)', There(level)') /\ steps # <<>>
      /\ HoldsAt(ask[p], steps[1].at, held, There(lesson)', There(level)')
  BY DEF Begins
<1> QED  BY <1>1, <1>2, Goes

\* A step that only reads.
LEMMA ReadsKeep ==
    ASSUME TInv, UNCHANGED <<tables, ask>>, Going', SavesTyped', Tallied'
    PROVE  TInv'
<1>1. Tabled'  BY DEF TInv, Tabled, tables
<1>2. Rooted'  BY DEF TInv, Rooted, There, tables
<1> QED  BY <1>1, <1>2 DEF TInv

\* Where no lesson and no level changes, none goes.
LEMMA ReadsStay ==
    /\ UNCHANGED tables => Stay
    /\ UNCHANGED <<lesson, level>> => Stay
BY DEF Stay, There, tables

\* What is there is a row.
LEMMA ThereIs ==
    ASSUME Tabled
    PROVE  /\ There(lesson) \subseteq Lessons /\ \A s \in There(lesson) : lesson[s] \in LessonRow
           /\ There(level) \subseteq Levels /\ \A l \in There(level) : level[l] \in LevelRow
           /\ There(item) \subseteq Items /\ \A i \in There(item) : item[i] \in ItemRow
           /\ There(question) \subseteq Questions
           /\ \A x \in There(question) : question[x] \in QuestionRow
BY DEF Tabled, There

(***************************************************************************)
(* Steps that read                                                         *)
(***************************************************************************)

\* Where nothing else changes, the saves and the tallies keep their types.
LEMMA RestTyped ==
    /\ TInv /\ UNCHANGED <<lesson, unsaved>> => SavesTyped'
    /\ TInv /\ UNCHANGED <<failures, clean>> => Tallied'
BY DEF TInv, SavesTyped, Tallied, There

\* Rows read are held as they are.
LEMMA HoldTyped ==
    ASSUME NEW p, mem[p] \in MemRow
    PROVE  /\ \A v \in ItemRow \cup LessonRow \cup LevelRow \cup QuestionRow \cup {None} :
                 Hold(p, "row", v) \in MemRow /\ Hold(p, "row", v).row = v
           /\ \A v \in LessonRow \cup {None} :
                 Hold(p, "lesson", v) \in MemRow /\ Hold(p, "lesson", v).lesson = v
           /\ \A v \in LevelInHand \cup {None} :
                 Hold(p, "level", v) \in MemRow /\ Hold(p, "level", v).level = v
           /\ \A v \in Nat \cup {None} :
                 /\ Hold(p, "sum", v) \in MemRow /\ Hold(p, "sum", v).sum = v
                 /\ Hold(p, "sum", v).level = mem[p].level
           /\ \A v \in Nat : Hold(p, "grade", v) \in MemRow
BY DEF Hold, MemRow

\* A request arrives.
LEMMA BeginTypes ==
    ASSUME Given, IInv, TInv, NEW p \in Requests, Begin(p)
    PROVE  TInv'
<1> DEFINE a == ask[p]  ss == There(lesson)  ls == There(level)
<1>1. /\ a # None
      /\ status' = [status EXCEPT ![p] = "running"]
      /\ todo' = [todo EXCEPT ![p] = FirstSteps(a)]
      /\ clean' = [q \in Requests |->
            IF q = p THEN \A r \in Requests : Settled(r) \/ reach[r] \cap Named(a) = {}
            ELSE clean[q] /\ reach[q] \cap Named(a) = {}]
      /\ UNCHANGED <<tables, ask, mem, unsaved, failures>>
  BY DEF Begin
<1>2. a \in AskRow  BY <1>1, AskedRows DEF Given
<1>3. /\ Sound(a, FirstSteps(a), ss, ls) /\ FirstSteps(a) # <<>>
      /\ HoldsAt(a, Head(FirstSteps(a)).at, mem[p], ss, ls)
  <2>1. CASE a.do \in {"addItem", "addLesson", "addLevel", "addQuestion"}
    <3>1. FirstSteps(a) = <<At("write", None)>>  BY <2>1 DEF FirstSteps, Bulk
    <3>2. Sound(a, <<At("write", None)>>, ss, ls)
      BY DEF Sound, IsSeq, Chain, Apt, At
    <3>3. RowInHand(a, mem[p].row, ss, ls)
      BY <2>1 DEF RowInHand, OfItem, OfLesson, OfLevel, OfQuestion
    <3> QED  BY <3>1, <3>2, <3>3 DEF HoldsAt, At
  <2>2. CASE a.do \in Bulk
    <3>1. FirstSteps(a) = <<At("scan", None)>>  BY <2>2 DEF FirstSteps, Bulk
    <3>2. Sound(a, <<At("scan", None)>>, ss, ls)
      BY DEF Sound, IsSeq, Chain, Apt, At
    <3> QED  BY <3>1, <3>2 DEF HoldsAt, At
  <2>3. CASE a.do = "reorder"
    <3> DEFINE checks == [n \in DOMAIN a.list |-> At("check", a.list[n])]
               list == <<At("list", None)>>
    <3>1. FirstSteps(a) = checks \o list  BY <2>3 DEF FirstSteps, Bulk
    <3>2. IsSeq(checks)
      <4>1. a.list \in Seq(Items)  BY <1>2 DEF AskRow
      <4>2. Len(a.list) \in Nat /\ DOMAIN a.list = 1 .. Len(a.list)  BY <4>1
      <4> QED  BY <4>2, Literal
    <3>3. Sound(a, checks, ss, ls)
      <4>1. \A n \in DOMAIN checks : Open(checks[n]) /\ Apt(a, checks[n], ss, ls)
        BY DEF Open, At, Prior, Apt
      <4> HIDE DEF checks
      <4> QED  BY <3>2, <4>1, OpenFollows DEF Sound, Chain
    <3>4. Begins(a, list, At("list", None), ss, ls)
      BY DEF Begins, Sound, IsSeq, Chain, Apt, At
    <3>5. \A x : Open(At("check", x)) /\ Open(At("list", x))  BY DEF Open, At, Prior
    <3>6. Sound(a, checks \o list, ss, ls)
      BY <3>3, <3>4, <3>5, SoundJoins DEF Begins
    <3>7. /\ checks \o list # <<>>
          /\ Head(checks \o list).at \in {"check", "list"}
      <4>1. CASE checks = <<>>
        <5>1. checks \o list = list  BY <3>4, <4>1, NothingBefore DEF Begins, Sound
        <5> QED  BY <5>1 DEF At
      <4>2. CASE checks # <<>>
        <5>1. IsSeq(list)  BY <3>4 DEF Begins, Sound
        <5>2. Head(checks \o list) = checks[1] /\ checks \o list # <<>>
          <6> HIDE DEF checks, list
          <6> QED  BY <3>2, <4>2, <5>1, HeadOfJoin
        <5>3. 1 \in DOMAIN checks
          <6> HIDE DEF checks
          <6> QED  BY <3>2, <4>2, Rest
        <5> QED  BY <5>2, <5>3 DEF At
      <4> QED  BY <4>1, <4>2
    <3> HIDE DEF checks, list
    <3> QED  BY <3>1, <3>6, <3>7 DEF HoldsAt
  <2>4. CASE a.do \in OfItem \cup OfLesson \cup OfLevel \cup OfQuestion
    <3> DEFINE two == <<At("read", None), At("write", None)>>
    <3>1. FirstSteps(a) = two
      BY <2>4 DEF FirstSteps, Bulk, OfItem, OfLesson, OfLevel, OfQuestion
    <3>2. IsSeq(two)  BY DEF IsSeq
    <3>3. Chain(two)  BY DEF Chain, Follows, At, Prior
    <3>4. \A n \in DOMAIN two : Apt(a, two[n], ss, ls)  BY <2>4 DEF Apt, At
    <3>5. Head(two).at = "read" /\ two # <<>>  BY DEF At
    <3> QED  BY <3>1, <3>2, <3>3, <3>4, <3>5 DEF Sound, HoldsAt
  <2> QED  BY <1>2, <2>1, <2>2, <2>3, <2>4
        DEF AskRow, Bulk, OfItem, OfLesson, OfLevel, OfQuestion
<1>4. \A q \in Requests : todo'[q] = IF q = p THEN FirstSteps(a) ELSE todo[q]
  BY <1>1 DEF IInv, Todos
<1>5. There(lesson)' = ss /\ There(level)' = ls  BY <1>1 DEF There, tables
<1> HIDE DEF a, ss, ls
<1>6. Going'
  <2>1. Steps'  BY <1>1, <1>3, <1>4, <1>5 DEF TInv, Going, Steps, a, ss, ls
  <2>2. InHand'
    <3>1. mem' = mem  BY <1>1
    <3>2. ASSUME NEW q \in Requests, todo'[q] # <<>>
          PROVE  HoldsAt(ask[q], Head(todo'[q]).at, mem[q], ss, ls)
      <4>1. CASE q = p  BY <1>3, <1>4, <4>1 DEF a
      <4>2. CASE q # p  BY <1>4, <3>2, <4>2 DEF TInv, Going, InHand, ss, ls
      <4> QED  BY <4>1, <4>2
    <3> QED  BY <1>1, <1>5, <3>1, <3>2 DEF TInv, Going, InHand
  <2>3. Running'
    <3>1. \A q \in Requests : status'[q] = IF q = p THEN "running" ELSE status[q]
      BY <1>1 DEF TInv, Going, Running
    <3>2. status' \in [Requests -> {"idle", "running", "done", "refused", "failed"}]
      BY <1>1 DEF TInv, Going, Running
    <3> QED  BY <1>3, <1>4, <3>1, <3>2 DEF TInv, Going, Running
  <2> QED  BY <2>1, <2>2, <2>3 DEF Going
<1>7. Tallied'
  <2>1. clean' \in [Requests -> BOOLEAN]
    <3>1. \A q \in Requests : clean[q] \in BOOLEAN  BY DEF TInv, Tallied
    <3> QED  BY <1>1, <3>1, Zenon
  <2> QED  BY <1>1, <2>1 DEF TInv, Tallied
<1>8. SavesTyped'  BY <1>1, RestTyped DEF tables
<1> QED  BY <1>1, <1>6, <1>7, <1>8, ReadsKeep

\* The row read is what is asked for, and what it hangs from is there.
LEMMA ReadRowTypes ==
    ASSUME Given, IInv, TInv, NEW p \in Requests, ReadRow(p)
    PROVE  TInv'
<1> DEFINE a == ask[p]  row == Target(a)  ss == There(lesson)  ls == There(level)
<1>1. /\ Does(p, "read")
      /\ UNCHANGED <<tables, ask, unsaved, failures, clean>>
      /\ There(lesson)' = ss /\ There(level)' = ls
  BY DEF ReadRow, tables, ghosts, There
<1>2. /\ a # None /\ mem[p] \in MemRow
      /\ a.do \in OfItem \cup OfLesson \cup OfLevel \cup OfQuestion
  BY <1>1, HeadStep DEF IInv, TInv, Apt
<1>3. CASE row = None
  <2>1. Stop(p, "refused")  BY <1>3 DEF ReadRow
  <2>2. Going'  BY <1>1, <2>1, Stops, ReadsStay DEF IInv, TInv
  <2> QED  BY <1>1, <2>2, RestTyped, ReadsKeep DEF tables
<1>4. CASE row # None
  <2>1. Continue(p, <<>>, Hold(p, "row", row))  BY <1>4 DEF ReadRow
  <2>2. RowInHand(a, row, ss, ls)
    <3>1. CASE a.do \in OfItem
      <4>1. row = item[a.item] /\ a.item \in Items
        BY <1>2, <3>1, AskedRows DEF Target, OfItem, Given
      <4>2. a.item \in There(item)  BY <1>4, <4>1 DEF There, TInv, Tabled
      <4>3. row \in ItemRow /\ row.lesson \in ss
        BY <4>1, <4>2, ThereIs DEF TInv, Rooted
      <4> QED  BY <3>1, <4>3 DEF RowInHand, OfItem, OfLesson, OfLevel, OfQuestion
    <3>2. CASE a.do \in OfLesson
      <4>1. row = lesson[a.lesson] /\ a.lesson \in Lessons
        BY <1>2, <1>4, <3>2, AskedRows DEF Target, OfItem, OfLesson, Given
      <4>2. a.lesson \in ss  BY <1>4, <4>1 DEF There, TInv, Tabled
      <4>3. row \in LessonRow /\ row.level \in ls
        BY <4>1, <4>2, ThereIs DEF TInv, Rooted
      <4> QED  BY <3>2, <4>2, <4>3 DEF RowInHand, OfItem, OfLesson, OfLevel, OfQuestion
    <3>3. CASE a.do \in OfLevel
      <4>1. row = level[a.level] /\ a.level \in Levels
        BY <1>2, <1>4, <3>3, AskedRows DEF Target, OfItem, OfLesson, OfLevel, Given
      <4>2. a.level \in ls  BY <1>4, <4>1 DEF There, TInv, Tabled
      <4>3. row \in LevelRow  BY <4>1, <4>2, ThereIs DEF TInv
      <4> QED  BY <3>3, <4>2, <4>3 DEF RowInHand, OfItem, OfLesson, OfLevel, OfQuestion
    <3>4. CASE a.do \in OfQuestion
      <4>1. row = question[a.question] /\ a.question \in Questions
        BY <1>2, <1>4, <3>4, AskedRows DEF Target, OfItem, OfLesson, OfLevel, OfQuestion, Given
      <4>2. a.question \in There(question)  BY <1>4, <4>1 DEF There, TInv, Tabled
      <4>3. row \in QuestionRow /\ row.level \in ls
        BY <4>1, <4>2, ThereIs DEF TInv, Rooted
      <4> QED  BY <3>4, <4>3 DEF RowInHand, OfItem, OfLesson, OfLevel, OfQuestion
    <3> QED  BY <1>2, <3>1, <3>2, <3>3, <3>4
  <2>3. row \in ItemRow \cup LessonRow \cup LevelRow \cup QuestionRow
    BY <1>2, <2>2 DEF RowInHand
  <2> HIDE DEF row
  <2>4. Hold(p, "row", row) \in MemRow /\ Hold(p, "row", row).row = row
    BY <1>2, <2>3, HoldTyped
  <2>5. Going'
    <3> HIDE DEF a, ss, ls
    <3>1. RowInHand(a, Hold(p, "row", row).row, There(lesson)', There(level)')
      BY <1>1, <2>2, <2>4
    <3> QED  BY <1>1, <2>1, <2>4, <3>1, GoesOn, ReadsStay DEF IInv, TInv, a
  <2> QED  BY <1>1, <2>5, RestTyped, ReadsKeep DEF tables
<1> QED  BY <1>3, <1>4

\* The bulk requests have a step for every row that is there.
LEMMA ScanTypes ==
    ASSUME Given, IInv, TInv, NEW p \in Requests, Scan(p)
    PROVE  TInv'
<1> DEFINE ss == There(lesson)  ls == There(level)
<1>1. /\ Does(p, "scan")
      /\ UNCHANGED <<tables, ask, unsaved, failures, clean>>
      /\ There(lesson)' = ss /\ There(level)' = ls
  BY DEF Scan, tables, ghosts, There
<1>2. mem[p] \in MemRow  BY <1>1, HeadStep DEF IInv, TInv
<1>3. ASSUME NEW S, IsFiniteSet(S), NEW rows \in SetToSeqs(S)
      PROVE  /\ Cardinality(S) \in Nat /\ DOMAIN rows = 1 .. Cardinality(S)
             /\ \A n \in DOMAIN rows : rows[n] \in S
  BY <1>3, FS_CardinalityType DEF SetToSeqs
<1>4. /\ Live(lesson) \subseteq ss /\ Live(level) \subseteq ls
      /\ IsFiniteSet(Live(lesson)) /\ IsFiniteSet(Live(level))
  <2>1. Live(lesson) \subseteq Lessons /\ Live(level) \subseteq Levels  BY DEF Live, Given
  <2>2. IsFiniteSet(Lessons) /\ IsFiniteSet(Levels)
    BY CurriculumTreeAssumed DEF CurriculumTreeAssumption
  <2> QED  BY <2>1, <2>2, FS_Subset DEF Live, There
<1>5. \E steps : /\ Continue(p, steps, mem[p]) /\ IsSeq(steps)
                 /\ \A n \in DOMAIN steps :
                       /\ steps[n].at \in {"refresh", "worth"}
                       /\ Apt(ask[p], steps[n], ss, ls)
  <2>1. CASE ask[p].do = "allLessons"
    <3>1. PICK rows \in SetToSeqs(Live(lesson)) :
            Continue(p, [n \in DOMAIN rows |-> At("refresh", rows[n])], mem[p])
      BY <2>1 DEF Scan
    <3> DEFINE steps == [n \in DOMAIN rows |-> At("refresh", rows[n])]
    <3>2. /\ Cardinality(Live(lesson)) \in Nat /\ DOMAIN rows = 1 .. Cardinality(Live(lesson))
          /\ \A n \in DOMAIN rows : rows[n] \in Live(lesson)
      BY <1>3, <1>4
    <3>3. IsSeq(steps)  BY <3>2, Literal
    <3>4. \A n \in DOMAIN steps : steps[n].at = "refresh" /\ Apt(ask[p], steps[n], ss, ls)
      BY <1>4, <3>2 DEF At, Apt
    <3> HIDE DEF steps
    <3> QED  BY <3>1, <3>3, <3>4 DEF steps
  <2>2. CASE ask[p].do = "allLevels"
    <3>1. PICK rows \in SetToSeqs(Live(level)) :
            Continue(p, [n \in DOMAIN rows |-> At("worth", <<rows[n], level[rows[n]]>>)], mem[p])
      BY <2>2 DEF Scan
    <3> DEFINE steps == [n \in DOMAIN rows |-> At("worth", <<rows[n], level[rows[n]]>>)]
    <3>2. /\ Cardinality(Live(level)) \in Nat /\ DOMAIN rows = 1 .. Cardinality(Live(level))
          /\ \A n \in DOMAIN rows : rows[n] \in Live(level)
      BY <1>3, <1>4
    <3>3. IsSeq(steps)  BY <3>2, Literal
    <3>4. \A n \in DOMAIN rows : rows[n] \in ls /\ level[rows[n]] \in LevelRow
      BY <1>4, <3>2, ThereIs DEF TInv
    <3>5. \A n \in DOMAIN steps : steps[n].at = "worth" /\ Apt(ask[p], steps[n], ss, ls)
      BY <3>4 DEF At, Apt
    <3> HIDE DEF steps
    <3> QED  BY <3>1, <3>3, <3>5 DEF steps
  <2> QED  BY <2>1, <2>2 DEF Scan
<1>6. PICK steps : /\ Continue(p, steps, mem[p]) /\ IsSeq(steps)
                   /\ \A n \in DOMAIN steps :
                         /\ steps[n].at \in {"refresh", "worth"}
                         /\ Apt(ask[p], steps[n], ss, ls)
  BY <1>5
<1>7. Sound(ask[p], steps, ss, ls)
  <2>1. \A n \in DOMAIN steps : Open(steps[n])  BY <1>6 DEF Open, Prior
  <2> QED  BY <1>6, <2>1, OpenFollows DEF Sound, Chain
<1> HIDE DEF ss, ls
<1>8. Going'
  <2>1. todo[p] # <<>> /\ Head(todo[p]).at = "scan"  BY <1>1 DEF Does
  <2>2. CASE steps = <<>>
    <3>1. Continue(p, <<>>, mem[p])  BY <1>6, <2>2
    <3> QED  BY <1>1, <1>2, <3>1, GoesOn, ReadsStay DEF IInv, TInv
  <2>3. CASE steps # <<>>
    <3>1. 1 \in DOMAIN steps  BY <1>6, <2>3, Rest
    <3>2. HoldsAt(ask[p], steps[1].at, mem[p], ss, ls)  BY <1>6, <3>1 DEF HoldsAt
    <3>3. Begins(ask[p], steps, steps[1], ss, ls)  BY <1>7, <2>3 DEF Begins
    <3> QED  BY <1>1, <1>2, <1>6, <3>2, <3>3, GoesTo, ReadsStay DEF IInv, TInv, Closing
  <2> QED  BY <2>2, <2>3
<1> QED  BY <1>1, <1>8, RestTyped, ReadsKeep DEF tables

\* The lesson read is there, and so is its level.
LEMMA ReadLessonTypes ==
    ASSUME Given, IInv, TInv, NEW p \in Requests, ReadLesson(p)
    PROVE  TInv'
<1> DEFINE s == Row(p)  ss == There(lesson)  ls == There(level)
           held == Hold(p, "lesson", lesson[s])
           steps == Respread(s) \o Reload(lesson[s].level)
<1>1. /\ Does(p, "lesson")
      /\ UNCHANGED <<tables, ask, unsaved, failures, clean>>
      /\ There(lesson)' = ss /\ There(level)' = ls
      /\ Stop(p, "refused") \/ Continue(p, steps, held)
  BY DEF ReadLesson, tables, ghosts, There
<1>2. mem[p] \in MemRow /\ s \in ss  BY <1>1, HeadStep DEF IInv, TInv, Apt
<1>3. lesson[s] \in LessonRow /\ lesson[s].level \in ls
  BY <1>2, ThereIs DEF TInv, Rooted
<1>4. held \in MemRow /\ held.lesson = lesson[s]  BY <1>2, <1>3, HoldTyped
<1>5. Begins(ask[p], steps, At("count", <<s, "learning">>), ss, ls)
  <2>1. /\ Begins(ask[p], Respread(s), At("count", <<s, "learning">>), ss, ls)
        /\ Begins(ask[p], Reload(lesson[s].level), At("level", lesson[s].level), ss, ls)
    BY <1>2, <1>3, StepLists
  <2> QED  BY <2>1, BeginsJoins, OpenSteps
<1>6. HoldsAt(ask[p], "count", held, ss, ls)  BY <1>3, <1>4 DEF HoldsAt
<1> HIDE DEF steps, held, ss, ls
<1>7. Going'
  <2>1. CASE Stop(p, "refused")  BY <1>1, <2>1, Stops, ReadsStay DEF IInv, TInv
  <2>2. CASE Continue(p, steps, held)
    <3>1. At("count", <<s, "learning">>).at = "count"  BY DEF At
    <3> QED  BY <1>1, <1>4, <1>5, <1>6, <2>2, <3>1, GoesTo, ReadsStay DEF IInv, TInv, Closing
  <2> QED  BY <1>1, <2>1, <2>2
<1> QED  BY <1>1, <1>7, RestTyped, ReadsKeep DEF tables

(***************************************************************************)
(* Points                                                                  *)
(***************************************************************************)

\* Division of naturals.
LEMMA Divided ==
    /\ \A a, b \in Nat : a * b \in Nat
    /\ \A t \in Nat, n \in Nat \ {0} : t \div n \in Nat /\ (t \div n) * n <= t
OBVIOUS

\* The three kinds are finitely many.
LEMMA KindsFinite == IsFiniteSet(KindSet)
<1>1. KindSet = (({} \cup {"learning"}) \cup {"practice"}) \cup {"quiz"}  BY DEF KindSet
<1> QED  BY <1>1, FS_EmptySet, FS_AddElement

\* The points an item gets, and what is left, of the lesson in hand.
LEMMA PointsNat ==
    ASSUME NEW held \in MemRow, held.lesson \in LessonRow
    PROVE  /\ ItemCount(held) \in Nat /\ Points(held) \in Nat /\ Left(held) \in Nat
           /\ \A c \in Columns : Shares(held)[c] \in Nat
<1>1. held.count \in [KindSet -> Nat] /\ held.lesson.total \in Nat
  BY DEF MemRow, LessonRow
<1>2. ItemCount(held) \in Nat
  <2>1. SumFunction(held.count) = Part(held.count, KindSet)
    BY <1>1 DEF SumFunction, Part
  <2> QED  BY <1>1, <2>1, KindsFinite, PartNat DEF ItemCount
<1>3. Points(held) \in Nat /\ Points(held) * ItemCount(held) <= held.lesson.total
  <2>1. CASE ItemCount(held) = 0  BY <1>1, <2>1 DEF Points
  <2>2. CASE ItemCount(held) # 0
    <3> DEFINE n == ItemCount(held)  t == held.lesson.total
    <3>1. Points(held) = t \div n  BY <2>2 DEF Points
    <3>2. n \in Nat \ {0} /\ t \in Nat  BY <1>1, <1>2, <2>2
    <3> HIDE DEF n, t
    <3>3. t \div n \in Nat /\ (t \div n) * n <= t  BY <3>2, Divided
    <3> QED  BY <3>1, <3>3 DEF n, t
  <2> QED  BY <2>1, <2>2
<1>4. Left(held) \in Nat
  <2>1. Points(held) * ItemCount(held) \in Nat  BY <1>2, <1>3, Divided
  <2> QED  BY <1>1, <1>3, <2>1 DEF Left
<1>5. ASSUME NEW c \in Columns PROVE Shares(held)[c] \in Nat
  <2>1. CASE c = "brick"  BY <1>3, <2>1 DEF Shares
  <2>2. CASE c # "brick"
    <3>1. c \in KindSet  BY <2>2 DEF Columns
    <3>2. held.count[c] \in Nat  BY <1>1, <3>1
    <3>3. Shares(held)[c] = Points(held) * held.count[c]  BY <2>2 DEF Shares
    <3> QED  BY <1>3, <3>2, <3>3, Divided
  <2> QED  BY <2>1, <2>2
<1> QED  BY <1>2, <1>3, <1>4, <1>5

\* A count is a number, and the save it may send is of a lesson's columns.
LEMMA CountKindTypes ==
    ASSUME Given, IInv, TInv, NEW p \in Requests, CountKind(p)
    PROVE  TInv'
<1> DEFINE s == Row(p)[1]  k == Row(p)[2]  ss == There(lesson)  ls == There(level)
           held == [mem[p] EXCEPT !.count[k] = Cardinality(ItemsOfKind(s, k))]
<1>1. /\ Does(p, "count") /\ Continue(p, <<>>, held)
      /\ unsaved' = unsaved \cup (IF k = Kinds[3] THEN ShareSaves(p, s, held) ELSE {})
      /\ UNCHANGED <<tables, ask, failures, clean>>
      /\ There(lesson)' = ss
  BY DEF CountKind, tables, ghosts, There
<1>2. /\ mem[p] \in MemRow /\ mem[p].lesson \in LessonRow
      /\ s \in ss /\ k \in KindSet
  BY <1>1, HeadStep DEF IInv, TInv, Apt, HoldsAt
<1>3. Cardinality(ItemsOfKind(s, k)) \in Nat
  <2>1. ItemsOfKind(s, k) \subseteq Items  BY DEF ItemsOfKind, ItemsOf
  <2>2. IsFiniteSet(Items)  BY CurriculumTreeAssumed DEF CurriculumTreeAssumption
  <2> QED  BY <2>1, <2>2, FS_Subset, FS_CardinalityType
<1>4. held \in MemRow /\ held.lesson = mem[p].lesson
  BY <1>2, <1>3 DEF MemRow
<1> HIDE DEF held
<1>5. Going'
  BY <1>1, <1>2, <1>4, GoesOn, ReadsStay DEF IInv, TInv
<1>6. SavesTyped'
  <2>1. ASSUME NEW w \in unsaved' \ unsaved
        PROVE  w.by = p /\ w.at = "lesson" /\ w.of = s /\ w.set = Shares(held)
    BY <1>1, <2>1 DEF ShareSaves
  <2>2. DOMAIN Shares(held) = Columns /\ \A c \in Columns : Shares(held)[c] \in Nat
    <3>1. \A c \in Columns : Shares(held)[c] \in Nat  BY <1>2, <1>4, PointsNat
    <3> QED  BY <3>1 DEF Shares
  <2>3. ASSUME NEW w \in unsaved', w \notin unsaved
        PROVE  /\ w.at \in {"item", "lesson"} /\ w.by \in Requests /\ w.at # "item"
               /\ w.of \in ss /\ \A c \in DOMAIN w.set : c \in Columns /\ w.set[c] \in Nat
    BY <1>2, <2>1, <2>2, <2>3
  <2> QED  BY <1>1, <2>3 DEF TInv, SavesTyped
<1>7. Tallied'  BY <1>1, RestTyped
<1> QED  BY <1>1, <1>5, <1>6, <1>7, ReadsKeep

\* The remainder is sent to an item that is there, and to its lesson.
LEMMA SpreadRestTypes ==
    ASSUME Given, IInv, TInv, NEW p \in Requests, SpreadRest(p)
    PROVE  TInv'
<1> DEFINE s == Row(p)  k == LastKind(p)  left == Left(mem[p])
           share == Points(mem[p]) * mem[p].count[k] + left
           one(i) == [by |-> p, at |-> "item", of |-> i, set |-> item[i].points + left]
           other == [by |-> p, at |-> "lesson", of |-> s, set |-> [c \in {k} |-> share]]
<1>1. /\ Does(p, "last") /\ Continue(p, <<>>, mem[p])
      /\ unsaved' = unsaved \/ \E i \in ItemsOfKind(s, k) : unsaved' = unsaved \cup {one(i), other}
      /\ UNCHANGED <<tables, ask, failures, clean>>
      /\ There(lesson)' = There(lesson)
  <2>1. \A S : LastOf(S) \subseteq S  BY DEF LastOf
  <2> QED  BY <2>1 DEF SpreadRest, tables, ghosts, There
<1>2. /\ mem[p] \in MemRow /\ mem[p].lesson \in LessonRow /\ s \in There(lesson)
  BY <1>1, HeadStep DEF IInv, TInv, Apt, HoldsAt
<1>3. Going'
  BY <1>1, <1>2, GoesOn, ReadsStay DEF IInv, TInv
<1>4. SavesTyped'
  <2>1. CASE unsaved' = unsaved  BY <1>1, <2>1, RestTyped DEF tables
  <2>2. ASSUME NEW i \in ItemsOfKind(s, k), unsaved' = unsaved \cup {one(i), other}
        PROVE  SavesTyped'
    <3>1. i \in Items /\ item[i].points \in Nat
      <4>1. i \in There(item)  BY DEF ItemsOfKind, ItemsOf, There, TInv, Tabled
      <4>2. i \in Items /\ item[i] \in ItemRow  BY <4>1, ThereIs DEF TInv
      <4> QED  BY <4>2 DEF ItemRow
    <3>2. left \in Nat /\ share \in Nat /\ k \in Columns
      <4>1. k \in KindSet  BY DEF LastKind, KindSet
      <4>2. mem[p].count[k] \in Nat  BY <1>2, <4>1 DEF MemRow
      <4>3. Points(mem[p]) \in Nat /\ left \in Nat  BY <1>2, PointsNat
      <4>4. Points(mem[p]) * mem[p].count[k] \in Nat  BY <4>2, <4>3, Divided
      <4> HIDE DEF left
      <4> QED  BY <4>1, <4>3, <4>4 DEF Columns
    <3> HIDE DEF left, share, k
    <3>3. ASSUME NEW w \in unsaved', w \notin unsaved
          PROVE  /\ w.at \in {"item", "lesson"} /\ w.by \in Requests
                 /\ w.at = "item" => w.of \in Items /\ w.set \in Nat
                 /\ w.at = "lesson" =>
                       /\ w.of \in There(lesson)
                       /\ \A c \in DOMAIN w.set : c \in Columns /\ w.set[c] \in Nat
      <4>1. CASE w = one(i)  BY <3>1, <3>2, <4>1
      <4>2. CASE w = other  BY <1>2, <3>2, <4>2
      <4> QED  BY <2>2, <3>3, <4>1, <4>2
    <3> QED  BY <1>1, <3>3 DEF TInv, SavesTyped
  <2> QED  BY <1>1, <2>1, <2>2
<1>5. Tallied'  BY <1>1, RestTyped
<1> QED  BY <1>1, <1>3, <1>4, <1>5, ReadsKeep

\* A level's and a grade's points are counted as numbers.
LEMMA SumsNat ==
    ASSUME TInv
    PROVE  /\ \A l : SumFunction([s \in LiveLessons(l) |-> lesson[s].total]) \in Nat
           /\ \A g : SumFunction([l \in LiveLevels(g) |-> level[l].points]) \in Nat
<1>1. IsFiniteSet(Lessons) /\ IsFiniteSet(Levels)
  BY CurriculumTreeAssumed DEF CurriculumTreeAssumption
<1>2. ASSUME NEW l PROVE SumFunction([s \in LiveLessons(l) |-> lesson[s].total]) \in Nat
  <2> DEFINE S == LiveLessons(l)  f == [s \in S |-> lesson[s].total]
  <2>1. S \subseteq There(lesson)  BY DEF LiveLessons, Live, There
  <2>2. S \subseteq Lessons /\ \A s \in S : lesson[s] \in LessonRow
    BY <2>1, ThereIs DEF TInv
  <2>3. IsFiniteSet(S)  BY <1>1, <2>2, FS_Subset
  <2>4. \A s \in S : f[s] \in Nat  BY <2>2 DEF LessonRow
  <2>5. DOMAIN f = S  OBVIOUS
  <2> HIDE DEF f, S
  <2>6. Part(f, S) \in Nat  BY <2>3, <2>4, PartNat
  <2> QED  BY <2>5, <2>6 DEF SumFunction, Part, f, S
<1>3. ASSUME NEW g PROVE SumFunction([l \in LiveLevels(g) |-> level[l].points]) \in Nat
  <2> DEFINE S == LiveLevels(g)  f == [l \in S |-> level[l].points]
  <2>1. S \subseteq There(level)  BY DEF LiveLevels, Live, There
  <2>2. S \subseteq Levels /\ \A l \in S : level[l] \in LevelRow
    BY <2>1, ThereIs DEF TInv
  <2>3. IsFiniteSet(S)  BY <1>1, <2>2, FS_Subset
  <2>4. \A l \in S : f[l] \in Nat  BY <2>2 DEF LevelRow
  <2>5. DOMAIN f = S  OBVIOUS
  <2> HIDE DEF f, S
  <2>6. Part(f, S) \in Nat  BY <2>3, <2>4, PartNat
  <2> QED  BY <2>5, <2>6 DEF SumFunction, Part, f, S
<1> QED  BY <1>2, <1>3

\* The reads of updateLevelPoints and updateGradePoints.
LEMMA SumReadsType ==
    ASSUME Given, IInv, TInv, NEW p \in Requests,
           ReadLevel(p) \/ SumLessons(p) \/ CountQuiz(p) \/ ReadGrade(p) \/ SumLevels(p)
    PROVE  TInv'
<1>1. UNCHANGED <<tables, ask, unsaved, failures, clean>>
  BY DEF ReadLevel, SumLessons, CountQuiz, ReadGrade, SumLevels, tables, ghosts
<1>2. UNCHANGED ask /\ Stay /\ Todos /\ Going  BY <1>1, ReadsStay DEF IInv, TInv
<1>3. CASE ReadLevel(p)
  <2> DEFINE v == level[Row(p)]  held == Hold(p, "level", v)
  <2>1. Does(p, "level") /\ Continue(p, <<>>, held)  BY <1>3 DEF ReadLevel
  <2>2. mem[p] \in MemRow /\ Row(p) \in There(level)  BY <1>2, <2>1, HeadStep DEF Apt
  <2>3. v \in LevelInHand
    <3>1. v \in LevelRow  BY <2>2, ThereIs DEF TInv
    <3> QED  BY <3>1 DEF LevelRow, LevelInHand
  <2>4. held \in MemRow /\ held.level = v  BY <2>2, <2>3, HoldTyped
  <2> HIDE DEF held
  <2> QED  BY <1>1, <1>2, <2>1, <2>3, <2>4, GoesOn, RestTyped, ReadsKeep DEF tables
<1>4. CASE SumLessons(p)
  <2> DEFINE v == SumFunction([s \in LiveLessons(Row(p)) |-> lesson[s].total])
             held == Hold(p, "sum", v)
  <2>1. Does(p, "sum") /\ Continue(p, <<>>, held)  BY <1>4 DEF SumLessons
  <2>2. mem[p] \in MemRow /\ mem[p].level \in LevelInHand
    BY <1>2, <2>1, HeadStep DEF HoldsAt
  <2>3. v \in Nat  BY SumsNat
  <2> HIDE DEF v
  <2>4. held \in MemRow /\ held.level = mem[p].level /\ held.sum = v
    BY <2>2, <2>3, HoldTyped
  <2> HIDE DEF held
  <2> QED  BY <1>1, <1>2, <2>1, <2>2, <2>3, <2>4, GoesOn, RestTyped, ReadsKeep DEF tables
<1>5. CASE CountQuiz(p)
  <2> DEFINE v == mem[p].sum + (IF HasQuiz(Row(p)) THEN mem[p].level.worth ELSE 0)
             held == Hold(p, "sum", v)
  <2>1. Does(p, "quiz") /\ Continue(p, <<>>, held)  BY <1>5 DEF CountQuiz
  <2>2. mem[p] \in MemRow /\ mem[p].level \in LevelInHand /\ mem[p].sum \in Nat
    BY <1>2, <2>1, HeadStep DEF HoldsAt
  <2>3. v \in Nat
    <3>1. mem[p].level.worth \in Nat  BY <2>2 DEF LevelInHand
    <3> QED  BY <2>2, <3>1
  <2> HIDE DEF v
  <2>4. held \in MemRow /\ held.level = mem[p].level /\ held.sum = v
    BY <2>2, <2>3, HoldTyped
  <2> HIDE DEF held
  <2> QED  BY <1>1, <1>2, <2>1, <2>2, <2>3, <2>4, GoesOn, RestTyped, ReadsKeep DEF tables
<1>6. CASE ReadGrade(p)
  <2> DEFINE v == grade[Row(p)]  held == Hold(p, "grade", v)
  <2>1. Does(p, "grade") /\ Continue(p, <<>>, held)  BY <1>6 DEF ReadGrade
  <2>2. mem[p] \in MemRow /\ Row(p) \in Grades  BY <1>2, <2>1, HeadStep DEF Apt
  <2>3. v \in Nat  BY <2>2 DEF TInv, Tabled
  <2>4. held \in MemRow  BY <2>2, <2>3, HoldTyped
  <2> HIDE DEF held
  <2> QED  BY <1>1, <1>2, <2>1, <2>4, GoesOn, RestTyped, ReadsKeep DEF tables
<1>7. CASE SumLevels(p)
  <2> DEFINE v == IF LiveLevels(Row(p)) = {} THEN None
                  ELSE SumFunction([l \in LiveLevels(Row(p)) |-> level[l].points])
             held == Hold(p, "sum", v)
  <2>1. Does(p, "sumGrade") /\ Continue(p, <<>>, held)  BY <1>7 DEF SumLevels
  <2>2. mem[p] \in MemRow  BY <1>2, <2>1, HeadStep
  <2>3. v \in Nat \cup {None}  BY SumsNat
  <2> HIDE DEF v
  <2>4. held \in MemRow  BY <2>2, <2>3, HoldTyped
  <2> HIDE DEF held
  <2> QED  BY <1>1, <1>2, <2>1, <2>4, GoesOn, RestTyped, ReadsKeep DEF tables
<1> QED  BY <1>3, <1>4, <1>5, <1>6, <1>7

\* A reorder compares its list with the rows, and goes on placing them.
LEMMA ReorderTypes ==
    ASSUME Given, IInv, TInv, NEW p \in Requests, CheckChild(p) \/ ListChildren(p) \/ Place(p)
    PROVE  TInv'
<1> DEFINE ss == There(lesson)  ls == There(level)
<1>1. /\ UNCHANGED <<tables, ask, unsaved, failures, clean>>
      /\ There(lesson)' = ss /\ There(level)' = ls
  BY DEF CheckChild, ListChildren, Place, tables, ghosts, There
<1>2. UNCHANGED ask /\ Stay /\ Todos /\ Going  BY <1>1, ReadsStay DEF IInv, TInv
<1>3. CASE Stop(p, "refused")
  BY <1>1, <1>2, <1>3, Stops, RestTyped, ReadsKeep DEF tables
<1>4. ASSUME ~Stop(p, "refused"), CheckChild(p) \/ Place(p) PROVE TInv'
  <2>1. \E step \in {"check", "place"} : Does(p, step) /\ Continue(p, <<>>, mem[p])
    <3>1. CASE CheckChild(p)  BY <1>4, <3>1 DEF CheckChild
    <3>2. CASE Place(p)  BY <3>2 DEF Place
    <3> QED  BY <1>4, <3>1, <3>2
  <2>2. mem[p] \in MemRow  BY <1>2, <2>1, HeadStep
  <2> QED  BY <1>1, <1>2, <2>1, <2>2, GoesOn, RestTyped, ReadsKeep DEF tables
<1>5. CASE ListChildren(p) /\ ~Stop(p, "refused")
  <2> DEFINE a == ask[p]
             places == [n \in DOMAIN a.list |-> At("place", <<a.list[n], n>>)]
             last == <<At("commit", None)>>
  <2>1. Does(p, "list") /\ Continue(p, places \o last, mem[p])
    BY <1>5 DEF ListChildren
  <2>2. mem[p] \in MemRow /\ a \in AskRow  BY <1>2, <2>1, HeadStep
  <2>3. Sound(a, places, ss, ls)
    <3>1. IsSeq(places)
      <4>1. a.list \in Seq(Items)  BY <2>2 DEF AskRow
      <4>2. Len(a.list) \in Nat /\ DOMAIN a.list = 1 .. Len(a.list)  BY <4>1
      <4> QED  BY <4>2, Literal
    <3>2. \A n \in DOMAIN places : Open(places[n]) /\ Apt(a, places[n], ss, ls)
      BY DEF Open, At, Prior, Apt
    <3> HIDE DEF places
    <3> QED  BY <3>1, <3>2, OpenFollows DEF Sound, Chain
  <2>4. Begins(a, last, At("commit", None), ss, ls)
    BY DEF Begins, Sound, IsSeq, Chain, Apt, At
  <2>5. \E x : Begins(a, places \o last, At("place", x), ss, ls)
               \/ Begins(a, places \o last, At("commit", x), ss, ls)
    <3>1. CASE places = <<>>
      <4>1. places \o last = last  BY <2>4, <3>1, NothingBefore DEF Begins, Sound
      <4> QED  BY <2>4, <4>1
    <3>2. CASE places # <<>>
      <4>1. 1 \in DOMAIN places
        <5> HIDE DEF places
        <5> QED  BY <2>3, <3>2, Rest DEF Sound
      <4>2. \E x : places[1] = At("place", x)  BY <4>1
      <4>3. Begins(a, places, places[1], ss, ls)  BY <2>3, <3>2 DEF Begins
      <4>4. Open(At("commit", None))  BY DEF Open, At, Prior
      <4> HIDE DEF places, last
      <4> QED  BY <2>4, <4>2, <4>3, <4>4, BeginsJoins
    <3> QED  BY <3>1, <3>2
  <2>6. \A x : /\ HoldsAt(a, At("place", x).at, mem[p], ss, ls)
               /\ HoldsAt(a, At("commit", x).at, mem[p], ss, ls)
    BY DEF HoldsAt, At
  <2> HIDE DEF places, last, a, ss, ls
  <2>7. Going'
    BY <1>1, <1>2, <2>1, <2>2, <2>5, <2>6, GoesTo DEF Closing, a
  <2> QED  BY <1>1, <2>7, RestTyped, ReadsKeep DEF tables
<1> QED  BY <1>3, <1>4, <1>5

\* A request that fails has nothing left to do; a save that is lost is gone.
LEMMA FailuresType ==
    ASSUME Given, IInv, TInv
    PROVE  /\ \A p \in Requests : Fail(p) \/ Deadlocked(p) => TInv'
           /\ \A w \in unsaved : LoseSave(w) => TInv'
<1>0. MaxFailures \in Nat  BY CurriculumTreeAssumed DEF CurriculumTreeAssumption
<1>1. ASSUME NEW p \in Requests, Fail(p) \/ Deadlocked(p) PROVE TInv'
  <2>1. /\ UNCHANGED <<tables, ask, unsaved, clean>> /\ Stop(p, "failed")
        /\ failures' = failures \/ (failures < MaxFailures /\ failures' = failures + 1)
    BY <1>1 DEF Fail, Deadlocked, tables, ghosts
  <2>2. UNCHANGED ask /\ Stay /\ Todos /\ Going  BY <2>1, ReadsStay DEF IInv, TInv
  <2>3. Going'  BY <2>1, <2>2, Stops
  <2>4. Tallied'  BY <1>0, <2>1 DEF TInv, Tallied
  <2> QED  BY <2>1, <2>3, <2>4, RestTyped, ReadsKeep DEF tables
<1>2. ASSUME NEW w \in unsaved, LoseSave(w) PROVE TInv'
  <2>1. /\ UNCHANGED <<tables, ask, status, todo, mem>> /\ unsaved' \subseteq unsaved
        /\ failures < MaxFailures /\ failures' = failures + 1
        /\ clean' = [clean EXCEPT ![w.by] = FALSE]
    BY <1>2 DEF LoseSave, tables
  <2>2. Stay /\ Going  BY <2>1, ReadsStay DEF TInv
  <2>3. Going'  BY <2>1, <2>2, Waiting
  <2>4. Tallied'
    <3>1. clean' \in [Requests -> BOOLEAN]  BY <2>1 DEF TInv, Tallied
    <3> QED  BY <1>0, <2>1, <3>1 DEF TInv, Tallied
  <2>5. SavesTyped'  BY <2>1 DEF TInv, SavesTyped, There, tables
  <2> QED  BY <2>1, <2>3, <2>4, <2>5, ReadsKeep
<1> QED  BY <1>1, <1>2

(***************************************************************************)
(* Steps that write                                                        *)
(***************************************************************************)

\* Where lessons stay, what is not saved yet keeps its types.
LEMMA SavesStay == TInv /\ unsaved' \subseteq unsaved /\ Stay => SavesTyped'
BY DEF TInv, SavesTyped, Stay

\* Items are written, each under a lesson that is there.
LEMMA ItemsWritten ==
    ASSUME TInv, UNCHANGED <<grade, level, lesson, question, ask>>,
           item' \in [Items -> ItemRow \cup {None}],
           \A i \in Items : item'[i] # None => item'[i].lesson \in There(lesson),
           Going', SavesTyped', Tallied'
    PROVE  TInv'
<1>1. Tabled'  BY DEF TInv, Tabled
<1>2. \A i \in There(item)' : i \in Items /\ item'[i] # None  BY DEF There
<1>3. There(lesson)' = There(lesson) /\ There(level)' = There(level)
      /\ There(question)' = There(question)
  BY DEF There
<1>4. Rooted'  BY <1>2, <1>3 DEF TInv, Rooted
<1> QED  BY <1>1, <1>4 DEF TInv

\* Lessons are written, each under a level that is there, and none goes.
LEMMA LessonsWritten ==
    ASSUME TInv, UNCHANGED <<grade, level, item, question, ask>>,
           lesson' \in [Lessons -> LessonRow \cup {None}],
           \A s \in Lessons : /\ lesson'[s] # None => lesson'[s].level \in There(level)
                              /\ lesson[s] # None => lesson'[s] # None
    PROVE  Tabled' /\ Rooted' /\ Stay
<1>1. Tabled'  BY DEF TInv, Tabled
<1>2. There(lesson) \subseteq There(lesson)'  BY DEF There, TInv, Tabled
<1>3. There(level)' = There(level) /\ There(item)' = There(item)
      /\ There(question)' = There(question)
  BY DEF There
<1>4. \A s \in There(lesson)' : lesson'[s].level \in There(level)  BY DEF There
<1>5. Rooted'  BY <1>2, <1>3, <1>4 DEF TInv, Rooted
<1> QED  BY <1>1, <1>2, <1>3, <1>5 DEF Stay

\* Levels are written, and none goes.
LEMMA LevelsWritten ==
    ASSUME TInv, UNCHANGED <<grade, lesson, item, question, ask>>,
           level' \in [Levels -> LevelRow \cup {None}],
           \A l \in Levels : level[l] # None => level'[l] # None
    PROVE  Tabled' /\ Rooted' /\ Stay
<1>1. Tabled'  BY DEF TInv, Tabled
<1>2. There(level) \subseteq There(level)'  BY DEF There, TInv, Tabled
<1>3. There(lesson)' = There(lesson) /\ There(item)' = There(item)
      /\ There(question)' = There(question)
  BY DEF There
<1>4. Rooted'  BY <1>2, <1>3 DEF TInv, Rooted
<1> QED  BY <1>1, <1>2, <1>3, <1>4 DEF Stay

\* The row at the write is in hand.
LEMMA AtWrite ==
    ASSUME Given, IInv, TInv, NEW p \in Requests, Does(p, "write")
    PROVE  /\ mem[p] \in MemRow /\ ask[p] \in AskRow /\ ask[p] # None
           /\ RowInHand(ask[p], mem[p].row, There(lesson), There(level))
           /\ "write" \in Closing /\ todo[p] # <<>>
BY HeadStep DEF IInv, TInv, HoldsAt, Closing

\* An item is added under a lesson that is there, removed, moved or ordered.
LEMMA WriteItemTypes ==
    ASSUME Given, IInv, TInv, NEW p \in Requests, WriteItem(p)
    PROVE  TInv'
<1> DEFINE a == ask[p]  i == a.item  old == mem[p].row
<1>1. /\ Does(p, "write") /\ UNCHANGED <<grade, level, lesson, question, ask>>
      /\ UNCHANGED <<unsaved, failures, clean>>
  BY DEF WriteItem
<1>2. /\ mem[p] \in MemRow /\ a \in AskRow /\ a # None
      /\ RowInHand(a, old, There(lesson), There(level))
  BY <1>1, AtWrite
<1>3. UNCHANGED ask /\ Stay /\ Todos /\ Going  BY <1>1, ReadsStay DEF IInv, TInv
<1>4. There(lesson)' = There(lesson) /\ There(level)' = There(level)  BY <1>1 DEF There
<1>5. /\ a.do \in {"addItem"} \cup OfItem /\ i \in Items /\ a.n \in Nat
      /\ a.do \in {"addItem", "editItem"} => a.lesson \in There(lesson)
  <2>1. a.do \in {"addItem"} \cup OfItem  BY DEF WriteItem, OfItem
  <2>2. i \in Items /\ a.n \in Nat  BY <1>2, <2>1, AskedRows DEF Given
  <2>3. a.do \in {"addItem", "editItem"} => "lesson" \in Under(a.do)  BY DEF Under
  <2> QED  BY <1>2, <2>1, <2>2, <2>3 DEF TInv, Rooted
<1>6. ASSUME NEW x \in There(lesson), Continue(p, Recount(x), mem[p]) PROVE Going'
  <2>1. Begins(ask[p], Recount(x), At("lesson", x), There(lesson)', There(level)')
    BY <1>4, StepLists
  <2>2. At("lesson", x).at = "lesson"  BY DEF At
  <2> QED  BY <1>1, <1>2, <1>3, <1>6, <2>1, <2>2, GoesTo, OpenSteps DEF Closing
<1>7. ASSUME Continue(p, <<>>, mem[p]) PROVE Going'
  BY <1>1, <1>2, <1>3, <1>7, GoesOn
<1>8. item \in [Items -> ItemRow \cup {None}]  BY DEF TInv, Tabled
<1>9. ASSUME NEW j \in Items, item[j] # None
      PROVE  item[j] \in ItemRow /\ item[j].lesson \in There(lesson)
  BY <1>8, <1>9 DEF TInv, Rooted, There
<1>10. /\ item' \in [Items -> ItemRow \cup {None}] /\ Going'
       /\ \A j \in Items : item'[j] # None => item'[j].lesson \in There(lesson)
  <2>1. CASE a.do = "addItem"
    <3> DEFINE row == [lesson |-> a.lesson, order |-> a.n, points |-> 0]
    <3>1. item' = [item EXCEPT ![i] = row] /\ Continue(p, Recount(a.lesson), mem[p])
      BY <2>1 DEF WriteItem
    <3>2. a.lesson \in There(lesson) /\ a.lesson \in Lessons
      BY <1>5, <2>1, ThereIs DEF TInv
    <3>3. row \in ItemRow /\ row.lesson \in There(lesson)  BY <1>5, <3>2 DEF ItemRow
    <3> HIDE DEF row
    <3>4. \A j \in Items : item'[j] = IF j = i THEN row ELSE item[j]  BY <1>8, <3>1
    <3> QED  BY <1>6, <1>8, <1>9, <3>1, <3>2, <3>3, <3>4
  <2>2. CASE a.do = "dropItem"
    <3>1. item' = [item EXCEPT ![i] = None] /\ Continue(p, Recount(old.lesson), mem[p])
      BY <2>2 DEF WriteItem
    <3>2. old.lesson \in There(lesson)  BY <1>2, <2>2 DEF RowInHand, OfItem
    <3>3. \A j \in Items : item'[j] = IF j = i THEN None ELSE item[j]  BY <1>8, <3>1
    <3> QED  BY <1>6, <1>8, <1>9, <3>1, <3>2, <3>3
  <2>3. CASE a.do = "editItem"
    <3>1. /\ item' = IF item[i] = None THEN item
                     ELSE [item EXCEPT ![i].lesson = a.lesson, ![i].points = a.n]
          /\ Continue(p, <<>>, mem[p])
      BY <2>3 DEF WriteItem
    <3>2. a.lesson \in There(lesson) /\ a.lesson \in Lessons
      BY <1>5, <2>3, ThereIs DEF TInv
    <3>3. CASE item[i] = None  BY <1>7, <1>8, <1>9, <3>1, <3>3
    <3>4. CASE item[i] # None
      <4> DEFINE row == [item[i] EXCEPT !.lesson = a.lesson, !.points = a.n]
      <4>1. \A j \in Items : item'[j] = IF j = i THEN row ELSE item[j]
        BY <1>8, <3>1, <3>4
      <4>2. row \in ItemRow /\ row.lesson = a.lesson
        BY <1>5, <1>9, <3>2, <3>4 DEF ItemRow
      <4>3. DOMAIN item' = Items /\ item' = [j \in Items |-> item'[j]]  BY <1>8, <3>1, <3>4
      <4> HIDE DEF row
      <4>4. \A j \in Items : item'[j] \in ItemRow \cup {None}  BY <1>8, <4>1, <4>2
      <4>5. item' \in [Items -> ItemRow \cup {None}]  BY <4>3, <4>4
      <4>6. \A j \in Items : item'[j] # None => item'[j].lesson \in There(lesson)
        BY <1>9, <3>2, <4>1, <4>2
      <4>7. Going'  BY <1>7, <3>1
      <4> QED  BY <4>5, <4>6, <4>7
    <3> QED  BY <3>3, <3>4
  <2>4. CASE a.do = "orderItem"
    <3>1. /\ item' = item \/ (item[i] # None /\ item' = [item EXCEPT ![i].order = a.n])
          /\ Continue(p, <<>>, mem[p])
      BY <2>4 DEF WriteItem
    <3>2. CASE item' = item  BY <1>7, <1>8, <1>9, <3>1, <3>2
    <3>3. CASE item[i] # None /\ item' = [item EXCEPT ![i].order = a.n]
      <4> DEFINE row == [item[i] EXCEPT !.order = a.n]
      <4>1. \A j \in Items : item'[j] = IF j = i THEN row ELSE item[j]
        BY <1>8, <3>3
      <4>2. row \in ItemRow /\ row.lesson = item[i].lesson
        BY <1>5, <1>9, <3>3 DEF ItemRow
      <4>3. DOMAIN item' = Items /\ item' = [j \in Items |-> item'[j]]  BY <1>8, <3>3
      <4> HIDE DEF row
      <4>4. \A j \in Items : item'[j] \in ItemRow \cup {None}  BY <1>8, <4>1, <4>2
      <4>5. item' \in [Items -> ItemRow \cup {None}]  BY <4>3, <4>4
      <4>6. \A j \in Items : item'[j] # None => item'[j].lesson \in There(lesson)
        BY <1>9, <3>3, <4>1, <4>2
      <4>7. Going'  BY <1>7, <3>1
      <4> QED  BY <4>5, <4>6, <4>7
    <3> QED  BY <3>1, <3>2, <3>3
  <2> QED  BY <1>5, <2>1, <2>2, <2>3, <2>4 DEF OfItem
<1>11. SavesTyped' /\ Tallied'  BY <1>1, <1>3, SavesStay, RestTyped
<1> QED  BY <1>1, <1>10, <1>11, ItemsWritten

\* A lesson comes under a level that is there, is deleted or switched.
LEMMA WriteLessonTypes ==
    ASSUME Given, IInv, TInv, NEW p \in Requests, WriteLesson(p)
    PROVE  TInv'
<1> DEFINE a == ask[p]  s == a.lesson  old == mem[p].row  ss == There(lesson)  ls == There(level)
<1>1. /\ Does(p, "write") /\ UNCHANGED <<grade, level, item, question, ask>>
      /\ UNCHANGED <<unsaved, failures, clean>>
  BY DEF WriteLesson
<1>2. /\ mem[p] \in MemRow /\ a \in AskRow /\ a # None
      /\ RowInHand(a, old, ss, ls)
  BY <1>1, AtWrite
<1>3. /\ a.do \in {"addLesson"} \cup OfLesson /\ s \in Lessons /\ a.on \in BOOLEAN
      /\ a.do \in {"addLesson", "editLesson"} => a.level \in ls /\ a.level \in Levels
      /\ a.do \in OfLesson => old.level \in ls /\ lesson[s] \in LessonRow /\ lesson[s].level \in ls
  <2>1. a.do \in {"addLesson"} \cup OfLesson  BY DEF WriteLesson, OfLesson
  <2>2. s \in Lessons /\ a.on \in BOOLEAN  BY <1>2, <2>1, AskedRows DEF Given, AskRow
  <2>3. a.do \in {"addLesson", "editLesson"} => "level" \in Under(a.do)  BY DEF Under
  <2>4. a.do \in OfLesson => old.level \in ls /\ s \in ss  BY <1>2 DEF RowInHand
  <2> QED  BY <1>2, <2>1, <2>2, <2>3, <2>4, ThereIs DEF TInv, Rooted
<1>4. lesson \in [Lessons -> LessonRow \cup {None}]  BY DEF TInv, Tabled
<1>5. \E row : /\ row \in LessonRow /\ row.level \in ls
               /\ DOMAIN lesson' = Lessons /\ lesson' = [t \in Lessons |-> lesson'[t]]
               /\ \A t \in Lessons : lesson'[t] = IF t = s THEN row ELSE lesson[t]
  <2>1. CASE a.do = "addLesson"
    <3> DEFINE row == [level |-> a.level, on |-> TRUE, deleted |-> FALSE, total |-> Total,
                       shares |-> [c \in Columns |-> 0]]
    <3>1. lesson' = [lesson EXCEPT ![s] = row]  BY <2>1 DEF WriteLesson
    <3>2. Total \in Nat  BY CurriculumTreeAssumed DEF CurriculumTreeAssumption
    <3>3. row \in LessonRow /\ row.level = a.level  BY <1>3, <2>1, <3>2 DEF LessonRow
    <3> HIDE DEF row
    <3> QED  BY <1>3, <1>4, <2>1, <3>1, <3>3
  <2>2. CASE a.do = "editLesson"
    <3> DEFINE row == [lesson[s] EXCEPT !.level = a.level, !.total = Total]
    <3>1. lesson' = [lesson EXCEPT ![s].level = a.level, ![s].total = Total]
      BY <2>2 DEF WriteLesson
    <3>2. Total \in Nat  BY CurriculumTreeAssumed DEF CurriculumTreeAssumption
    <3>3. row \in LessonRow /\ row.level = a.level
      BY <1>3, <2>2, <3>2 DEF LessonRow, OfLesson
    <3>4. \A t \in Lessons : lesson'[t] = IF t = s THEN row ELSE lesson[t]
      BY <1>4, <3>1
    <3>5. DOMAIN lesson' = Lessons /\ lesson' = [t \in Lessons |-> lesson'[t]]
      BY <1>4, <3>1
    <3> HIDE DEF row
    <3> QED  BY <1>3, <2>2, <3>3, <3>4, <3>5
  <2>3. CASE a.do = "dropLesson"
    <3> DEFINE row == [lesson[s] EXCEPT !.deleted = TRUE]
    <3>1. lesson' = [lesson EXCEPT ![s].deleted = TRUE]  BY <2>3 DEF WriteLesson
    <3>2. row \in LessonRow /\ row.level = lesson[s].level  BY <1>3, <2>3 DEF LessonRow, OfLesson
    <3>3. \A t \in Lessons : lesson'[t] = IF t = s THEN row ELSE lesson[t]
      BY <1>4, <3>1
    <3>4. DOMAIN lesson' = Lessons /\ lesson' = [t \in Lessons |-> lesson'[t]]
      BY <1>4, <3>1
    <3> HIDE DEF row
    <3> QED  BY <1>3, <2>3, <3>2, <3>3, <3>4 DEF OfLesson
  <2>4. CASE a.do = "switchLesson"
    <3>1. lesson' = IF a.on = old.on THEN lesson ELSE [lesson EXCEPT ![s].on = a.on]
      BY <2>4 DEF WriteLesson
    <3>2. CASE lesson' = lesson
      BY <1>3, <1>4, <2>4, <3>2 DEF OfLesson
    <3>3. CASE lesson' = [lesson EXCEPT ![s].on = a.on]
      <4> DEFINE row == [lesson[s] EXCEPT !.on = a.on]
      <4>1. row \in LessonRow /\ row.level = lesson[s].level  BY <1>3, <2>4 DEF LessonRow, OfLesson
      <4>2. \A t \in Lessons : lesson'[t] = IF t = s THEN row ELSE lesson[t]
        BY <1>4, <3>3
      <4>3. DOMAIN lesson' = Lessons /\ lesson' = [t \in Lessons |-> lesson'[t]]
        BY <1>4, <3>3
      <4> HIDE DEF row
      <4> QED  BY <1>3, <2>4, <4>1, <4>2, <4>3 DEF OfLesson
    <3> QED  BY <3>1, <3>2, <3>3
  <2> QED  BY <1>3, <2>1, <2>2, <2>3, <2>4 DEF OfLesson
<1>6. Tabled' /\ Rooted' /\ Stay /\ s \in There(lesson)' /\ There(level)' = ls
  <2>1. PICK row : /\ row \in LessonRow /\ row.level \in ls
                   /\ DOMAIN lesson' = Lessons /\ lesson' = [t \in Lessons |-> lesson'[t]]
                   /\ \A t \in Lessons : lesson'[t] = IF t = s THEN row ELSE lesson[t]
    BY <1>5
  <2>2. None \notin LessonRow  BY CurriculumTreeAssumed DEF CurriculumTreeAssumption
  <2>3. \A t \in Lessons : lesson'[t] \in LessonRow \cup {None}  BY <1>4, <2>1
  <2>4. lesson' \in [Lessons -> LessonRow \cup {None}]  BY <2>1, <2>3
  <2>5. \A t \in Lessons : /\ lesson'[t] # None => lesson'[t].level \in ls
                           /\ lesson[t] # None => lesson'[t] # None
    <3>1. \A t \in Lessons : lesson[t] # None => lesson[t].level \in ls
      BY <1>4 DEF TInv, Rooted, There
    <3> QED  BY <2>1, <2>2, <3>1
  <2>6. s \in There(lesson)'  BY <1>3, <2>1, <2>2 DEF There
  <2> QED  BY <1>1, <2>4, <2>5, <2>6, LessonsWritten DEF There
<1>7. UNCHANGED ask /\ Todos /\ Going  BY <1>1 DEF IInv, TInv
<1>8. \E steps, first : /\ Continue(p, steps, mem[p])
                        /\ Begins(a, steps, first, There(lesson)', There(level)')
                        /\ first.at \in {"level", "lesson"}
  <2>1. \A x \in ls : Begins(a, Reload(x), At("level", x), There(lesson)', There(level)')
    BY <1>6, StepLists
  <2>2. Begins(a, Recount(s), At("lesson", s), There(lesson)', There(level)')
    BY <1>6, StepLists
  <2>3. \A x \in ls :
          Begins(a, Recount(s) \o Reload(x), At("lesson", s), There(lesson)', There(level)')
    BY <2>1, <2>2, BeginsJoins, OpenSteps
  <2>4. Recount(s) \o <<>> = Recount(s)  BY DEF Recount
  <2>5. \A x : At("level", x).at = "level" /\ At("lesson", x).at = "lesson"  BY DEF At
  <2>6. CASE a.do = "addLesson"
    <3>1. Continue(p, Reload(a.level), mem[p])  BY <2>6 DEF WriteLesson
    <3> QED  BY <1>3, <2>1, <2>5, <2>6, <3>1
  <2>7. CASE a.do = "editLesson"
    <3>1. Continue(p, Recount(s) \o (IF old.level # a.level THEN Reload(old.level) ELSE <<>>), mem[p])
      BY <2>7 DEF WriteLesson
    <3>2. CASE old.level # a.level
      BY <1>3, <2>3, <2>5, <2>7, <3>1, <3>2 DEF OfLesson
    <3>3. CASE old.level = a.level
      BY <2>2, <2>4, <2>5, <3>1, <3>3
    <3> QED  BY <3>2, <3>3
  <2>8. CASE a.do \in {"dropLesson", "switchLesson"}
    <3>1. Continue(p, Reload(old.level), mem[p])  BY <2>8 DEF WriteLesson
    <3> QED  BY <1>3, <2>1, <2>5, <2>8, <3>1 DEF OfLesson
  <2> QED  BY <1>3, <2>6, <2>7, <2>8 DEF OfLesson
<1>9. Going'
  <2>1. PICK steps, first : /\ Continue(p, steps, mem[p])
                            /\ Begins(a, steps, first, There(lesson)', There(level)')
                            /\ first.at \in {"level", "lesson"}
    BY <1>8
  <2>2. HoldsAt(a, first.at, mem[p], There(lesson)', There(level)')  BY <2>1 DEF HoldsAt
  <2> QED  BY <1>1, <1>2, <1>6, <1>7, <2>1, <2>2, GoesTo DEF Closing
<1>10. SavesTyped' /\ Tallied'  BY <1>1, <1>6, SavesStay, RestTyped
<1> QED  BY <1>6, <1>9, <1>10 DEF TInv

\* A level is written; its own request goes on with the level in hand.
LEMMA WriteLevelTypes ==
    ASSUME Given, IInv, TInv, NEW p \in Requests, WriteLevel(p)
    PROVE  TInv'
<1> DEFINE a == ask[p]  l == a.level  old == mem[p].row  ss == There(lesson)  ls == There(level)
           new == [grade |-> a.grade, on |-> TRUE, deleted |-> FALSE, worth |-> a.n, points |-> 0]
<1>1. /\ Does(p, "write") /\ UNCHANGED <<grade, lesson, item, question, ask>>
      /\ UNCHANGED <<unsaved, failures, clean>>
  BY DEF WriteLevel
<1>2. /\ mem[p] \in MemRow /\ a \in AskRow /\ a # None
      /\ RowInHand(a, old, ss, ls)
  BY <1>1, AtWrite
<1>3. /\ a.do \in {"addLevel"} \cup OfLevel /\ l \in Levels /\ a.on \in BOOLEAN /\ a.n \in Nat
      /\ a.do \in {"addLevel", "editLevel"} => a.grade \in Grades
      /\ a.do \in OfLevel => old \in LevelRow /\ level[l] \in LevelRow
  <2>1. a.do \in {"addLevel"} \cup OfLevel  BY DEF WriteLevel, OfLevel
  <2>2. l \in Levels /\ a.on \in BOOLEAN /\ a.n \in Nat
    BY <1>2, <2>1, AskedRows DEF Given, AskRow
  <2>3. a.do \in {"addLevel", "editLevel"} => a.grade \in Grades
    BY <1>2, AskedRows DEF Given
  <2>4. a.do \in OfLevel => old \in LevelRow /\ l \in ls  BY <1>2 DEF RowInHand
  <2> QED  BY <2>1, <2>2, <2>3, <2>4, ThereIs DEF TInv
<1>4. level \in [Levels -> LevelRow \cup {None}]  BY DEF TInv, Tabled
<1>5. \E row : /\ row \in LevelRow
               /\ DOMAIN level' = Levels /\ level' = [m \in Levels |-> level'[m]]
               /\ \A m \in Levels : level'[m] = IF m = l THEN row ELSE level[m]
  <2>1. CASE a.do = "addLevel"
    <3>1. level' = [level EXCEPT ![l] = new]  BY <2>1 DEF WriteLevel
    <3>2. new \in LevelRow  BY <1>3, <2>1 DEF LevelRow
    <3> HIDE DEF new
    <3> QED  BY <1>3, <1>4, <3>1, <3>2
  <2>2. CASE a.do = "editLevel"
    <3> DEFINE row == [level[l] EXCEPT !.grade = a.grade, !.worth = a.n]
    <3>1. level' = [level EXCEPT ![l].grade = a.grade, ![l].worth = a.n]
      BY <2>2 DEF WriteLevel
    <3>2. row \in LevelRow  BY <1>3, <2>2 DEF LevelRow, OfLevel
    <3>3. /\ DOMAIN level' = Levels /\ level' = [m \in Levels |-> level'[m]]
          /\ \A m \in Levels : level'[m] = IF m = l THEN row ELSE level[m]
      BY <1>4, <3>1
    <3> HIDE DEF row
    <3> QED  BY <3>2, <3>3
  <2>3. CASE a.do = "dropLevel"
    <3> DEFINE row == [level[l] EXCEPT !.deleted = TRUE]
    <3>1. level' = [level EXCEPT ![l].deleted = TRUE]  BY <2>3 DEF WriteLevel
    <3>2. row \in LevelRow  BY <1>3, <2>3 DEF LevelRow, OfLevel
    <3>3. /\ DOMAIN level' = Levels /\ level' = [m \in Levels |-> level'[m]]
          /\ \A m \in Levels : level'[m] = IF m = l THEN row ELSE level[m]
      BY <1>4, <3>1
    <3> HIDE DEF row
    <3> QED  BY <3>2, <3>3
  <2>4. CASE a.do = "switchLevel"
    <3>1. level' = level \/ level' = [level EXCEPT ![l].on = a.on]
      BY <2>4 DEF WriteLevel
    <3>2. CASE level' = level  BY <1>3, <1>4, <2>4, <3>2 DEF OfLevel
    <3>3. CASE level' = [level EXCEPT ![l].on = a.on]
      <4> DEFINE row == [level[l] EXCEPT !.on = a.on]
      <4>1. row \in LevelRow  BY <1>3, <2>4 DEF LevelRow, OfLevel
      <4>2. /\ DOMAIN level' = Levels /\ level' = [m \in Levels |-> level'[m]]
            /\ \A m \in Levels : level'[m] = IF m = l THEN row ELSE level[m]
        BY <1>4, <3>3
      <4> HIDE DEF row
      <4> QED  BY <4>1, <4>2
    <3> QED  BY <3>1, <3>2, <3>3
  <2> QED  BY <1>3, <2>1, <2>2, <2>3, <2>4 DEF OfLevel
<1>6. Tabled' /\ Rooted' /\ Stay /\ l \in There(level)'
  <2>1. PICK row : /\ row \in LevelRow
                   /\ DOMAIN level' = Levels /\ level' = [m \in Levels |-> level'[m]]
                   /\ \A m \in Levels : level'[m] = IF m = l THEN row ELSE level[m]
    BY <1>5
  <2>2. None \notin LevelRow  BY CurriculumTreeAssumed DEF CurriculumTreeAssumption
  <2>3. \A m \in Levels : level'[m] \in LevelRow \cup {None}  BY <1>4, <2>1
  <2>4. level' \in [Levels -> LevelRow \cup {None}]  BY <2>1, <2>3
  <2>5. \A m \in Levels : level[m] # None => level'[m] # None  BY <2>1, <2>2
  <2>6. l \in There(level)'  BY <1>3, <2>1, <2>2 DEF There
  <2> QED  BY <1>1, <2>4, <2>5, <2>6, LevelsWritten
<1>7. UNCHANGED ask /\ Todos /\ Going  BY <1>1 DEF IInv, TInv
<1>8. \A g \in Grades :
        /\ Begins(a, Regrade(g), At("grade", g), There(lesson)', There(level)')
        /\ Begins(a, Resum(l), At("sum", l), There(lesson)', There(level)')
        /\ Begins(a, Resum(l) \o Regrade(g), At("sum", l), There(lesson)', There(level)')
  BY <1>6, StepLists, BeginsJoins, OpenSteps
<1>9. Begins(a, Resum(l), At("sum", l), There(lesson)', There(level)')
  BY <1>6, StepLists
<1>10. ASSUME NEW v \in LevelInHand,
              \/ Continue(p, Resum(l), Hold(p, "level", v))
              \/ \E g \in Grades : Continue(p, Resum(l) \o Regrade(g), Hold(p, "level", v))
       PROVE  Going'
  <2> DEFINE held == Hold(p, "level", v)
  <2>1. held \in MemRow /\ held.level = v  BY <1>2, HoldTyped
  <2>2. HoldsAt(a, "sum", held, There(lesson)', There(level)')  BY <2>1 DEF HoldsAt
  <2>3. At("sum", l).at = "sum"  BY DEF At
  <2> HIDE DEF held
  <2> QED  BY <1>1, <1>6, <1>7, <1>8, <1>9, <1>10, <2>1, <2>2, <2>3, GoesTo DEF Closing, held
<1>11. Going'
  <2>1. CASE a.do = "addLevel"
    <3> DEFINE v == [new EXCEPT !.points = None]
    <3>1. Continue(p, Resum(l), Hold(p, "level", v))  BY <2>1 DEF WriteLevel
    <3>2. v \in LevelInHand  BY <1>3, <2>1 DEF LevelInHand
    <3> HIDE DEF v
    <3> QED  BY <1>10, <3>1, <3>2
  <2>2. CASE a.do = "editLevel"
    <3> DEFINE v == [old EXCEPT !.grade = a.grade, !.worth = a.n]
    <3>1. Continue(p, Resum(l) \o (IF old.grade # a.grade THEN Regrade(old.grade) ELSE <<>>),
                   Hold(p, "level", v))
      BY <2>2 DEF WriteLevel
    <3>2. v \in LevelInHand /\ old.grade \in Grades
      BY <1>3, <2>2 DEF LevelInHand, LevelRow, OfLevel
    <3>3. Resum(l) \o <<>> = Resum(l)  BY DEF Resum
    <3> HIDE DEF v
    <3> QED  BY <1>10, <3>1, <3>2, <3>3
  <2>3. CASE a.do = "dropLevel"
    <3>1. Continue(p, Resum(l), Hold(p, "level", old))  BY <2>3 DEF WriteLevel
    <3>2. old \in LevelInHand  BY <1>3, <2>3 DEF LevelInHand, LevelRow, OfLevel
    <3> QED  BY <1>10, <3>1, <3>2
  <2>4. CASE a.do = "switchLevel"
    <3>1. Continue(p, Regrade(old.grade), mem[p])  BY <2>4 DEF WriteLevel
    <3>2. old.grade \in Grades  BY <1>3, <2>4 DEF LevelRow, OfLevel
    <3>3. \A x : At("grade", x).at = "grade"  BY DEF At
    <3> QED  BY <1>1, <1>2, <1>6, <1>7, <1>8, <3>1, <3>2, <3>3, GoesTo, OpenSteps DEF Closing
  <2> QED  BY <1>3, <2>1, <2>2, <2>3, <2>4 DEF OfLevel
<1>12. SavesTyped' /\ Tallied'  BY <1>1, <1>6, SavesStay, RestTyped
<1> QED  BY <1>6, <1>11, <1>12 DEF TInv

\* A question is added under a level that is there, removed or switched.
LEMMA WriteQuestionTypes ==
    ASSUME Given, IInv, TInv, NEW p \in Requests, WriteQuestion(p)
    PROVE  TInv'
<1> DEFINE a == ask[p]  x == a.question  old == mem[p].row  ss == There(lesson)  ls == There(level)
<1>1. /\ Does(p, "write") /\ UNCHANGED <<grade, level, lesson, item, ask>>
      /\ UNCHANGED <<unsaved, failures, clean>>
  BY DEF WriteQuestion, ghosts
<1>2. /\ mem[p] \in MemRow /\ a \in AskRow /\ a # None
      /\ RowInHand(a, old, ss, ls)
  BY <1>1, AtWrite
<1>3. /\ a.do \in {"addQuestion"} \cup OfQuestion /\ x \in Questions /\ a.on \in BOOLEAN
      /\ a.do = "addQuestion" => a.level \in ls /\ a.level \in Levels
      /\ a.do \in OfQuestion => old.level \in ls
  <2>1. a.do \in {"addQuestion"} \cup OfQuestion  BY DEF WriteQuestion, OfQuestion
  <2>2. x \in Questions /\ a.on \in BOOLEAN  BY <1>2, <2>1, AskedRows DEF Given, AskRow
  <2>3. a.do = "addQuestion" => "level" \in Under(a.do)  BY DEF Under
  <2> QED  BY <1>2, <2>1, <2>2, <2>3, ThereIs DEF TInv, Rooted, RowInHand
<1>4. UNCHANGED ask /\ Stay /\ Todos /\ Going /\ There(lesson)' = ss /\ There(level)' = ls
  BY <1>1, ReadsStay DEF IInv, TInv, There
<1>5. question \in [Questions -> QuestionRow \cup {None}]  BY DEF TInv, Tabled
<1>6. ASSUME NEW y \in Questions, question[y] # None
      PROVE  question[y] \in QuestionRow /\ question[y].level \in ls
  BY <1>5, <1>6 DEF TInv, Rooted, There
<1>7. /\ question' \in [Questions -> QuestionRow \cup {None}]
      /\ \A y \in Questions : question'[y] # None => question'[y].level \in ls
  <2>1. CASE a.do = "addQuestion"
    <3> DEFINE row == [level |-> a.level, on |-> TRUE]
    <3>1. question' = [question EXCEPT ![x] = row]  BY <2>1 DEF WriteQuestion
    <3>2. row \in QuestionRow /\ row.level = a.level  BY <1>3, <2>1 DEF QuestionRow
    <3> HIDE DEF row
    <3> QED  BY <1>3, <1>5, <1>6, <2>1, <3>1, <3>2
  <2>2. CASE a.do = "dropQuestion"
    <3>1. question' = [question EXCEPT ![x] = None]  BY <2>2 DEF WriteQuestion
    <3> QED  BY <1>5, <1>6, <3>1
  <2>3. CASE a.do = "switchQuestion"
    <3>1. question' = question \/ (question[x] # None /\ question' = [question EXCEPT ![x].on = a.on])
      BY <2>3 DEF WriteQuestion
    <3>2. CASE question' = question  BY <1>5, <1>6, <3>2
    <3>3. CASE question[x] # None /\ question' = [question EXCEPT ![x].on = a.on]
      <4> DEFINE row == [question[x] EXCEPT !.on = a.on]
      <4>1. row \in QuestionRow /\ row.level = question[x].level
        BY <1>3, <1>6, <3>3 DEF QuestionRow
      <4>2. /\ DOMAIN question' = Questions /\ question' = [y \in Questions |-> question'[y]]
            /\ \A y \in Questions : question'[y] = IF y = x THEN row ELSE question[y]
        BY <1>5, <3>3
      <4> HIDE DEF row
      <4>3. \A y \in Questions : question'[y] \in QuestionRow \cup {None}  BY <1>5, <4>1, <4>2
      <4> QED  BY <1>3, <1>6, <3>3, <4>1, <4>2, <4>3
    <3> QED  BY <3>1, <3>2, <3>3
  <2> QED  BY <1>3, <2>1, <2>2, <2>3 DEF OfQuestion
<1>8. \E y \in ls : Continue(p, Reload(y), mem[p])
  <2>1. CASE a.do = "addQuestion"
    <3>1. Continue(p, Reload(a.level), mem[p])  BY <2>1 DEF WriteQuestion
    <3> QED  BY <1>3, <2>1, <3>1
  <2>2. CASE a.do \in OfQuestion
    <3>1. Continue(p, Reload(old.level), mem[p])  BY <2>2 DEF WriteQuestion, OfQuestion
    <3> QED  BY <1>3, <2>2, <3>1
  <2> QED  BY <1>3, <2>1, <2>2
<1>9. Going'
  <2>1. PICK y \in ls : Continue(p, Reload(y), mem[p])  BY <1>8
  <2>2. Begins(a, Reload(y), At("level", y), There(lesson)', There(level)')
    BY <1>4, StepLists
  <2>3. At("level", y).at = "level"  BY DEF At
  <2> QED  BY <1>1, <1>2, <1>4, <2>1, <2>2, <2>3, GoesTo, OpenSteps DEF Closing
<1>10. Tabled'  BY <1>1, <1>7 DEF TInv, Tabled
<1>11. Rooted'
  <2>1. \A y \in There(question)' : question'[y].level \in ls  BY <1>7 DEF There
  <2> QED  BY <1>1, <1>4, <2>1 DEF TInv, Rooted, There
<1>12. SavesTyped' /\ Tallied'  BY <1>1, <1>4, SavesStay, RestTyped
<1> QED  BY <1>9, <1>10, <1>11, <1>12 DEF TInv

\* A lesson's total is written again, and it is counted.
LEMMA RefreshTypes ==
    ASSUME Given, IInv, TInv, NEW p \in Requests, Refresh(p)
    PROVE  TInv'
<1> DEFINE s == Row(p)
<1>1. /\ Does(p, "refresh") /\ UNCHANGED <<grade, level, item, question, ask>>
      /\ UNCHANGED <<unsaved, failures, clean>>
      /\ \/ lesson' = lesson /\ Continue(p, <<>>, mem[p])
         \/ lesson' = [lesson EXCEPT ![s].total = Total] /\ Continue(p, Recount(s), mem[p])
  BY DEF Refresh, ghosts
<1>2. mem[p] \in MemRow /\ s \in There(lesson)  BY <1>1, HeadStep DEF IInv, TInv, Apt
<1>3. lesson[s] \in LessonRow /\ s \in Lessons  BY <1>2, ThereIs DEF TInv
<1>4. lesson \in [Lessons -> LessonRow \cup {None}]  BY DEF TInv, Tabled
<1>5. \A t \in Lessons : lesson[t] # None => lesson[t].level \in There(level)
  BY <1>4 DEF TInv, Rooted, There
<1>6. /\ lesson' \in [Lessons -> LessonRow \cup {None}]
      /\ \A t \in Lessons : /\ lesson'[t] # None => lesson'[t].level \in There(level)
                            /\ lesson[t] # None => lesson'[t] # None
  <2>1. CASE lesson' = lesson  BY <1>4, <1>5, <2>1
  <2>2. CASE lesson' = [lesson EXCEPT ![s].total = Total]
    <3> DEFINE row == [lesson[s] EXCEPT !.total = Total]
    <3>1. Total \in Nat /\ None \notin LessonRow
      BY CurriculumTreeAssumed DEF CurriculumTreeAssumption
    <3>2. row \in LessonRow /\ row.level = lesson[s].level  BY <1>3, <3>1 DEF LessonRow
    <3>3. /\ DOMAIN lesson' = Lessons /\ lesson' = [t \in Lessons |-> lesson'[t]]
          /\ \A t \in Lessons : lesson'[t] = IF t = s THEN row ELSE lesson[t]
      BY <1>4, <2>2
    <3> HIDE DEF row
    <3>4. \A t \in Lessons : lesson'[t] \in LessonRow \cup {None}  BY <1>4, <3>2, <3>3
    <3> QED  BY <1>3, <1>5, <3>1, <3>2, <3>3, <3>4
  <2> QED  BY <1>1, <2>1, <2>2
<1>7. Tabled' /\ Rooted' /\ Stay  BY <1>1, <1>6, LessonsWritten
<1>8. UNCHANGED ask /\ Todos /\ Going  BY <1>1 DEF IInv, TInv
<1>9. Going'
  <2>1. CASE Continue(p, <<>>, mem[p])  BY <1>1, <1>2, <1>7, <1>8, <2>1, GoesOn
  <2>2. CASE Continue(p, Recount(s), mem[p])
    <3>1. Begins(ask[p], Recount(s), At("lesson", s), There(lesson)', There(level)')
      BY <1>2, <1>7, StepLists DEF Stay
    <3>2. At("lesson", s).at = "lesson"  BY DEF At
    <3> QED  BY <1>1, <1>2, <1>7, <1>8, <2>2, <3>1, <3>2, GoesTo, OpenSteps DEF Closing
  <2> QED  BY <1>1, <2>1, <2>2
<1>10. SavesTyped' /\ Tallied'  BY <1>1, <1>7, SavesStay, RestTyped
<1> QED  BY <1>7, <1>9, <1>10 DEF TInv

\* A level's worth is written, and the level is counted with the row read before.
LEMMA SetWorthTypes ==
    ASSUME Given, IInv, TInv, NEW p \in Requests, SetWorth(p)
    PROVE  TInv'
<1> DEFINE l == Row(p)[1]  old == Row(p)[2]  v == [old EXCEPT !.worth = BulkWorth]
           held == Hold(p, "level", v)
<1>1. /\ Does(p, "worth") /\ UNCHANGED <<grade, lesson, item, question, ask>>
      /\ UNCHANGED <<unsaved, failures, clean>>
      /\ level' = [level EXCEPT ![l].worth = BulkWorth] /\ Continue(p, Resum(l), held)
  BY DEF SetWorth, ghosts
<1>2. mem[p] \in MemRow /\ Row(p) \in There(level) \X LevelRow
  BY <1>1, HeadStep DEF IInv, TInv, Apt
<1>3. l \in There(level) /\ l \in Levels /\ level[l] \in LevelRow /\ old \in LevelRow
  BY <1>2, ThereIs DEF TInv
<1>4. level \in [Levels -> LevelRow \cup {None}]  BY DEF TInv, Tabled
<1>5. BulkWorth \in Nat /\ None \notin LevelRow
  BY CurriculumTreeAssumed DEF CurriculumTreeAssumption
<1>6. /\ level' \in [Levels -> LevelRow \cup {None}]
      /\ \A m \in Levels : level[m] # None => level'[m] # None
  <2> DEFINE row == [level[l] EXCEPT !.worth = BulkWorth]
  <2>1. row \in LevelRow  BY <1>3, <1>5 DEF LevelRow
  <2>2. /\ DOMAIN level' = Levels /\ level' = [m \in Levels |-> level'[m]]
        /\ \A m \in Levels : level'[m] = IF m = l THEN row ELSE level[m]
    BY <1>1, <1>4
  <2> HIDE DEF row
  <2>3. \A m \in Levels : level'[m] \in LevelRow \cup {None}  BY <1>4, <2>1, <2>2
  <2> QED  BY <1>5, <2>1, <2>2, <2>3
<1>7. Tabled' /\ Rooted' /\ Stay  BY <1>1, <1>6, LevelsWritten
<1>8. UNCHANGED ask /\ Todos /\ Going  BY <1>1 DEF IInv, TInv
<1>9. held \in MemRow /\ held.level = v /\ v \in LevelInHand
  <2>1. v \in LevelInHand  BY <1>3, <1>5 DEF LevelInHand, LevelRow
  <2> HIDE DEF v
  <2> QED  BY <1>2, <2>1, HoldTyped
<1>10. Going'
  <2>1. Begins(ask[p], Resum(l), At("sum", l), There(lesson)', There(level)')
    BY <1>3, <1>7, StepLists DEF Stay
  <2> HIDE DEF held, v
  <2>2. HoldsAt(ask[p], At("sum", l).at, held, There(lesson)', There(level)')
    BY <1>9 DEF HoldsAt, At
  <2> QED  BY <1>1, <1>7, <1>8, <1>9, <2>1, <2>2, GoesTo DEF Closing
<1>11. SavesTyped' /\ Tallied'  BY <1>1, <1>7, SavesStay, RestTyped
<1> QED  BY <1>7, <1>10, <1>11 DEF TInv

\* A level's points are saved, unless the level in hand has them.
LEMMA SaveLevelTypes ==
    ASSUME Given, IInv, TInv, NEW p \in Requests, SaveLevel(p)
    PROVE  TInv'
<1> DEFINE l == Row(p)  g == mem[p].level.grade
<1>1. /\ Does(p, "saveLevel") /\ UNCHANGED <<grade, lesson, item, question, ask>>
      /\ UNCHANGED <<unsaved, failures, clean>>
      /\ level' = level \/ level' = [level EXCEPT ![l].points = mem[p].sum]
      /\ Continue(p, Regrade(g), mem[p])
  BY DEF SaveLevel, ghosts
<1>2. /\ mem[p] \in MemRow /\ l \in There(level)
      /\ mem[p].level \in LevelInHand /\ mem[p].sum \in Nat
  BY <1>1, HeadStep DEF IInv, TInv, Apt, HoldsAt
<1>3. l \in Levels /\ level[l] \in LevelRow /\ g \in Grades
  BY <1>2, ThereIs DEF TInv, LevelInHand
<1>4. level \in [Levels -> LevelRow \cup {None}]  BY DEF TInv, Tabled
<1>5. /\ level' \in [Levels -> LevelRow \cup {None}]
      /\ \A m \in Levels : level[m] # None => level'[m] # None
  <2>1. CASE level' = level  BY <1>4, <2>1
  <2>2. CASE level' = [level EXCEPT ![l].points = mem[p].sum]
    <3> DEFINE row == [level[l] EXCEPT !.points = mem[p].sum]
    <3>0. None \notin LevelRow  BY CurriculumTreeAssumed DEF CurriculumTreeAssumption
    <3>1. row \in LevelRow  BY <1>2, <1>3 DEF LevelRow
    <3>2. /\ DOMAIN level' = Levels /\ level' = [m \in Levels |-> level'[m]]
          /\ \A m \in Levels : level'[m] = IF m = l THEN row ELSE level[m]
      BY <1>4, <2>2
    <3> HIDE DEF row
    <3>3. \A m \in Levels : level'[m] \in LevelRow \cup {None}  BY <1>4, <3>1, <3>2
    <3> QED  BY <3>0, <3>1, <3>2, <3>3
  <2> QED  BY <1>1, <2>1, <2>2
<1>6. Tabled' /\ Rooted' /\ Stay  BY <1>1, <1>5, LevelsWritten
<1>7. UNCHANGED ask /\ Todos /\ Going  BY <1>1 DEF IInv, TInv
<1>8. Going'
  <2>1. Begins(ask[p], Regrade(g), At("grade", g), There(lesson)', There(level)')
    BY <1>3, StepLists
  <2>2. At("grade", g).at = "grade"  BY DEF At
  <2> QED  BY <1>1, <1>2, <1>6, <1>7, <2>1, <2>2, GoesTo, OpenSteps DEF Closing
<1>9. SavesTyped' /\ Tallied'  BY <1>1, <1>6, SavesStay, RestTyped
<1> QED  BY <1>6, <1>8, <1>9 DEF TInv

\* A grade's points are saved: a number, never the sum of no rows.
LEMMA SaveGradeTypes ==
    ASSUME Given, IInv, TInv, NEW p \in Requests, SaveGrade(p)
    PROVE  TInv'
<1> DEFINE g == Row(p)
<1>1. /\ Does(p, "saveGrade") /\ UNCHANGED <<level, lesson, item, question, ask>>
      /\ UNCHANGED <<unsaved, failures, clean>> /\ Continue(p, <<>>, mem[p])
      /\ grade' = CASE mem[p].sum # None -> [grade EXCEPT ![g] = mem[p].sum]
                    [] mem[p].sum = None /\ mem[p].grade # 0 -> [grade EXCEPT ![g] = 0]
                    [] OTHER -> grade
  BY DEF SaveGrade, ghosts
<1>2. mem[p] \in MemRow /\ g \in Grades  BY <1>1, HeadStep DEF IInv, TInv, Apt
<1>3. mem[p].sum \in Nat \cup {None}  BY <1>2 DEF MemRow
<1>4. grade \in [Grades -> Nat]  BY DEF TInv, Tabled
<1>5. grade' \in [Grades -> Nat]
  <2>1. CASE mem[p].sum # None
    <3>1. grade' = [grade EXCEPT ![g] = mem[p].sum]  BY <1>1, <2>1
    <3> QED  BY <1>3, <1>4, <2>1, <3>1
  <2>2. CASE mem[p].sum = None
    <3>1. grade' = grade \/ grade' = [grade EXCEPT ![g] = 0]  BY <1>1, <2>2
    <3> QED  BY <1>4, <3>1
  <2> QED  BY <2>1, <2>2
<1>6. Tabled'  BY <1>1, <1>5 DEF TInv, Tabled
<1>7. UNCHANGED ask /\ Todos /\ Going /\ Stay  BY <1>1, ReadsStay DEF IInv, TInv
<1>8. Rooted'  BY <1>1 DEF TInv, Rooted, There
<1>9. Going'  BY <1>1, <1>2, <1>7, GoesOn
<1>10. SavesTyped' /\ Tallied'  BY <1>1, <1>7, SavesStay, RestTyped
<1> QED  BY <1>6, <1>8, <1>9, <1>10 DEF TInv

\* Points are written to items that are there.
LEMMA SpreadTypes ==
    ASSUME Given, IInv, TInv, NEW p \in Requests, Spread(p)
    PROVE  TInv'
<1> DEFINE items == ItemsOfKind(Row(p)[1], Row(p)[2])
<1>1. /\ Does(p, "spread") /\ UNCHANGED <<grade, level, lesson, question, ask>>
      /\ UNCHANGED <<unsaved, failures, clean>> /\ Continue(p, <<>>, mem[p])
      /\ item' = [i \in Items |->
            IF i \in items THEN [item[i] EXCEPT !.points = Points(mem[p])] ELSE item[i]]
  BY DEF Spread, ghosts
<1>2. mem[p] \in MemRow /\ mem[p].lesson \in LessonRow
  BY <1>1, HeadStep DEF IInv, TInv, HoldsAt
<1>3. Points(mem[p]) \in Nat  BY <1>2, PointsNat
<1>4. item \in [Items -> ItemRow \cup {None}]  BY DEF TInv, Tabled
<1>5. ASSUME NEW i \in Items, item[i] # None
      PROVE  item[i] \in ItemRow /\ item[i].lesson \in There(lesson)
  BY <1>4, <1>5 DEF TInv, Rooted, There
<1>6. \A i \in items : item[i] # None  BY DEF ItemsOfKind, ItemsOf
<1> HIDE DEF items
<1>7. ASSUME NEW i \in Items
      PROVE  /\ item'[i] \in ItemRow \cup {None}
             /\ item'[i] # None => item'[i].lesson \in There(lesson)
  <2>1. CASE i \notin items  BY <1>1, <1>4, <1>5, <2>1
  <2>2. CASE i \in items
    <3>1. item'[i] = [item[i] EXCEPT !.points = Points(mem[p])]  BY <1>1, <2>2
    <3>2. item[i] \in ItemRow /\ item[i].lesson \in There(lesson)  BY <1>5, <1>6, <2>2
    <3>3. item'[i] \in ItemRow /\ item'[i].lesson = item[i].lesson
      BY <1>3, <3>1, <3>2 DEF ItemRow
    <3> QED  BY <3>2, <3>3
  <2> QED  BY <2>1, <2>2
<1>8. item' \in [Items -> ItemRow \cup {None}]  BY <1>1, <1>7
<1>9. UNCHANGED ask /\ Todos /\ Going /\ Stay  BY <1>1, ReadsStay DEF IInv, TInv
<1>10. Going'  BY <1>1, <1>2, <1>9, GoesOn
<1>11. SavesTyped' /\ Tallied'  BY <1>1, <1>9, SavesStay, RestTyped
<1> QED  BY <1>1, <1>7, <1>8, <1>10, <1>11, ItemsWritten

\* The orders a reorder has placed are numbers, of items that are there.
LEMMA CommitOrderTypes ==
    ASSUME Given, IInv, TInv, NEW p \in Requests, CommitOrder(p)
    PROVE  TInv'
<1> DEFINE placed == DOMAIN draft[p]
<1>1. /\ Does(p, "commit") /\ UNCHANGED <<grade, level, lesson, question, ask>>
      /\ UNCHANGED <<unsaved, failures, clean>> /\ Continue(p, <<>>, mem[p])
      /\ item' = [i \in Items |->
            IF i \in placed THEN [item[i] EXCEPT !.order = draft[p][i]] ELSE item[i]]
  BY DEF CommitOrder, ghosts
<1>2. mem[p] \in MemRow /\ ask[p] \in AskRow  BY <1>1, HeadStep DEF IInv, TInv
<1>3. ASSUME NEW i \in placed PROVE item[i] # None /\ draft[p][i] \in Nat
  <2>1. ask[p].list \in Seq(Items)  BY <1>2 DEF AskRow
  <2>2. item[i] # None /\ draft[p][i] \in DOMAIN ask[p].list  BY DEF IInv, Drafted
  <2>3. DOMAIN ask[p].list \subseteq Nat  BY <2>1
  <2> QED  BY <2>2, <2>3
<1>4. item \in [Items -> ItemRow \cup {None}]  BY DEF TInv, Tabled
<1>5. ASSUME NEW i \in Items, item[i] # None
      PROVE  item[i] \in ItemRow /\ item[i].lesson \in There(lesson)
  BY <1>4, <1>5 DEF TInv, Rooted, There
<1>6. ASSUME NEW i \in Items
      PROVE  /\ item'[i] \in ItemRow \cup {None}
             /\ item'[i] # None => item'[i].lesson \in There(lesson)
  <2>1. CASE i \notin placed  BY <1>1, <1>4, <1>5, <2>1
  <2>2. CASE i \in placed
    <3>1. item'[i] = [item[i] EXCEPT !.order = draft[p][i]]  BY <1>1, <2>2
    <3>2. item[i] \in ItemRow /\ item[i].lesson \in There(lesson)  BY <1>3, <1>5, <2>2
    <3>3. item'[i] \in ItemRow /\ item'[i].lesson = item[i].lesson
      BY <1>3, <2>2, <3>1, <3>2 DEF ItemRow
    <3> QED  BY <3>2, <3>3
  <2> QED  BY <2>1, <2>2
<1>7. item' \in [Items -> ItemRow \cup {None}]  BY <1>1, <1>6
<1>8. UNCHANGED ask /\ Todos /\ Going /\ Stay  BY <1>1, ReadsStay DEF IInv, TInv
<1>9. Going'  BY <1>1, <1>2, <1>8, GoesOn
<1>10. SavesTyped' /\ Tallied'  BY <1>1, <1>8, SavesStay, RestTyped
<1> QED  BY <1>1, <1>6, <1>7, <1>9, <1>10, ItemsWritten

\* A save lands in the row and the columns it is of.
LEMMA LandTypes ==
    ASSUME Given, IInv, TInv, NEW w \in unsaved, Land(w)
    PROVE  TInv'
<1>1. /\ UNCHANGED <<grade, level, question, ask, status, todo, mem, failures, clean>>
      /\ unsaved' \subseteq unsaved
  BY DEF Land, ghosts
<1>2. /\ w.at = "item" => w.of \in Items /\ w.set \in Nat
      /\ w.at = "lesson" =>
            /\ w.of \in There(lesson)
            /\ \A c \in DOMAIN w.set : c \in Columns /\ w.set[c] \in Nat
  BY DEF TInv, SavesTyped
<1>3. CASE w.at = "item"
  <2> DEFINE i == w.of
  <2>1. /\ lesson' = lesson
        /\ item' = item \/ (item[i] # None /\ item' = [item EXCEPT ![i].points = w.set])
    BY <1>3 DEF Land
  <2>2. item \in [Items -> ItemRow \cup {None}]  BY DEF TInv, Tabled
  <2>3. ASSUME NEW j \in Items, item[j] # None
        PROVE  item[j] \in ItemRow /\ item[j].lesson \in There(lesson)
    BY <2>2, <2>3 DEF TInv, Rooted, There
  <2>4. /\ item' \in [Items -> ItemRow \cup {None}]
        /\ \A j \in Items : item'[j] # None => item'[j].lesson \in There(lesson)
    <3>1. CASE item' = item  BY <2>2, <2>3, <3>1
    <3>2. CASE item[i] # None /\ item' = [item EXCEPT ![i].points = w.set]
      <4> DEFINE row == [item[i] EXCEPT !.points = w.set]
      <4>1. row \in ItemRow /\ row.lesson = item[i].lesson
        BY <1>2, <1>3, <2>3, <3>2 DEF ItemRow
      <4>2. /\ DOMAIN item' = Items /\ item' = [j \in Items |-> item'[j]]
            /\ \A j \in Items : item'[j] = IF j = i THEN row ELSE item[j]
        BY <2>2, <3>2
      <4> HIDE DEF row
      <4>3. \A j \in Items : item'[j] \in ItemRow \cup {None}  BY <2>2, <4>1, <4>2
      <4> QED  BY <1>2, <1>3, <2>3, <3>2, <4>1, <4>2, <4>3
    <3> QED  BY <2>1, <3>1, <3>2
  <2>5. Stay  BY <1>1, <2>1, ReadsStay
  <2>6. Going'  BY <1>1, <2>5, Waiting DEF TInv
  <2>7. SavesTyped' /\ Tallied'  BY <1>1, <2>5, SavesStay, RestTyped
  <2> QED  BY <1>1, <2>1, <2>4, <2>6, <2>7, ItemsWritten
<1>4. CASE w.at = "lesson"
  <2> DEFINE s == w.of
             shares == [c \in Columns |-> IF c \in DOMAIN w.set THEN w.set[c] ELSE lesson[s].shares[c]]
             row == [lesson[s] EXCEPT !.shares = shares]
  <2>1. /\ item' = item
        /\ lesson' = [lesson EXCEPT ![s].shares =
              [c \in Columns |-> IF c \in DOMAIN w.set THEN w.set[c] ELSE @[c]]]
    BY <1>4 DEF Land
  <2>2. lesson[s] \in LessonRow /\ s \in Lessons  BY <1>2, <1>4, ThereIs DEF TInv
  <2>3. lesson \in [Lessons -> LessonRow \cup {None}]  BY DEF TInv, Tabled
  <2>4. shares \in [Columns -> Nat]
    <3>1. lesson[s].shares \in [Columns -> Nat]  BY <2>2 DEF LessonRow
    <3> QED  BY <1>2, <1>4, <3>1
  <2>5. row \in LessonRow /\ row.level = lesson[s].level
    <3> HIDE DEF shares
    <3> QED  BY <2>2, <2>4 DEF LessonRow
  <2>6. /\ DOMAIN lesson' = Lessons /\ lesson' = [t \in Lessons |-> lesson'[t]]
        /\ \A t \in Lessons : lesson'[t] = IF t = s THEN row ELSE lesson[t]
    BY <2>1, <2>3
  <2> HIDE DEF row, shares
  <2>7. \A t \in Lessons : lesson[t] # None => lesson[t].level \in There(level)
    BY <2>3 DEF TInv, Rooted, There
  <2>8. None \notin LessonRow  BY CurriculumTreeAssumed DEF CurriculumTreeAssumption
  <2>9. \A t \in Lessons : lesson'[t] \in LessonRow \cup {None}  BY <2>3, <2>5, <2>6
  <2>10. lesson' \in [Lessons -> LessonRow \cup {None}]  BY <2>6, <2>9
  <2>11. \A t \in Lessons : /\ lesson'[t] # None => lesson'[t].level \in There(level)
                            /\ lesson[t] # None => lesson'[t] # None
    BY <2>2, <2>5, <2>6, <2>7, <2>8
  <2>12. Tabled' /\ Rooted' /\ Stay  BY <1>1, <2>1, <2>10, <2>11, LessonsWritten
  <2>13. Going'  BY <1>1, <2>12, Waiting DEF TInv
  <2>14. SavesTyped' /\ Tallied'  BY <1>1, <2>12, SavesStay, RestTyped
  <2> QED  BY <2>12, <2>13, <2>14 DEF TInv
<1> QED  BY <1>3, <1>4 DEF Land

(***************************************************************************)
(* The theorem on types                                                    *)
(***************************************************************************)

\* The trees to begin with are of these types, and nothing is under way.
LEMMA InitTInv == Init => TInv
<1> SUFFICES ASSUME Init PROVE TInv  OBVIOUS
<1>1. PICK t \in Trees : /\ grade = t.grade /\ level = t.level /\ lesson = t.lesson
                         /\ item = t.item /\ question = t.question
  BY DEF Init
<1>2. ask \in Asks /\ \A p \in Requests : todo[p] = <<>>  BY DEF Init
<1>3. Tabled  BY <1>1, CurriculumTreeAssumed DEF CurriculumTreeAssumption, Tabled
<1>4. Rooted
  <2>1. \A i \in There(item) : item[i].lesson \in There(lesson)
    <3>1. \A i \in Items : item[i] # None => lesson[item[i].lesson] # None
      BY <1>1, CurriculumTreeAssumed DEF TreesAssumption
    <3>2. \A i \in There(item) : i \in Items /\ item[i] # None /\ item[i].lesson \in Lessons
      BY <1>3, ThereIs DEF There, ItemRow
    <3> QED  BY <1>3, <3>1, <3>2 DEF There, Tabled
  <2>2. \A s \in There(lesson) : lesson[s].level \in There(level)
    <3>1. \A s \in Lessons : lesson[s] # None => level[lesson[s].level] # None
      BY <1>1, CurriculumTreeAssumed DEF TreesAssumption
    <3>2. \A s \in There(lesson) : s \in Lessons /\ lesson[s] # None /\ lesson[s].level \in Levels
      BY <1>3, ThereIs DEF There, LessonRow
    <3> QED  BY <1>3, <3>1, <3>2 DEF There, Tabled
  <2>3. \A x \in There(question) : question[x].level \in There(level)
    <3>1. \A x \in Questions : question[x] # None => level[question[x].level] # None
      BY <1>1, CurriculumTreeAssumed DEF TreesAssumption
    <3>2. \A x \in There(question) :
            x \in Questions /\ question[x] # None /\ question[x].level \in Levels
      BY <1>3, ThereIs DEF There, QuestionRow
    <3> QED  BY <1>3, <3>1, <3>2 DEF There, Tabled
  <2>4. ASSUME NEW p \in Requests, ask[p] # None
        PROVE  /\ "lesson" \in Under(ask[p].do) => ask[p].lesson \in There(lesson)
               /\ "level" \in Under(ask[p].do) => ask[p].level \in There(level)
    <3>1. \A f \in Under(ask[p].do) : t[f][ask[p][f]] # None
      BY <1>2, <2>4, CurriculumTreeAssumed DEF AsksAssumption
    <3>2. /\ "lesson" \in Under(ask[p].do) => ask[p].do \in {"addItem", "editItem"}
          /\ "level" \in Under(ask[p].do) => ask[p].do \in {"addLesson", "editLesson", "addQuestion"}
      BY DEF Under
    <3>3. /\ "lesson" \in Under(ask[p].do) => ask[p].lesson \in Lessons
          /\ "level" \in Under(ask[p].do) => ask[p].level \in Levels
      BY <1>2, <2>4, <3>2, AskedRows
    <3>4. /\ "lesson" \in Under(ask[p].do) => lesson[ask[p].lesson] # None
          /\ "level" \in Under(ask[p].do) => level[ask[p].level] # None
      BY <1>1, <3>1
    <3> QED  BY <1>3, <3>3, <3>4 DEF There, Tabled
  <2> QED  BY <2>1, <2>2, <2>3, <2>4 DEF Rooted
<1>5. Going
  <2>1. Steps  BY <1>2, StepLists DEF Steps
  <2>2. NoMem \in MemRow  BY DEF NoMem, MemRow
  <2>3. InHand  BY <1>2, <2>2 DEF Init, InHand
  <2>4. Running  BY <1>2 DEF Init, Running
  <2> QED  BY <2>1, <2>3, <2>4 DEF Going
<1>6. SavesTyped  BY DEF Init, SavesTyped
<1>7. Tallied
  <2>1. MaxFailures \in Nat  BY CurriculumTreeAssumed DEF CurriculumTreeAssumption
  <2> QED  BY <2>1 DEF Init, Tallied
<1> QED  BY <1>3, <1>4, <1>5, <1>6, <1>7 DEF TInv

\* Every step keeps the types.
LEMMA NextTInv == Given /\ IInv /\ TInv /\ [Next]_vars => TInv'
<1> SUFFICES ASSUME Given, IInv, TInv, [Next]_vars PROVE TInv'  OBVIOUS
<1>1. CASE UNCHANGED vars
  <2>1. UNCHANGED <<tables, ask, status, todo, mem, unsaved, failures, clean>>
    BY <1>1 DEF vars, ghosts
  <2>2. Going'  BY <2>1, ReadsStay, Waiting DEF TInv
  <2> QED  BY <2>1, <2>2, RestTyped, ReadsKeep DEF tables
<1>2. ASSUME NEW p \in Requests, Begin(p) \/ ReadRow(p) \/ Scan(p) \/ ReadLesson(p) PROVE TInv'
  BY <1>2, BeginTypes, ReadRowTypes, ScanTypes, ReadLessonTypes
<1>3. ASSUME NEW p \in Requests,
             WriteItem(p) \/ WriteLesson(p) \/ WriteLevel(p) \/ WriteQuestion(p)
      PROVE  TInv'
  BY <1>3, WriteItemTypes, WriteLessonTypes, WriteLevelTypes, WriteQuestionTypes
<1>4. ASSUME NEW p \in Requests, Refresh(p) \/ SetWorth(p) \/ SaveLevel(p) \/ SaveGrade(p)
      PROVE  TInv'
  BY <1>4, RefreshTypes, SetWorthTypes, SaveLevelTypes, SaveGradeTypes
<1>5. ASSUME NEW p \in Requests, CountKind(p) \/ Spread(p) \/ SpreadRest(p) PROVE TInv'
  BY <1>5, CountKindTypes, SpreadTypes, SpreadRestTypes
<1>6. ASSUME NEW p \in Requests,
             ReadLevel(p) \/ SumLessons(p) \/ CountQuiz(p) \/ ReadGrade(p) \/ SumLevels(p)
      PROVE  TInv'
  BY <1>6, SumReadsType
<1>7. ASSUME NEW p \in Requests,
             \/ CheckChild(p) \/ ListChildren(p) \/ Place(p) \/ CommitOrder(p)
             \/ Deadlocked(p) \/ Fail(p)
      PROVE  TInv'
  BY <1>7, ReorderTypes, CommitOrderTypes, FailuresType
<1>8. ASSUME NEW w \in unsaved, Land(w) \/ LoseSave(w) PROVE TInv'
  BY <1>8, LandTypes, FailuresType
<1> QED  BY <1>1, <1>2, <1>3, <1>4, <1>5, <1>6, <1>7, <1>8 DEF Next

\* The types are kept with what is left of every request and what it holds.
THEOREM TypesInvariance == Spec => [](TInv /\ IInv /\ Given)
<1>1. Init => TInv  BY InitTInv
<1>2. Given /\ IInv /\ TInv /\ [Next]_vars => TInv'  BY NextTInv
<1> QED  BY <1>1, <1>2, OrderInvariance, PTL DEF Spec

\* The tables have their rows, and points are numbers, whatever requests overlap
\* and whatever queries fail: no sum of no rows reaches a level or a grade, no
\* save that was not awaited makes a row (updateGradePoints, savepointstolesson).
THEOREM TypeCorrect == Spec => []TypeOK
<1>1. TInv /\ IInv /\ Given => TypeOK
  BY DEF TInv, Tabled, Going, Running, SavesTyped, Tallied, IInv, Drafted, Given, TypeOK
<1> QED  BY <1>1, TypesInvariance, PTL

(***************************************************************************)
(* Branches: what a request is about and what it holds is on its branch,   *)
(* and a request that is clean is on its branch alone                      *)
(***************************************************************************)

Rows == Lessons \cup Levels \cup Grades

\* A branch goes up to the grades.
Closed(branch) ==
    /\ branch \subseteq Rows
    /\ \A s \in There(lesson) \cap branch : lesson[s].level \in branch
    /\ \A l \in There(level) \cap branch : level[l].grade \in branch

ForLesson == {"lesson", "refresh", "count", "spread", "last"}
ForLevel  == {"level", "sum", "quiz", "saveLevel", "worth"}
ForGrade  == {"grade", "sumGrade", "saveGrade"}

\* The lesson, the level of a step for one.
LessonOf(step) == IF step.at \in {"count", "spread"} THEN step.of[1] ELSE step.of
LevelOf(step)  == IF step.at = "worth" THEN step.of[1] ELSE step.of

StepOn(step, branch) ==
    /\ step.at \in ForLesson => LessonOf(step) \in branch
    /\ step.at \in ForLevel => LevelOf(step) \in branch
    /\ step.at \in ForGrade => step.of \in branch
    /\ step.at = "worth" => step.of[2].grade \in branch

\* The rows a request names are on a branch, and what those are under now.
AskOn(a, branch) ==
    /\ {a.lesson, a.level, a.grade} \ {None} \subseteq branch
    /\ a.item # None /\ item[a.item] # None => item[a.item].lesson \in branch
    /\ a.question # None /\ question[a.question] # None => question[a.question].level \in branch

HeldOn(a, at, held, branch) ==
    /\ at = "write" /\ a.do \in OfItem => held.row.lesson \in branch
    /\ at = "write" /\ a.do \in OfLesson \cup OfQuestion => held.row.level \in branch
    /\ at = "write" /\ a.do \in OfLevel => held.row.grade \in branch
    /\ at \in {"sum", "quiz", "saveLevel"} => held.level.grade \in branch

Inside(p) ==
    todo[p] # <<>> =>
        /\ AskOn(ask[p], reach[p])
        /\ \A step \in ToSet(todo[p]) : StepOn(step, reach[p])
        /\ HeldOn(ask[p], Head(todo[p]).at, mem[p], reach[p])

\* The bulk requests are on every row.
Wide(p) == status[p] # "idle" /\ ask[p].do \in Bulk => reach[p] = Rows

SaveOn(w) ==
    /\ w.at = "lesson" => w.of \in reach[w.by]
    /\ w.at = "item" /\ item[w.of] # None => item[w.of].lesson \in reach[w.by]

\* What a request is to make is not there.
MadeNew(p) ==
    ask[p] # None /\ (status[p] = "idle" \/ Does(p, "write")) =>
        /\ ask[p].do = "addItem" => /\ item[ask[p].item] = None
                                    /\ \A w \in unsaved : w.at = "item" => w.of # ask[p].item
        /\ ask[p].do = "addLesson" => lesson[ask[p].lesson] = None
        /\ ask[p].do = "addLevel" => level[ask[p].level] = None
        /\ ask[p].do = "addQuestion" => question[ask[p].question] = None

\* Nobody who still has something to do shares the branch of a clean request.
Apart(p) ==
    clean[p] /\ status[p] # "idle" =>
        \A q \in Requests \ {p} : Settled(q) \/ reach[q] \cap reach[p] = {}

(***************************************************************************)
(* The steps of a request                                                  *)
(***************************************************************************)

Early == {"read", "write", "scan"}
Beginnings == {<<At("read", None), At("write", None)>>, <<At("write", None)>>, <<At("scan", None)>>}

\* A request reads and writes its row first, and has sent no save then.
Ordered(p) ==
    /\ todo[p] \in Beginnings \/ \A step \in ToSet(todo[p]) : step.at \notin Early
    /\ status[p] = "idle" \/ todo[p] \in Beginnings => \A w \in unsaved : w.by # p

\* No lesson is counted again, and no level's quiz points are set again.
Distinct(a, b) ==
    /\ a.at \in ForLesson /\ b.at \in {"lesson", "refresh"} => LessonOf(a) # b.of
    /\ b.at = "worth" => a.at \notin ForLesson /\ (a.at \in ForLevel => LevelOf(a) # b.of[1])

Once(steps) == \A m, n \in DOMAIN steps : m < n => Distinct(steps[m], steps[n])

\* Once a lesson's items are counted they are spread over, up to the last.
Leads(steps) ==
    \A n \in DOMAIN steps : steps[n].at \in {"count", "spread"} =>
        /\ n + 1 \in DOMAIN steps /\ steps[n + 1].at \in {"count", "spread", "last"}
        /\ LessonOf(steps[n + 1]) = LessonOf(steps[n])

Branches == DOMAIN reach = Requests /\ \A p \in Requests : Closed(reach[p]) /\ Inside(p) /\ Wide(p)
SavesOn == \A w \in unsaved : SaveOn(w)
Unmade == \A p \in Requests : MadeNew(p)
Alone == \A p \in Requests : Apart(p)
Shapes == \A p \in Requests : Ordered(p) /\ Once(todo[p]) /\ Leads(todo[p])

(***************************************************************************)
(* Steps as sets, and the order they come in                               *)
(***************************************************************************)

\* The elements of a sequence, of what is left of it, and of two joined.
LEMMA Elements ==
    /\ ToSet(<<>>) = {}
    /\ \A s : IsSeq(s) /\ s # <<>> =>
          /\ ToSet(s) = {Head(s)} \cup ToSet(Tail(s)) /\ IsSeq(Tail(s))
          /\ ToSet(s) = { s[n] : n \in DOMAIN s }
    /\ \A s, t : IsSeq(s) /\ IsSeq(t) => ToSet(s \o t) = ToSet(s) \cup ToSet(t) /\ IsSeq(s \o t)
<1>1. ToSet(<<>>) = {}  BY DEF ToSet
<1>2. ASSUME NEW s, IsSeq(s), s # <<>>
      PROVE  ToSet(s) = {Head(s)} \cup ToSet(Tail(s)) /\ IsSeq(Tail(s))
  <2> DEFINE S == { s[n] : n \in DOMAIN s }  t == Tail(s)
  <2>1. s \in Seq(S)  BY <1>2 DEF IsSeq
  <2>2. /\ Len(s) \in Nat /\ Len(s) > 0 /\ DOMAIN s = 1 .. Len(s) /\ Head(s) = s[1]
        /\ DOMAIN t = 1 .. Len(s) - 1 /\ \A n \in 1 .. Len(s) - 1 : t[n] = s[n + 1]
    BY <1>2, <2>1
  <2>3. IsSeq(t)  BY <1>2, Rest
  <2> HIDE DEF t
  <2>4. ASSUME NEW x \in ToSet(s) PROVE x \in {Head(s)} \cup ToSet(t)
    <3>1. PICK n \in DOMAIN s : x = s[n]  BY <2>4 DEF ToSet
    <3>2. CASE n = 1  BY <2>2, <3>1, <3>2
    <3>3. CASE n # 1
      <4>1. n - 1 \in DOMAIN t /\ t[n - 1] = s[n]  BY <2>2, <3>1, <3>3
      <4> QED  BY <3>1, <4>1 DEF ToSet
    <3> QED  BY <3>2, <3>3
  <2>5. ASSUME NEW x \in ToSet(t) PROVE x \in ToSet(s)
    <3>1. PICK n \in DOMAIN t : x = t[n]  BY <2>5 DEF ToSet
    <3>2. n + 1 \in DOMAIN s /\ x = s[n + 1]  BY <2>2, <3>1
    <3> QED  BY <3>2 DEF ToSet
  <2>6. Head(s) \in ToSet(s)
    <3>1. 1 \in DOMAIN s /\ Head(s) = s[1]  BY <2>2
    <3> QED  BY <3>1 DEF ToSet
  <2> QED  BY <2>3, <2>4, <2>5, <2>6 DEF t
<1>3. ASSUME NEW s, NEW t, IsSeq(s), IsSeq(t)
      PROVE  ToSet(s \o t) = ToSet(s) \cup ToSet(t) /\ IsSeq(s \o t)
  <2> DEFINE c == s \o t  X == { s[n] : n \in DOMAIN s } \cup { t[n] : n \in DOMAIN t }
  <2>1. s \in Seq(X) /\ t \in Seq(X)  BY <1>3 DEF IsSeq
  <2>2. /\ DOMAIN s = 1 .. Len(s) /\ DOMAIN t = 1 .. Len(t) /\ Len(s) \in Nat /\ Len(t) \in Nat
        /\ c \in Seq(X) /\ Len(c) = Len(s) + Len(t) /\ DOMAIN c = 1 .. Len(s) + Len(t)
        /\ \A n \in 1 .. Len(s) + Len(t) : c[n] = IF n <= Len(s) THEN s[n] ELSE t[n - Len(s)]
    <3> HIDE DEF X
    <3> QED  BY <2>1, JoinAt
  <2>3. IsSeq(c)
    <3> HIDE DEF X, c
    <3> QED  BY <2>2, OwnElements
  <2> HIDE DEF c
  <2>4. ASSUME NEW x \in ToSet(c) PROVE x \in ToSet(s) \cup ToSet(t)
    <3>1. PICK n \in DOMAIN c : x = c[n]  BY <2>4 DEF ToSet
    <3>2. CASE n <= Len(s)
      <4>1. n \in DOMAIN s /\ x = s[n]  BY <2>2, <3>1, <3>2
      <4> QED  BY <4>1 DEF ToSet
    <3>3. CASE ~(n <= Len(s))
      <4>1. n - Len(s) \in DOMAIN t /\ x = t[n - Len(s)]  BY <2>2, <3>1, <3>3
      <4> QED  BY <4>1 DEF ToSet
    <3> QED  BY <3>2, <3>3
  <2>5. ASSUME NEW x \in ToSet(s) PROVE x \in ToSet(c)
    <3>1. PICK n \in DOMAIN s : x = s[n]  BY <2>5 DEF ToSet
    <3>2. n \in DOMAIN c /\ x = c[n]  BY <2>2, <3>1
    <3> QED  BY <3>2 DEF ToSet
  <2>6. ASSUME NEW x \in ToSet(t) PROVE x \in ToSet(c)
    <3>1. PICK n \in DOMAIN t : x = t[n]  BY <2>6 DEF ToSet
    <3>2. n + Len(s) \in DOMAIN c /\ x = c[n + Len(s)]  BY <2>2, <3>1
    <3> QED  BY <3>2 DEF ToSet
  <2> QED  BY <2>3, <2>4, <2>5, <2>6 DEF c
<1>4. \A s : ToSet(s) = { s[n] : n \in DOMAIN s }  BY DEF ToSet
<1> QED  BY <1>1, <1>2, <1>3, <1>4

\* What is left of distinct steps is distinct; so are two lists of which no
\* step of the one touches what the other counts.
LEMMA OnceGoes ==
    /\ Once(<<>>)
    /\ \A s : (\A b \in ToSet(s) : b.at \notin {"lesson", "refresh", "worth"}) => Once(s)
    /\ \A s : IsSeq(s) /\ s # <<>> /\ Once(s) =>
          Once(Tail(s)) /\ \A b \in ToSet(Tail(s)) : Distinct(Head(s), b)
    /\ \A s, t : /\ IsSeq(s) /\ IsSeq(t) /\ Once(s) /\ Once(t)
                 /\ \A a \in ToSet(s) : \A b \in ToSet(t) : Distinct(a, b)
                 => Once(s \o t)
<1>1. ASSUME NEW s, \A b \in ToSet(s) : b.at \notin {"lesson", "refresh", "worth"}
      PROVE  Once(s)
  <2>1. \A n \in DOMAIN s : s[n].at \notin {"lesson", "refresh", "worth"}  BY <1>1 DEF ToSet
  <2> QED  BY <2>1 DEF Once, Distinct
<1>2. ASSUME NEW s, IsSeq(s), s # <<>>, Once(s)
      PROVE  Once(Tail(s)) /\ \A b \in ToSet(Tail(s)) : Distinct(Head(s), b)
  <2> DEFINE S == { s[n] : n \in DOMAIN s }  t == Tail(s)
  <2>1. s \in Seq(S)  BY <1>2 DEF IsSeq
  <2>2. /\ Len(s) \in Nat /\ Len(s) > 0 /\ DOMAIN s = 1 .. Len(s) /\ Head(s) = s[1]
        /\ DOMAIN t = 1 .. Len(s) - 1 /\ \A n \in 1 .. Len(s) - 1 : t[n] = s[n + 1]
    BY <1>2, <2>1
  <2> HIDE DEF t
  <2>3. ASSUME NEW m \in DOMAIN t, NEW n \in DOMAIN t, m < n PROVE Distinct(t[m], t[n])
    <3>1. /\ m + 1 \in DOMAIN s /\ n + 1 \in DOMAIN s /\ m + 1 < n + 1
          /\ t[m] = s[m + 1] /\ t[n] = s[n + 1]
      BY <2>2, <2>3
    <3> QED  BY <1>2, <3>1 DEF Once
  <2>4. ASSUME NEW b \in ToSet(t) PROVE Distinct(Head(s), b)
    <3>1. PICK n \in DOMAIN t : b = t[n]  BY <2>4 DEF ToSet
    <3>2. 1 \in DOMAIN s /\ n + 1 \in DOMAIN s /\ 1 < n + 1 /\ b = s[n + 1]  BY <2>2, <3>1
    <3> QED  BY <1>2, <2>2, <3>2 DEF Once
  <2>5. Once(t)  BY <2>3 DEF Once
  <2> QED  BY <2>4, <2>5 DEF t
<1>3. ASSUME NEW s, NEW t, IsSeq(s), IsSeq(t), Once(s), Once(t),
             \A a \in ToSet(s) : \A b \in ToSet(t) : Distinct(a, b)
      PROVE  Once(s \o t)
  <2> DEFINE c == s \o t  X == { s[n] : n \in DOMAIN s } \cup { t[n] : n \in DOMAIN t }
  <2>1. s \in Seq(X) /\ t \in Seq(X)  BY <1>3 DEF IsSeq
  <2>2. /\ DOMAIN s = 1 .. Len(s) /\ DOMAIN t = 1 .. Len(t) /\ Len(s) \in Nat /\ Len(t) \in Nat
        /\ DOMAIN c = 1 .. Len(s) + Len(t)
        /\ \A n \in 1 .. Len(s) + Len(t) : c[n] = IF n <= Len(s) THEN s[n] ELSE t[n - Len(s)]
    <3> HIDE DEF X
    <3> QED  BY <2>1, JoinAt
  <2> HIDE DEF c
  <2>3. ASSUME NEW m \in DOMAIN c, NEW n \in DOMAIN c, m < n PROVE Distinct(c[m], c[n])
    <3>1. CASE n <= Len(s)
      <4>1. m \in DOMAIN s /\ n \in DOMAIN s /\ c[m] = s[m] /\ c[n] = s[n]  BY <2>2, <2>3, <3>1
      <4> QED  BY <1>3, <2>3, <4>1 DEF Once
    <3>2. CASE ~(n <= Len(s)) /\ m <= Len(s)
      <4>1. /\ m \in DOMAIN s /\ n - Len(s) \in DOMAIN t
            /\ c[m] = s[m] /\ c[n] = t[n - Len(s)]
        BY <2>2, <2>3, <3>2
      <4>2. s[m] \in ToSet(s) /\ t[n - Len(s)] \in ToSet(t)  BY <4>1 DEF ToSet
      <4> QED  BY <1>3, <4>1, <4>2
    <3>3. CASE ~(n <= Len(s)) /\ ~(m <= Len(s))
      <4>1. /\ m - Len(s) \in DOMAIN t /\ n - Len(s) \in DOMAIN t /\ m - Len(s) < n - Len(s)
            /\ c[m] = t[m - Len(s)] /\ c[n] = t[n - Len(s)]
        BY <2>2, <2>3, <3>3
      <4> QED  BY <1>3, <4>1 DEF Once
    <3> QED  BY <3>1, <3>2, <3>3
  <2>4. Once(c)  BY <2>3 DEF Once
  <2> QED  BY <2>4 DEF c
<1>4. Once(<<>>)  BY DEF Once
<1> QED  BY <1>1, <1>2, <1>3, <1>4

\* The same of the order in which a lesson is counted and spread over.
LEMMA LeadsGo ==
    /\ \A s : (\A b \in ToSet(s) : b.at \notin {"count", "spread"}) => Leads(s)
    /\ \A s : IsSeq(s) /\ s # <<>> /\ Leads(s) =>
          /\ Leads(Tail(s))
          /\ Head(s).at \in {"count", "spread"} =>
                /\ Tail(s) # <<>> /\ Head(Tail(s)).at \in {"count", "spread", "last"}
                /\ LessonOf(Head(Tail(s))) = LessonOf(Head(s))
    /\ \A s, t : IsSeq(s) /\ IsSeq(t) /\ Leads(s) /\ Leads(t) => Leads(s \o t)
<1>1. ASSUME NEW s, \A b \in ToSet(s) : b.at \notin {"count", "spread"}
      PROVE  Leads(s)
  <2>1. \A n \in DOMAIN s : s[n].at \notin {"count", "spread"}  BY <1>1 DEF ToSet
  <2> QED  BY <2>1 DEF Leads
<1>2. ASSUME NEW s, IsSeq(s), s # <<>>, Leads(s)
      PROVE  /\ Leads(Tail(s))
             /\ Head(s).at \in {"count", "spread"} =>
                   /\ Tail(s) # <<>> /\ Head(Tail(s)).at \in {"count", "spread", "last"}
                   /\ LessonOf(Head(Tail(s))) = LessonOf(Head(s))
  <2> DEFINE S == { s[n] : n \in DOMAIN s }  t == Tail(s)
  <2>1. s \in Seq(S)  BY <1>2 DEF IsSeq
  <2>2. /\ Len(s) \in Nat /\ Len(s) > 0 /\ DOMAIN s = 1 .. Len(s) /\ Head(s) = s[1]
        /\ DOMAIN t = 1 .. Len(s) - 1 /\ \A n \in 1 .. Len(s) - 1 : t[n] = s[n + 1]
    BY <1>2, <2>1
  <2>6. IsSeq(t) /\ (t # <<>> => Head(t) = t[1])
    <3>1. IsSeq(t)  BY <1>2, Rest
    <3> HIDE DEF t
    <3> QED  BY <3>1, Rest
  <2> HIDE DEF t
  <2>3. ASSUME NEW n \in DOMAIN t, t[n].at \in {"count", "spread"}
        PROVE  /\ n + 1 \in DOMAIN t /\ t[n + 1].at \in {"count", "spread", "last"}
               /\ LessonOf(t[n + 1]) = LessonOf(t[n])
    <3>1. n \in Nat /\ n + 1 \in DOMAIN s /\ t[n] = s[n + 1]  BY <2>2
    <3>2. /\ (n + 1) + 1 \in DOMAIN s /\ s[(n + 1) + 1].at \in {"count", "spread", "last"}
          /\ LessonOf(s[(n + 1) + 1]) = LessonOf(s[n + 1])
      BY <1>2, <2>3, <3>1 DEF Leads
    <3>3. n + 1 \in DOMAIN t /\ t[n + 1] = s[(n + 1) + 1]  BY <2>2, <3>1, <3>2
    <3> QED  BY <3>1, <3>2, <3>3
  <2>4. Leads(t)  BY <2>3 DEF Leads
  <2>5. ASSUME Head(s).at \in {"count", "spread"}
        PROVE  /\ t # <<>> /\ Head(t).at \in {"count", "spread", "last"}
               /\ LessonOf(Head(t)) = LessonOf(Head(s))
    <3>1. 1 \in DOMAIN s  BY <2>2
    <3>2. /\ 1 + 1 \in DOMAIN s /\ s[1 + 1].at \in {"count", "spread", "last"}
          /\ LessonOf(s[1 + 1]) = LessonOf(s[1])
      BY <1>2, <2>2, <2>5, <3>1 DEF Leads
    <3>3. 1 \in DOMAIN t /\ t[1] = s[1 + 1]  BY <2>2, <3>2
    <3>4. t # <<>>  BY <3>3
    <3>5. Head(t) = t[1] /\ Head(s) = s[1]  BY <2>2, <2>6, <3>4
    <3> QED  BY <3>2, <3>3, <3>4, <3>5
  <2> QED  BY <2>4, <2>5 DEF t
<1>3. ASSUME NEW s, NEW t, IsSeq(s), IsSeq(t), Leads(s), Leads(t)
      PROVE  Leads(s \o t)
  <2> DEFINE c == s \o t  X == { s[n] : n \in DOMAIN s } \cup { t[n] : n \in DOMAIN t }
  <2>1. s \in Seq(X) /\ t \in Seq(X)  BY <1>3 DEF IsSeq
  <2>2. /\ DOMAIN s = 1 .. Len(s) /\ DOMAIN t = 1 .. Len(t) /\ Len(s) \in Nat /\ Len(t) \in Nat
        /\ DOMAIN c = 1 .. Len(s) + Len(t)
        /\ \A n \in 1 .. Len(s) + Len(t) : c[n] = IF n <= Len(s) THEN s[n] ELSE t[n - Len(s)]
    <3> HIDE DEF X
    <3> QED  BY <2>1, JoinAt
  <2> HIDE DEF c
  <2>3. ASSUME NEW n \in DOMAIN c, c[n].at \in {"count", "spread"}
        PROVE  /\ n + 1 \in DOMAIN c /\ c[n + 1].at \in {"count", "spread", "last"}
               /\ LessonOf(c[n + 1]) = LessonOf(c[n])
    <3>1. CASE n <= Len(s)
      <4>1. n \in DOMAIN s /\ c[n] = s[n]  BY <2>2, <2>3, <3>1
      <4>2. /\ n + 1 \in DOMAIN s /\ s[n + 1].at \in {"count", "spread", "last"}
            /\ LessonOf(s[n + 1]) = LessonOf(s[n])
        BY <1>3, <2>3, <4>1 DEF Leads
      <4>3. n + 1 \in DOMAIN c /\ c[n + 1] = s[n + 1]  BY <2>2, <4>2
      <4> QED  BY <4>1, <4>2, <4>3
    <3>2. CASE ~(n <= Len(s))
      <4> DEFINE m == n - Len(s)
      <4>1. m \in DOMAIN t /\ c[n] = t[m]  BY <2>2, <2>3, <3>2
      <4>2. /\ m + 1 \in DOMAIN t /\ t[m + 1].at \in {"count", "spread", "last"}
            /\ LessonOf(t[m + 1]) = LessonOf(t[m])
        BY <1>3, <2>3, <4>1 DEF Leads
      <4>3. n + 1 \in DOMAIN c /\ c[n + 1] = t[m + 1]  BY <2>2, <3>2, <4>2
      <4> QED  BY <4>1, <4>2, <4>3
    <3> QED  BY <3>1, <3>2
  <2>4. Leads(c)  BY <2>3 DEF Leads
  <2> QED  BY <2>4 DEF c
<1> QED  BY <1>1, <1>2, <1>3

(***************************************************************************)
(* Branches                                                                *)
(***************************************************************************)

\* The rows above these, and they themselves, are a branch: the smallest.
LEMMA UpwardClosed ==
    ASSUME TInv, NEW ss \in SUBSET Lessons, NEW ls \in SUBSET Levels, NEW gs \in SUBSET Grades
    PROVE  /\ Closed(Upward(ss, ls, gs)) /\ ss \cup ls \cup gs \subseteq Upward(ss, ls, gs)
           /\ \A b : Closed(b) /\ ss \cup ls \cup gs \subseteq b => Upward(ss, ls, gs) \subseteq b
<1> DEFINE up == Upward(ss, ls, gs)
           ms == ls \cup { lesson[s].level : s \in { t \in ss : lesson[t] # None } }
           hs == { level[l].grade : l \in { m \in ms : level[m] # None } }
<1>1. up = ss \cup ms \cup gs \cup hs  BY DEF Upward
<1>2. /\ There(lesson) \subseteq Lessons /\ \A s \in There(lesson) : lesson[s] \in LessonRow
      /\ There(level) \subseteq Levels /\ \A l \in There(level) : level[l] \in LevelRow
  BY ThereIs DEF TInv
<1>3. \A s \in ss : lesson[s] # None => s \in There(lesson)  BY DEF There, TInv, Tabled
<1>4. ms \subseteq Levels  BY <1>2, <1>3 DEF LessonRow
<1>5. \A l \in ms : level[l] # None => l \in There(level)  BY <1>4 DEF There, TInv, Tabled
<1>6. hs \subseteq Grades  BY <1>2, <1>5 DEF LevelRow
<1>7. Lessons \cap Levels = {} /\ (Lessons \cup Levels) \cap Grades = {}
  BY CurriculumTreeAssumed DEF CurriculumTreeAssumption
<1>8. Closed(up)
  <2>1. up \subseteq Rows  BY <1>1, <1>4, <1>6 DEF Rows
  <2>2. ASSUME NEW s \in There(lesson) \cap up PROVE lesson[s].level \in up
    <3>1. s \in ss /\ lesson[s] # None  BY <1>1, <1>2, <1>4, <1>6, <1>7, <2>2 DEF There
    <3> QED  BY <1>1, <3>1
  <2>3. ASSUME NEW l \in There(level) \cap up PROVE level[l].grade \in up
    <3>1. l \in ms /\ level[l] # None  BY <1>1, <1>2, <1>4, <1>6, <1>7, <2>3 DEF There
    <3> QED  BY <1>1, <3>1
  <2> QED  BY <2>1, <2>2, <2>3 DEF Closed
<1>9. ASSUME NEW b, Closed(b), ss \cup ls \cup gs \subseteq b PROVE up \subseteq b
  <2>1. \A s \in ss : lesson[s] # None => lesson[s].level \in b  BY <1>3, <1>9 DEF Closed
  <2>2. ms \subseteq b  BY <1>9, <2>1
  <2>3. \A l \in ms : level[l] # None => level[l].grade \in b  BY <1>5, <1>9, <2>2 DEF Closed
  <2>4. hs \subseteq b  BY <2>3
  <2> QED  BY <1>1, <1>9, <2>2, <2>4
<1>10. ss \cup ls \cup gs \subseteq up  BY <1>1
<1> QED  BY <1>8, <1>9, <1>10

\* Two branches together are one.
LEMMA ClosedJoins == \A a, b : Closed(a) /\ Closed(b) => Closed(a \cup b)
BY DEF Closed

\* What a request names is a branch.
LEMMA NamedClosed ==
    ASSUME TInv, NEW a \in AskRow
    PROVE  /\ Closed(Named(a)) /\ AskOn(a, Named(a))
           /\ a.do \in Bulk => Named(a) = Rows
           /\ \A b : Closed(b) /\ AskOn(a, b) /\ a.do \notin Bulk => Named(a) \subseteq b
<1> DEFINE ss == ({a.lesson} \ {None})
                   \cup { item[i].lesson : i \in { j \in {a.item} \ {None} : item[j] # None } }
           ls == ({a.level} \ {None})
                   \cup { question[x].level : x \in { y \in {a.question} \ {None} : question[y] # None } }
           gs == {a.grade} \ {None}
<1>1. /\ a.lesson \in Lessons \cup {None} /\ a.level \in Levels \cup {None}
      /\ a.grade \in Grades \cup {None} /\ a.item \in Items \cup {None}
      /\ a.question \in Questions \cup {None}
  BY DEF AskRow
<1>2. /\ \A i \in Items : item[i] # None => item[i] \in ItemRow
      /\ \A x \in Questions : question[x] # None => question[x] \in QuestionRow
  BY DEF TInv, Tabled
<1>3. ss \in SUBSET Lessons /\ ls \in SUBSET Levels /\ gs \in SUBSET Grades
  BY <1>1, <1>2 DEF ItemRow, QuestionRow
<1>4. CASE a.do \in Bulk
  <2>1. Named(a) = Upward(Lessons, Levels, Grades)  BY <1>4 DEF Named
  <2>2. /\ Closed(Upward(Lessons, Levels, Grades))
        /\ Lessons \cup Levels \cup Grades \subseteq Upward(Lessons, Levels, Grades)
    BY UpwardClosed
  <2>3. Named(a) = Rows  BY <2>1, <2>2 DEF Closed, Rows
  <2>4. AskOn(a, Rows)  BY <1>1, <1>2 DEF AskOn, Rows, ItemRow, QuestionRow
  <2> QED  BY <1>4, <2>1, <2>2, <2>3, <2>4
<1>5. CASE a.do \notin Bulk
  <2>1. Named(a) = Upward(ss, ls, gs)  BY <1>5 DEF Named
  <2>2. Closed(Named(a)) /\ ss \cup ls \cup gs \subseteq Named(a)
    <3> HIDE DEF ss, ls, gs
    <3> QED  BY <1>3, <2>1, UpwardClosed
  <2>3. AskOn(a, Named(a))  BY <2>2 DEF AskOn
  <2>4. ASSUME NEW b, Closed(b), AskOn(a, b) PROVE Named(a) \subseteq b
    <3>1. ss \cup ls \cup gs \subseteq b  BY <2>4 DEF AskOn
    <3> HIDE DEF ss, ls, gs
    <3> QED  BY <1>3, <2>1, <2>4, <3>1, UpwardClosed
  <2> QED  BY <1>5, <2>2, <2>3, <2>4
<1> QED  BY <1>4, <1>5

(***************************************************************************)
(* What a step of one request leaves to the others                         *)
(***************************************************************************)

\* The rows that change are on its branch.
Moves(p) ==
    /\ \A s \in Lessons : lesson'[s] = lesson[s] \/ s \in reach[p]
    /\ \A l \in Levels : level'[l] = level[l] \/ l \in reach[p]
    /\ \A g \in Grades : grade'[g] = grade[g] \/ g \in reach[p]
    /\ \A i \in Items : \/ item'[i] = item[i]
                        \/ /\ item[i] # None => item[i].lesson \in reach[p]
                           /\ item'[i] # None => item'[i].lesson \in reach[p]
    /\ \A x \in Questions : \/ question'[x] = question[x]
                            \/ /\ question[x] # None => question[x].level \in reach[p]
                               /\ question'[x] # None => question'[x].level \in reach[p]

\* Only who shares its branch gets more of it.
Grows(p) ==
    /\ DOMAIN reach' = Requests /\ reach'[p] = reach[p]
    /\ \A q \in Requests : /\ reach[q] \subseteq reach'[q] /\ reach'[q] \subseteq reach[q] \cup reach[p]
                           /\ reach[q] \cap reach[p] = {} => reach'[q] = reach[q]

\* A row that appears is the one it is to make.
Adding(p, do, field, x) == Does(p, "write") /\ ask[p].do = do /\ ask[p][field] = x
Appears(p) ==
    /\ \A i \in Items : item[i] = None /\ item'[i] # None => Adding(p, "addItem", "item", i)
    /\ \A s \in Lessons : lesson[s] = None /\ lesson'[s] # None => Adding(p, "addLesson", "lesson", s)
    /\ \A l \in Levels : level[l] = None /\ level'[l] # None => Adding(p, "addLevel", "level", l)
    /\ \A x \in Questions :
          question[x] = None /\ question'[x] # None => Adding(p, "addQuestion", "question", x)

\* Who was on the lesson of an item is on the one it is moved to.
Carries ==
    /\ \A i \in Items : item[i] # None /\ item'[i] # None =>
          \A q \in Requests : item[i].lesson \in reach[q] => item'[i].lesson \in reach'[q]
    /\ \A x \in Questions : question[x] # None /\ question'[x] # None =>
          question'[x].level = question[x].level

\* The saves sent and landed are its own.
Sends(p) ==
    /\ \A w \in unsaved \ unsaved' : w.by = p
    /\ \A w \in unsaved' \ unsaved :
          /\ w.by = p
          /\ w.at = "lesson" => w.of \in reach[p]
          /\ w.at = "item" => item'[w.of] = item[w.of] /\ item[w.of] # None
                                /\ item[w.of].lesson \in reach[p]

OthersStay(p) ==
    /\ \A q \in Requests \ {p} : todo'[q] = todo[q] /\ mem'[q] = mem[q] /\ status'[q] = status[q]
    /\ \A q \in Requests : clean'[q] => clean[q]

Acts(p) ==
    /\ UNCHANGED ask /\ ~Settled(p) /\ status[p] # "idle" /\ status'[p] # "idle"
    /\ Moves(p) /\ Grows(p) /\ Appears(p) /\ Carries /\ Sends(p) /\ OthersStay(p)

\* What is so of a request on its branch, but for what its branch is.
Own(p) == Inside(p) /\ Ordered(p) /\ Once(todo[p]) /\ Leads(todo[p]) /\ MadeNew(p)

BInv == Branches /\ SavesOn /\ Unmade /\ Alone /\ Shapes

\* What two requests make is not the same, and what one makes nobody else names.
LEMMA MakesAlone ==
    ASSUME Given, NEW p \in Requests, NEW q \in Requests \ {p}, ask[p] # None, ask[q] # None
    PROVE  /\ ask[p].do = "addItem" => ask[q].item # ask[p].item
           /\ ask[p].do = "addLesson" => ask[q].lesson # ask[p].lesson
           /\ ask[p].do = "addLevel" => ask[q].level # ask[p].level
           /\ ask[p].do = "addQuestion" => ask[q].question # ask[p].question
<1>1. \A f \in Makes(ask[p].do) : ask[q][f] # ask[p][f]
  BY CurriculumTreeAssumed DEF AsksAssumption, Given
<1> QED  BY <1>1 DEF Makes

\* Who has something to do asked for something.
LEMMA AskedFor ==
    ASSUME IInv, NEW p \in Requests, todo[p] # <<>>
    PROVE  ask[p] \in AskRow /\ ask[p] # None
<1>1. AllFit(ask[p], todo[p])  BY DEF IInv, Todos
<1>2. 1 \in DOMAIN todo[p]  BY <1>1, Rest DEF AllFit
<1>3. ask[p] \in AskRow  BY <1>1, <1>2 DEF AllFit, Fits
<1> QED  BY <1>3, CurriculumTreeAssumed DEF CurriculumTreeAssumption

\* What a request names stays on its branch.
LEMMA AskStays ==
    ASSUME Given, IInv, TInv, Branches, NEW p \in Requests, Acts(p), NEW q \in Requests, todo[q] # <<>>
    PROVE  AskOn(ask[q], reach[q])'
<1> DEFINE a == ask[q]
<1>1. ask' = ask  BY DEF Acts
<1>2. AskOn(a, reach[q]) /\ Closed(reach[q])  BY DEF Branches, Inside
<1>3. reach[q] \subseteq reach'[q] /\ reach'[p] = reach[p]  BY DEF Acts, Grows
<1>4. a \in AskRow /\ a # None  BY AskedFor
<1>5. a.item \in Items \cup {None} /\ a.question \in Questions \cup {None}  BY <1>4 DEF AskRow
<1>6. ASSUME a.item # None, item'[a.item] # None PROVE item'[a.item].lesson \in reach'[q]
  <2>1. a.item \in Items  BY <1>5, <1>6
  <2>2. CASE item[a.item] # None
    <3>1. item[a.item].lesson \in reach[q]  BY <1>2, <1>6, <2>2 DEF AskOn
    <3> QED  BY <1>6, <2>1, <2>2, <3>1 DEF Acts, Carries
  <2>3. CASE item[a.item] = None
    <3>1. todo[p] # <<>> /\ ask[p].do = "addItem" /\ ask[p].item = a.item
      BY <1>6, <2>1, <2>3 DEF Acts, Appears, Adding, Does
    <3>2. q = p  BY <1>4, <3>1, AskedFor, MakesAlone
    <3>3. item'[a.item].lesson \in reach[p]  BY <1>6, <2>1, <2>3 DEF Acts, Moves
    <3> QED  BY <1>3, <3>2, <3>3
  <2> QED  BY <2>2, <2>3
<1>7. ASSUME a.question # None, question'[a.question] # None
      PROVE  question'[a.question].level \in reach'[q]
  <2>1. a.question \in Questions  BY <1>5, <1>7
  <2>2. CASE question[a.question] # None
    <3>1. question[a.question].level \in reach[q]  BY <1>2, <1>7, <2>2 DEF AskOn
    <3> QED  BY <1>3, <1>7, <2>1, <2>2, <3>1 DEF Acts, Carries
  <2>3. CASE question[a.question] = None
    <3>1. todo[p] # <<>> /\ ask[p].do = "addQuestion" /\ ask[p].question = a.question
      BY <1>7, <2>1, <2>3 DEF Acts, Appears, Adding, Does
    <3>2. q = p  BY <1>4, <3>1, AskedFor, MakesAlone
    <3>3. question'[a.question].level \in reach[p]  BY <1>7, <2>1, <2>3 DEF Acts, Moves
    <3> QED  BY <1>3, <3>2, <3>3
  <2> QED  BY <2>2, <2>3
<1> QED  BY <1>1, <1>2, <1>3, <1>6, <1>7 DEF AskOn

\* On a branch is on a larger one.
LEMMA OnMore ==
    ASSUME NEW b, NEW c, b \subseteq c
    PROVE  /\ \A step : StepOn(step, b) => StepOn(step, c)
           /\ \A a, at, held : HeldOn(a, at, held, b) => HeldOn(a, at, held, c)
BY DEF StepOn, HeldOn

\* Who waits stays on its branch.
LEMMA WaitsInside ==
    ASSUME Given, IInv, TInv, Branches, NEW p \in Requests, Acts(p), NEW q \in Requests,
           todo'[q] = todo[q], mem'[q] = mem[q]
    PROVE  Inside(q)'
<1>1. ASSUME todo[q] # <<>>
      PROVE  /\ AskOn(ask[q], reach[q])'
             /\ \A step \in ToSet(todo[q]) : StepOn(step, reach'[q])
             /\ HeldOn(ask[q], Head(todo[q]).at, mem[q], reach'[q])
  <2>1. reach[q] \subseteq reach'[q]  BY DEF Acts, Grows
  <2>2. /\ \A step \in ToSet(todo[q]) : StepOn(step, reach[q])
        /\ HeldOn(ask[q], Head(todo[q]).at, mem[q], reach[q])
    BY <1>1 DEF Branches, Inside
  <2>3. AskOn(ask[q], reach[q])'  BY <1>1, AskStays
  <2> QED  BY <2>1, <2>2, <2>3, OnMore
<1>2. ask' = ask  BY DEF Acts
<1> QED  BY <1>1, <1>2 DEF Inside

\* A bulk request has all the rows.
LEMMA StaysWide ==
    ASSUME Branches, NEW p \in Requests, Acts(p), NEW q \in Requests
    PROVE  Wide(q)'
<1>1. ASSUME status'[q] # "idle", ask[q].do \in Bulk PROVE reach'[q] = Rows
  <2>1. status[q] # "idle"  BY <1>1 DEF Acts, OthersStay
  <2>2. reach[q] = Rows /\ reach[p] \subseteq Rows  BY <1>1, <2>1 DEF Branches, Wide, Closed
  <2> QED  BY <2>2 DEF Acts, Grows
<1>2. ask' = ask  BY DEF Acts
<1> QED  BY <1>1, <1>2 DEF Wide

\* A save that is under way stays on the branch of who sent it.
LEMMA SavesStayOn ==
    ASSUME IInv, TInv, Branches, SavesOn, Unmade, NEW p \in Requests, Acts(p)
    PROVE  SavesOn'
<1>1. ASSUME NEW w \in unsaved'
      PROVE  /\ w.at = "lesson" => w.of \in reach'[w.by]
             /\ w.at = "item" /\ item'[w.of] # None => item'[w.of].lesson \in reach'[w.by]
  <2>1. CASE w \in unsaved
    <3>1. w.by \in Requests /\ (w.at = "item" => w.of \in Items)
      BY <2>1 DEF TInv, SavesTyped
    <3>2. reach[w.by] \subseteq reach'[w.by]  BY <3>1 DEF Acts, Grows
    <3>3. w.at = "lesson" => w.of \in reach'[w.by]  BY <2>1, <3>2 DEF SavesOn, SaveOn
    <3>4. ASSUME w.at = "item", item'[w.of] # None PROVE item'[w.of].lesson \in reach'[w.by]
      <4>1. ASSUME item[w.of] = None PROVE FALSE
        <5>1. Does(p, "write") /\ ask[p].do = "addItem" /\ ask[p].item = w.of
          BY <3>1, <3>4, <4>1 DEF Acts, Appears, Adding
        <5>2. ask[p] # None  BY <5>1, AskedFor DEF Does
        <5> QED  BY <2>1, <3>4, <5>1, <5>2 DEF Unmade, MadeNew
      <4>2. item[w.of].lesson \in reach[w.by]  BY <2>1, <3>4, <4>1 DEF SavesOn, SaveOn
      <4> QED  BY <3>1, <3>4, <4>1, <4>2 DEF Acts, Carries
    <3> QED  BY <3>3, <3>4
  <2>2. CASE w \notin unsaved
    <3>1. /\ w.by = p /\ (w.at = "lesson" => w.of \in reach[p])
          /\ w.at = "item" => item'[w.of] = item[w.of] /\ item[w.of].lesson \in reach[p]
      BY <1>1, <2>2 DEF Acts, Sends
    <3> QED  BY <3>1 DEF Acts, Grows
  <2> QED  BY <2>1, <2>2
<1> QED  BY <1>1 DEF SavesOn, SaveOn

\* A clean request stays alone on its branch.
LEMMA StaysAlone ==
    ASSUME TInv, Alone, NEW p \in Requests, Acts(p)
    PROVE  Alone'
<1>1. ASSUME NEW q \in Requests, clean'[q], status'[q] # "idle", NEW r \in Requests \ {q}
      PROVE  Settled(r)' \/ reach'[r] \cap reach'[q] = {}
  <2>1. clean[q] /\ status[q] # "idle"  BY <1>1 DEF Acts, OthersStay
  <2>2. \A u \in Requests \ {q} : Settled(u) \/ reach[u] \cap reach[q] = {}
    BY <2>1 DEF Alone, Apart
  <2>3. ~Settled(p)  BY DEF Acts
  <2>4. q # p => reach[p] \cap reach[q] = {}  BY <2>2, <2>3
  <2>5. reach'[q] = reach[q]  BY <2>4 DEF Acts, Grows
  <2>6. CASE Settled(r)
    <3>1. r # p  BY <2>3, <2>6
    <3>2. todo'[r] = <<>>  BY <2>6, <3>1 DEF Acts, OthersStay, Settled
    <3>3. \A w \in unsaved' : w.by # r  BY <2>6, <3>1 DEF Acts, Sends, Settled
    <3> QED  BY <3>2, <3>3 DEF Settled
  <2>7. CASE ~Settled(r)
    <3>1. reach[r] \cap reach[q] = {}  BY <2>2, <2>7
    <3>2. /\ reach'[r] \subseteq reach[r] \cup reach[p]
          /\ reach[r] \cap reach[p] = {} => reach'[r] = reach[r]
      BY DEF Acts, Grows
    <3> QED  BY <2>4, <2>5, <3>1, <3>2
  <2> QED  BY <2>6, <2>7
<1> QED  BY <1>1 DEF Alone, Apart

\* What another is to make is not there yet.
LEMMA StaysUnmade ==
    ASSUME Given, IInv, TInv, Unmade, NEW p \in Requests, Acts(p), NEW q \in Requests \ {p}
    PROVE  MadeNew(q)'
<1> DEFINE a == ask[q]
<1>1. ask' = ask /\ todo'[q] = todo[q] /\ status'[q] = status[q]  BY DEF Acts, OthersStay
<1>2. ASSUME a # None, status[q] = "idle" \/ Does(q, "write")
      PROVE  /\ a.do = "addItem" => /\ item'[a.item] = None
                                    /\ \A w \in unsaved' : w.at = "item" => w.of # a.item
             /\ a.do = "addLesson" => lesson'[a.lesson] = None
             /\ a.do = "addLevel" => level'[a.level] = None
             /\ a.do = "addQuestion" => question'[a.question] = None
  <2>1. /\ a.do = "addItem" => /\ item[a.item] = None
                               /\ \A w \in unsaved : w.at = "item" => w.of # a.item
        /\ a.do = "addLesson" => lesson[a.lesson] = None
        /\ a.do = "addLevel" => level[a.level] = None
        /\ a.do = "addQuestion" => question[a.question] = None
    BY <1>2 DEF Unmade, MadeNew
  <2>2. /\ a.do = "addItem" => a.item \in Items
        /\ a.do = "addLesson" => a.lesson \in Lessons
        /\ a.do = "addLevel" => a.level \in Levels
        /\ a.do = "addQuestion" => a.question \in Questions
    BY <1>2, AskedRows DEF Given
  <2>3. \A do, f, x : Adding(p, do, f, x) => ask[p] # None /\ ask[p].do = do /\ ask[p][f] = x
    BY AskedFor DEF Adding, Does
  <2>4. /\ a.do = "addItem" => item'[a.item] = None
        /\ a.do = "addLesson" => lesson'[a.lesson] = None
        /\ a.do = "addLevel" => level'[a.level] = None
        /\ a.do = "addQuestion" => question'[a.question] = None
    BY <1>2, <2>1, <2>2, <2>3, MakesAlone DEF Acts, Appears
  <2>5. ASSUME a.do = "addItem", NEW w \in unsaved', w.at = "item" PROVE w.of # a.item
    BY <2>1, <2>5 DEF Acts, Sends
  <2> QED  BY <2>4, <2>5
<1> QED  BY <1>1, <1>2 DEF MadeNew, Does

\* The steps and the saves of another stay as they are.
LEMMA StaysOrdered ==
    ASSUME Shapes, NEW p \in Requests, Acts(p), NEW q \in Requests,
           todo'[q] = todo[q], status'[q] = status[q], \A w \in unsaved' \ unsaved : w.by # q
    PROVE  Ordered(q)' /\ Once(todo'[q]) /\ Leads(todo'[q])
BY DEF Shapes, Ordered

\* Own is all that is left to show of a step, but for the branches themselves.
LEMMA StepOnBranch ==
    ASSUME Given, IInv, TInv, BInv, NEW p \in Requests, Acts(p), Own(p)',
           \A q \in Requests : Closed(reach[q])'
    PROVE  Acts(p) /\ BInv'
<1>1. \A q \in Requests \ {p} : todo'[q] = todo[q] /\ mem'[q] = mem[q] /\ status'[q] = status[q]
  BY DEF Acts, OthersStay
<1>2. \A q \in Requests : Inside(q)' /\ Wide(q)'
  BY <1>1, WaitsInside, StaysWide DEF Own, BInv
<1>3. DOMAIN reach' = Requests  BY DEF Acts, Grows
<1>4. Branches'  BY <1>2, <1>3 DEF Branches
<1>5. SavesOn' /\ Alone'  BY SavesStayOn, StaysAlone DEF BInv
<1>6. \A q \in Requests : MadeNew(q)'  BY StaysUnmade DEF Own, BInv
<1>7. ASSUME NEW q \in Requests PROVE Ordered(q)' /\ Once(todo'[q]) /\ Leads(todo'[q])
  <2>1. CASE q = p  BY <2>1 DEF Own
  <2>2. CASE q # p
    <3>1. \A w \in unsaved' \ unsaved : w.by # q  BY <2>2 DEF Acts, Sends
    <3> QED  BY <1>1, <2>2, <3>1, StaysOrdered DEF BInv
  <2> QED  BY <2>1, <2>2
<1>8. Unmade' /\ Shapes'  BY <1>6, <1>7 DEF Unmade, Shapes
<1> QED  BY <1>4, <1>5, <1>8 DEF BInv

(***************************************************************************)
(* What a step leaves to its own request                                   *)
(***************************************************************************)

\* The steps after the first: in order, distinct from it.
LEMMA HeadShape ==
    ASSUME IInv, Shapes, NEW p \in Requests, todo[p] # <<>>
    PROVE  /\ IsSeq(todo[p]) /\ IsSeq(Tail(todo[p]))
           /\ ToSet(todo[p]) = {Head(todo[p])} \cup ToSet(Tail(todo[p]))
           /\ Once(Tail(todo[p])) /\ Leads(Tail(todo[p]))
           /\ \A b \in ToSet(Tail(todo[p])) : Distinct(Head(todo[p]), b)
           /\ Head(todo[p]).at = "read" => Tail(todo[p]) = <<At("write", None)>>
           /\ Head(todo[p]).at \in {"write", "scan"} => Tail(todo[p]) = <<>>
           /\ Head(todo[p]).at \in Early => /\ todo[p] \in Beginnings
                                            /\ \A w \in unsaved : w.by # p
           /\ Head(todo[p]).at \notin Early => /\ todo[p] \notin Beginnings
                                               /\ \A b \in ToSet(todo[p]) : b.at \notin Early
<1> DEFINE s == todo[p]
<1>1. IsSeq(s) /\ s # <<>>  BY DEF IInv, Todos, AllFit
<1>2. ToSet(s) = {Head(s)} \cup ToSet(Tail(s)) /\ IsSeq(Tail(s))  BY <1>1, Elements
<1>3. Once(s) /\ Leads(s) /\ Ordered(p)  BY DEF Shapes
<1>4. Once(Tail(s)) /\ \A b \in ToSet(Tail(s)) : Distinct(Head(s), b)  BY <1>1, <1>3, OnceGoes
<1>5. Leads(Tail(s))  BY <1>1, <1>3, LeadsGo
<1>6. ASSUME s \in Beginnings
      PROVE  /\ Head(s).at = "read" => Tail(s) = <<At("write", None)>>
             /\ Head(s).at \in {"write", "scan"} => Tail(s) = <<>>
             /\ Head(s).at \in Early
  <2>1. CASE s = <<At("read", None), At("write", None)>>  BY <2>1 DEF At, Early
  <2>2. CASE s = <<At("write", None)>>  BY <2>2 DEF At, Early
  <2>3. CASE s = <<At("scan", None)>>  BY <2>3 DEF At, Early
  <2> QED  BY <1>6, <2>1, <2>2, <2>3 DEF Beginnings
<1>7. Head(s).at \in Early => s \in Beginnings /\ \A w \in unsaved : w.by # p
  BY <1>2, <1>3 DEF Ordered
<1>8. Head(s).at \notin Early => s \notin Beginnings /\ \A b \in ToSet(s) : b.at \notin Early
  BY <1>3, <1>6 DEF Ordered
<1>9. "read" \in Early /\ "write" \in Early /\ "scan" \in Early  BY DEF Early
<1> QED  BY <1>1, <1>2, <1>4, <1>5, <1>6, <1>7, <1>8, <1>9

\* Lists without the first steps are none of the beginnings.
LEMMA PastBeginnings ==
    ASSUME NEW s, IsSeq(s), \A b \in ToSet(s) : b.at \notin Early
    PROVE  s \notin Beginnings
<1> SUFFICES ASSUME s \in Beginnings PROVE FALSE  OBVIOUS
<1>1. s # <<>> /\ Head(s).at \in Early  BY DEF Beginnings, At, Early
<1>2. Head(s) \in ToSet(s)  BY <1>1, Elements
<1> QED  BY <1>1, <1>2

\* Who goes on or stops, the others stay.
LEMMA Goings ==
    ASSUME IInv, TInv, NEW p \in Requests, todo[p] # <<>>, \A q \in Requests : clean'[q] => clean[q]
    PROVE  /\ ~Settled(p) /\ status[p] = "running"
           /\ \A steps, held : Continue(p, steps, held) =>
                 /\ OthersStay(p) /\ status'[p] # "idle"
                 /\ todo'[p] = steps \o Tail(todo[p])
                 /\ mem'[p] = IF todo'[p] = <<>> THEN NoMem ELSE held
                 /\ status'[p] = IF todo'[p] = <<>> THEN "done" ELSE "running"
           /\ \A how : Stop(p, how) /\ how # "idle" =>
                 OthersStay(p) /\ status'[p] # "idle" /\ todo'[p] = <<>> /\ status'[p] = how
<1>1. status[p] = "running"  BY DEF TInv, Going, Running
<1>2. /\ DOMAIN todo = Requests /\ DOMAIN mem = Requests /\ DOMAIN status = Requests
  BY DEF IInv, Todos, TInv, Going, InHand, Running
<1>3. ASSUME NEW steps, NEW held, Continue(p, steps, held)
      PROVE  /\ OthersStay(p) /\ status'[p] # "idle"
             /\ todo'[p] = steps \o Tail(todo[p])
             /\ mem'[p] = IF todo'[p] = <<>> THEN NoMem ELSE held
             /\ status'[p] = IF todo'[p] = <<>> THEN "done" ELSE "running"
  <2> DEFINE rest == steps \o Tail(todo[p])
  <2>1. /\ todo' = [todo EXCEPT ![p] = rest]
        /\ mem' = [mem EXCEPT ![p] = IF rest = <<>> THEN NoMem ELSE held]
        /\ status' = [status EXCEPT ![p] = IF rest = <<>> THEN "done" ELSE @]
    BY <1>3 DEF Continue
  <2> HIDE DEF rest
  <2>2. /\ todo'[p] = rest /\ mem'[p] = IF rest = <<>> THEN NoMem ELSE held
        /\ status'[p] = IF rest = <<>> THEN "done" ELSE "running"
    BY <1>1, <1>2, <2>1
  <2>3. OthersStay(p)  BY <1>2, <2>1 DEF OthersStay
  <2> QED  BY <2>2, <2>3 DEF rest
<1>4. ASSUME NEW how, Stop(p, how), how # "idle"
      PROVE  OthersStay(p) /\ status'[p] # "idle" /\ todo'[p] = <<>> /\ status'[p] = how
  <2>1. /\ todo' = [todo EXCEPT ![p] = <<>>] /\ mem' = [mem EXCEPT ![p] = NoMem]
        /\ status' = [status EXCEPT ![p] = how]
    BY <1>4 DEF Stop
  <2> QED  BY <1>2, <1>4, <2>1 DEF OthersStay
<1>5. ~Settled(p)  BY DEF Settled
<1> QED  BY <1>1, <1>3, <1>4, <1>5

\* A request that goes on: its steps are in order and on its branch.
LEMMA OwnGoes ==
    ASSUME Given, IInv, TInv, BInv, NEW p \in Requests, Acts(p), todo[p] # <<>>,
           NEW steps, NEW held, Continue(p, steps, held), IsSeq(steps), Once(steps), Leads(steps),
           \A step \in ToSet(steps) :
              /\ StepOn(step, reach[p]) /\ step.at \notin Early
              /\ \A b \in ToSet(Tail(todo[p])) : Distinct(step, b),
           Head(todo[p]).at = "read" => steps = <<>> /\ unsaved' \subseteq unsaved,
           steps # <<>> => HeldOn(ask[p], steps[1].at, held, reach[p]),
           steps = <<>> => \A b : Follows(Head(todo[p]), b) => HeldOn(ask[p], b.at, held, reach[p])
    PROVE  Own(p)'
<1> DEFINE s == todo[p]  rest == steps \o Tail(s)
<1>1. /\ IsSeq(Tail(s)) /\ ToSet(s) = {Head(s)} \cup ToSet(Tail(s))
      /\ Once(Tail(s)) /\ Leads(Tail(s))
      /\ Head(s).at = "read" => Tail(s) = <<At("write", None)>>
      /\ Head(s).at \in {"write", "scan"} => Tail(s) = <<>>
      /\ Head(s).at \in Early => \A w \in unsaved : w.by # p
      /\ Head(s).at \notin Early => \A b \in ToSet(s) : b.at \notin Early
  BY HeadShape DEF BInv
<1>2. IsSeq(rest) /\ ToSet(rest) = ToSet(steps) \cup ToSet(Tail(s))  BY <1>1, Elements
<1>3. /\ todo'[p] = rest /\ mem'[p] = (IF rest = <<>> THEN NoMem ELSE held) /\ status'[p] # "idle"
      /\ ask' = ask /\ reach'[p] = reach[p]
  <2>1. \A q \in Requests : clean'[q] => clean[q]  BY DEF Acts, OthersStay
  <2>2. todo'[p] = rest /\ mem'[p] = (IF todo'[p] = <<>> THEN NoMem ELSE held)
    BY <2>1, Goings
  <2> HIDE DEF rest
  <2> QED  BY <2>2 DEF Acts, Grows
<1>4. Once(rest)  BY <1>1, OnceGoes
<1>5. Leads(rest)  BY <1>1, LeadsGo
<1>6. ASSUME rest # <<>> PROVE HeldOn(ask[p], Head(rest).at, held, reach[p])
  <2>1. CASE steps = <<>>
    <3>1. rest = Tail(s)  BY <1>1, <2>1, NothingBefore
    <3>2. IsSeq(s) /\ Chain(s)  BY DEF TInv, Going, Steps, Sound
    <3>3. Head(rest) = Tail(s)[1] /\ Follows(Head(s), Tail(s)[1])
      BY <1>6, <3>1, <3>2, RestChain
    <3> QED  BY <2>1, <3>3
  <2>2. CASE steps # <<>>
    <3>1. Head(rest) = steps[1]  BY <1>1, <2>2, HeadOfJoin
    <3> QED  BY <2>2, <3>1
  <2> QED  BY <2>1, <2>2
<1>7. Head(s).at = "read" => rest = <<At("write", None)>>
  BY <1>1, NothingBefore
<1>8. Head(s).at # "read" => \A b \in ToSet(rest) : b.at \notin Early
  <2>1. Head(s).at \in Early /\ Head(s).at # "read" => ToSet(Tail(s)) = {}
    BY <1>1, Elements DEF Early
  <2> QED  BY <1>1, <1>2, <2>1
<1>9. Inside(p)'
  <2>1. AskOn(ask[p], reach[p])'  BY AskStays DEF BInv
  <2>2. \A step \in ToSet(rest) : StepOn(step, reach[p])
    BY <1>1, <1>2 DEF BInv, Branches, Inside
  <2> HIDE DEF rest
  <2> QED  BY <1>3, <1>6, <2>1, <2>2 DEF Inside
<1>10. Ordered(p)'
  <2>1. CASE Head(s).at = "read"
    <3>1. rest \in Beginnings  BY <1>7, <2>1 DEF Beginnings
    <3>2. \A w \in unsaved' : w.by # p  BY <1>1, <2>1 DEF Early
    <3> QED  BY <1>3, <3>1, <3>2 DEF Ordered
  <2>2. CASE Head(s).at # "read"
    <3>1. rest \notin Beginnings /\ \A b \in ToSet(rest) : b.at \notin Early
      <4> HIDE DEF rest
      <4> QED  BY <1>2, <1>8, <2>2, PastBeginnings
    <3> HIDE DEF rest
    <3> QED  BY <1>3, <3>1 DEF Ordered
  <2> QED  BY <2>1, <2>2
<1>11. MadeNew(p)'
  <2>1. ASSUME rest # <<>>, Head(rest).at = "write"
        PROVE  ask[p].do \notin {"addItem", "addLesson", "addLevel", "addQuestion"}
    <3>1. Head(rest) \in ToSet(rest)
      <4> HIDE DEF rest
      <4> QED  BY <1>2, <2>1, Elements
    <3>2. Head(s).at = "read"  BY <1>8, <2>1, <3>1 DEF Early
    <3>3. ask[p].do \in OfItem \cup OfLesson \cup OfLevel \cup OfQuestion
      BY <3>2, HeadStep DEF Does, Apt, IInv, TInv
    <3> QED  BY <3>3 DEF OfItem, OfLesson, OfLevel, OfQuestion
  <2> HIDE DEF rest
  <2> QED  BY <1>3, <2>1 DEF MadeNew, Does
<1> HIDE DEF rest
<1> QED  BY <1>3, <1>4, <1>5, <1>9, <1>10, <1>11 DEF Own

\* A request that goes on with what it had to do next.
LEMMA OwnGoesOn ==
    ASSUME Given, IInv, TInv, BInv, NEW p \in Requests, Acts(p), todo[p] # <<>>,
           NEW held, Continue(p, <<>>, held),
           Head(todo[p]).at = "read" => unsaved' \subseteq unsaved,
           \A b : Follows(Head(todo[p]), b) => HeldOn(ask[p], b.at, held, reach[p])
    PROVE  Own(p)'
<1>1. IsSeq(<<>>)  BY DEF IsSeq
<1>2. ToSet(<<>>) = {} /\ Once(<<>>) /\ Leads(<<>>)  BY Elements, OnceGoes, LeadsGo
<1> QED  BY <1>1, <1>2, OwnGoes

\* A request that stops.
LEMMA OwnStops ==
    ASSUME IInv, TInv, NEW p \in Requests, Acts(p), todo[p] # <<>>,
           NEW how \in {"refused", "failed"}, Stop(p, how)
    PROVE  Own(p)'
<1>1. todo'[p] = <<>> /\ status'[p] # "idle"
  BY Goings DEF Acts, OthersStay
<1>2. ToSet(<<>>) = {} /\ Once(<<>>) /\ Leads(<<>>)  BY Elements, OnceGoes, LeadsGo
<1>3. <<>> \notin Beginnings  BY DEF Beginnings
<1> QED  BY <1>1, <1>2, <1>3 DEF Own, Inside, Ordered, MadeNew, Does

\* Where no row changes but in what the branches do not depend on.
LEMMA SameRows ==
    ASSUME Branches, UNCHANGED <<tables, reach>>, NEW p \in Requests
    PROVE  /\ Moves(p) /\ Grows(p) /\ Appears(p) /\ Carries
           /\ \A q \in Requests : Closed(reach[q])'
<1>1. UNCHANGED <<grade, level, lesson, item, question, reach>>  BY DEF tables
<1>2. Moves(p) /\ Appears(p) /\ Carries  BY <1>1 DEF Moves, Appears, Carries
<1>3. Grows(p)  BY <1>1 DEF Grows, Branches
<1>4. \A q \in Requests : Closed(reach[q])'  BY <1>1 DEF Branches, Closed, There
<1> QED  BY <1>2, <1>3, <1>4

\* A request that reads or sends.
LEMMA ReadsAct ==
    ASSUME IInv, TInv, BInv, NEW p \in Requests, todo[p] # <<>>,
           UNCHANGED <<tables, ask, ghosts>>, Sends(p),
           \/ \E steps, held : Continue(p, steps, held)
           \/ Stop(p, "refused") \/ Stop(p, "failed")
    PROVE  Acts(p) /\ \A q \in Requests : Closed(reach[q])'
<1>1. reach' = reach /\ clean' = clean  BY DEF ghosts
<1>2. /\ Moves(p) /\ Grows(p) /\ Appears(p) /\ Carries /\ \A q \in Requests : Closed(reach[q])'
  BY <1>1, SameRows DEF BInv
<1>3. \A q \in Requests : clean'[q] => clean[q]  BY <1>1
<1>4. ~Settled(p) /\ status[p] = "running" /\ OthersStay(p) /\ status'[p] # "idle"
  BY <1>3, Goings
<1> QED  BY <1>2, <1>4 DEF Acts

\* A step that sends and lands no save.
LEMMA NothingSent == unsaved' = unsaved => \A p : Sends(p)
BY DEF Sends

(***************************************************************************)
(* The steps that read and send                                            *)
(***************************************************************************)

\* What the lists of steps are about.
LEMMA ListsInOrder ==
    /\ \A g : LET s == Regrade(g)
              IN  IsSeq(s) /\ s # <<>> /\ \A b \in ToSet(s) : b.at \in ForGrade /\ b.of = g
    /\ \A l : LET s == Resum(l)
              IN  /\ IsSeq(s) /\ s # <<>> /\ s[1] = At("sum", l)
                  /\ \A b \in ToSet(s) : b.at \in {"sum", "quiz", "saveLevel"} /\ b.of = l
    /\ \A l : LET s == Reload(l)
              IN  /\ IsSeq(s) /\ s # <<>> /\ s[1] = At("level", l)
                  /\ \A b \in ToSet(s) : b.at \in {"level", "sum", "quiz", "saveLevel"} /\ b.of = l
    /\ \A x : LET s == Recount(x)
              IN  IsSeq(s) /\ s # <<>> /\ s[1] = At("lesson", x) /\ ToSet(s) = {At("lesson", x)}
    /\ \A x : LET s == Respread(x)
              IN  /\ IsSeq(s) /\ s # <<>> /\ s[1] = At("count", <<x, "learning">>)
                  /\ DOMAIN s = 1 .. 7
                  /\ \A n \in 1 .. 7 : s[n].at \in {"count", "spread", "last"} /\ LessonOf(s[n]) = x
                  /\ s[7].at = "last"
<1>0. /\ \A x, y : At(x, y).at = x /\ At(x, y).of = y
      /\ \A x, k : LessonOf(At("count", <<x, k>>)) = x /\ LessonOf(At("spread", <<x, k>>)) = x
      /\ \A x : LessonOf(At("last", x)) = x
  BY DEF At, LessonOf
<1>1. ASSUME NEW g
      PROVE  LET s == Regrade(g)
             IN  IsSeq(s) /\ s # <<>> /\ \A b \in ToSet(s) : b.at \in ForGrade /\ b.of = g
  <2> DEFINE s == Regrade(g)
  <2>1. IsSeq(s)  BY PlainSteps DEF Plain
  <2>2. DOMAIN s = 1 .. 3 /\ s[1] = At("grade", g) /\ s[2] = At("sumGrade", g) /\ s[3] = At("saveGrade", g)
    BY DEF Regrade
  <2> HIDE DEF s
  <2>3. \A n \in 1 .. 3 : s[n].at \in ForGrade /\ s[n].of = g
    <3>1. \A n \in 1 .. 3 : n = 1 \/ n = 2 \/ n = 3  OBVIOUS
    <3> QED  BY <1>0, <2>2, <3>1 DEF ForGrade
  <2>4. 1 \in DOMAIN s  BY <2>2
  <2>5. s # <<>>  BY <2>4
  <2>6. \A b \in ToSet(s) : \E n \in 1 .. 3 : b = s[n]  BY <2>2 DEF ToSet
  <2>7. \A b \in ToSet(s) : b.at \in ForGrade /\ b.of = g  BY <2>3, <2>6
  <2> QED  BY <2>1, <2>5, <2>7 DEF s
<1>2. ASSUME NEW l
      PROVE  LET s == Resum(l)
             IN  /\ IsSeq(s) /\ s # <<>> /\ s[1] = At("sum", l)
                 /\ \A b \in ToSet(s) : b.at \in {"sum", "quiz", "saveLevel"} /\ b.of = l
  <2> DEFINE s == Resum(l)
  <2>1. IsSeq(s)  BY PlainSteps DEF Plain
  <2>2. DOMAIN s = 1 .. 3 /\ s[1] = At("sum", l) /\ s[2] = At("quiz", l) /\ s[3] = At("saveLevel", l)
    BY DEF Resum
  <2> HIDE DEF s
  <2>3. \A n \in 1 .. 3 : s[n].at \in {"sum", "quiz", "saveLevel"} /\ s[n].of = l
    <3>1. \A n \in 1 .. 3 : n = 1 \/ n = 2 \/ n = 3  OBVIOUS
    <3> QED  BY <1>0, <2>2, <3>1
  <2>4. 1 \in DOMAIN s  BY <2>2
  <2>5. s # <<>>  BY <2>4
  <2>6. \A b \in ToSet(s) : \E n \in 1 .. 3 : b = s[n]  BY <2>2 DEF ToSet
  <2>7. \A b \in ToSet(s) : b.at \in {"sum", "quiz", "saveLevel"} /\ b.of = l  BY <2>3, <2>6
  <2> QED  BY <2>1, <2>2, <2>5, <2>7 DEF s
<1>3. ASSUME NEW l
      PROVE  LET s == Reload(l)
             IN  /\ IsSeq(s) /\ s # <<>> /\ s[1] = At("level", l)
                 /\ \A b \in ToSet(s) : b.at \in {"level", "sum", "quiz", "saveLevel"} /\ b.of = l
  <2> DEFINE s == Reload(l)
  <2>1. IsSeq(s)  BY PlainSteps DEF Plain
  <2>2. /\ DOMAIN s = 1 .. 4 /\ s[1] = At("level", l) /\ s[2] = At("sum", l)
        /\ s[3] = At("quiz", l) /\ s[4] = At("saveLevel", l)
    BY ReloadIs
  <2> HIDE DEF s
  <2>3. \A n \in 1 .. 4 : s[n].at \in {"level", "sum", "quiz", "saveLevel"} /\ s[n].of = l
    <3>1. \A n \in 1 .. 4 : n = 1 \/ n = 2 \/ n = 3 \/ n = 4  OBVIOUS
    <3> QED  BY <1>0, <2>2, <3>1
  <2>4. 1 \in DOMAIN s  BY <2>2
  <2>5. s # <<>>  BY <2>4
  <2>6. \A b \in ToSet(s) : \E n \in 1 .. 4 : b = s[n]  BY <2>2 DEF ToSet
  <2>7. \A b \in ToSet(s) : b.at \in {"level", "sum", "quiz", "saveLevel"} /\ b.of = l  BY <2>3, <2>6
  <2> QED  BY <2>1, <2>2, <2>5, <2>7 DEF s
<1>4. ASSUME NEW x
      PROVE  LET s == Recount(x)
             IN  IsSeq(s) /\ s # <<>> /\ s[1] = At("lesson", x) /\ ToSet(s) = {At("lesson", x)}
  <2>1. IsSeq(Recount(x))  BY PlainSteps DEF Plain
  <2>2. DOMAIN Recount(x) = {1} /\ Recount(x)[1] = At("lesson", x)  BY DEF Recount
  <2> QED  BY <2>1, <2>2 DEF ToSet
<1>5. ASSUME NEW x
      PROVE  LET s == Respread(x)
             IN  /\ IsSeq(s) /\ s # <<>> /\ s[1] = At("count", <<x, "learning">>)
                 /\ DOMAIN s = 1 .. 7
                 /\ \A n \in 1 .. 7 : s[n].at \in {"count", "spread", "last"} /\ LessonOf(s[n]) = x
                 /\ s[7].at = "last"
  <2> DEFINE s == Respread(x)
  <2>1. /\ IsSeq(s) /\ DOMAIN s = 1 .. 7
        /\ s[1] = At("count", <<x, "learning">>) /\ s[2] = At("count", <<x, "practice">>)
        /\ s[3] = At("count", <<x, "quiz">>) /\ s[4] = At("spread", <<x, "learning">>)
        /\ s[5] = At("spread", <<x, "practice">>) /\ s[6] = At("spread", <<x, "quiz">>)
        /\ s[7] = At("last", x)
    BY RespreadIs
  <2> HIDE DEF s
  <2>3. \A n \in 1 .. 7 : s[n].at \in {"count", "spread", "last"} /\ LessonOf(s[n]) = x
    <3>1. \A n \in 1 .. 7 : n = 1 \/ n = 2 \/ n = 3 \/ n = 4 \/ n = 5 \/ n = 6 \/ n = 7  OBVIOUS
    <3> QED  BY <1>0, <2>1, <3>1
  <2>4. 1 \in DOMAIN s  BY <2>1
  <2>5. s # <<>>  BY <2>4
  <2>6. s[7].at = "last"  BY <1>0, <2>1
  <2> QED  BY <2>1, <2>3, <2>5, <2>6 DEF s
<1> QED  BY <1>1, <1>2, <1>3, <1>4, <1>5

\* A list that neither reads lessons again nor sets points is in order, and a
\* lesson's counts lead up to its last item.
LEMMA ListsAreShaped ==
    /\ \A g : Once(Regrade(g)) /\ Leads(Regrade(g))
    /\ \A l : Once(Resum(l)) /\ Leads(Resum(l)) /\ Once(Reload(l)) /\ Leads(Reload(l))
    /\ \A x : Once(Recount(x)) /\ Leads(Recount(x)) /\ Once(Respread(x)) /\ Leads(Respread(x))
<1>1. ASSUME NEW g PROVE Once(Regrade(g)) /\ Leads(Regrade(g))
  <2>1. \A b \in ToSet(Regrade(g)) : b.at \in ForGrade  BY ListsInOrder
  <2> QED  BY <2>1, OnceGoes, LeadsGo DEF ForGrade
<1>2. ASSUME NEW l PROVE Once(Resum(l)) /\ Leads(Resum(l)) /\ Once(Reload(l)) /\ Leads(Reload(l))
  <2>1. /\ \A b \in ToSet(Resum(l)) : b.at \in {"sum", "quiz", "saveLevel"}
        /\ \A b \in ToSet(Reload(l)) : b.at \in {"level", "sum", "quiz", "saveLevel"}
    BY ListsInOrder
  <2> QED  BY <2>1, OnceGoes, LeadsGo
<1>3. ASSUME NEW x PROVE Once(Recount(x)) /\ Leads(Recount(x)) /\ Once(Respread(x)) /\ Leads(Respread(x))
  <2>1. ToSet(Recount(x)) = {At("lesson", x)}  BY ListsInOrder
  <2>2. DOMAIN Recount(x) = {1}  BY DEF Recount
  <2>3. Once(Recount(x))  BY <2>2 DEF Once
  <2>4. Leads(Recount(x))  BY <2>1, LeadsGo DEF At
  <2> DEFINE s == Respread(x)
  <2>5. /\ DOMAIN s = 1 .. 7 /\ s[7].at = "last"
        /\ \A n \in 1 .. 7 : s[n].at \in {"count", "spread", "last"} /\ LessonOf(s[n]) = x
    BY ListsInOrder
  <2> HIDE DEF s
  <2>6. Once(s)  BY <2>5 DEF Once, Distinct
  <2>7. Leads(s)
    <3>1. ASSUME NEW n \in 1 .. 7, s[n].at \in {"count", "spread"} PROVE n + 1 \in 1 .. 7
      BY <2>5, <3>1
    <3> QED  BY <2>5, <3>1 DEF Leads
  <2> QED  BY <2>3, <2>4, <2>6, <2>7 DEF s
<1> QED  BY <1>1, <1>2, <1>3

\* Steps that count no lesson and no level again.
LEMMA Apart2 ==
    ASSUME NEW a, NEW b
    PROVE  /\ a.at \notin ForLesson \cup ForLevel => Distinct(a, b)
           /\ a.at \notin ForLesson /\ b.at # "worth" => Distinct(a, b)
           /\ b.at \notin {"lesson", "refresh", "worth"} => Distinct(a, b)
BY DEF Distinct

\* Two lists joined, the second of which reads no lesson again and sets no points.
LEMMA JoinedShape ==
    ASSUME NEW s, NEW t, IsSeq(s), IsSeq(t), Once(s), Once(t), Leads(s), Leads(t),
           \A b \in ToSet(t) : b.at \notin {"lesson", "refresh", "worth"}
    PROVE  /\ IsSeq(s \o t) /\ Once(s \o t) /\ Leads(s \o t)
           /\ ToSet(s \o t) = ToSet(s) \cup ToSet(t)
<1>1. \A a \in ToSet(s) : \A b \in ToSet(t) : Distinct(a, b)  BY Apart2
<1> QED  BY <1>1, Elements, OnceGoes, LeadsGo

\* After most steps nothing need be on the branch that is held.
LEMMA NothingHeld ==
    ASSUME NEW step, step.at \notin {"read", "level", "sum", "quiz"}
    PROVE  \A b, a, held, branch : Follows(step, b) => HeldOn(a, b.at, held, branch)
<1>1. ASSUME NEW b, Follows(step, b)
      PROVE  b.at \notin {"write", "sum", "quiz", "saveLevel"}
  BY <1>1, FollowsAt
<1> QED  BY <1>1 DEF HeldOn

\* What a request does next is on its branch, and what it holds for it.
LEMMA HeadOn ==
    ASSUME IInv, TInv, Branches, NEW p \in Requests, NEW step, Does(p, step)
    PROVE  /\ todo[p] # <<>> /\ Head(todo[p]).at = step
           /\ StepOn(Head(todo[p]), reach[p]) /\ Closed(reach[p])
           /\ HeldOn(ask[p], step, mem[p], reach[p]) /\ AskOn(ask[p], reach[p])
<1>1. todo[p] # <<>> /\ Head(todo[p]).at = step  BY DEF Does
<1>2. IsSeq(todo[p])  BY DEF IInv, Todos, AllFit
<1>3. Head(todo[p]) \in ToSet(todo[p])  BY <1>1, <1>2, Elements
<1> QED  BY <1>1, <1>3 DEF Branches, Inside

\* The row that is read is on the branch.
LEMMA ReadRowOn ==
    ASSUME Given, IInv, TInv, BInv, NEW p \in Requests, ReadRow(p)
    PROVE  Acts(p) /\ BInv'
<1> DEFINE a == ask[p]  row == Target(a)
<1>1. Does(p, "read") /\ UNCHANGED <<tables, ask, ghosts>> /\ unsaved' = unsaved  BY DEF ReadRow
<1>2. /\ todo[p] # <<>> /\ Head(todo[p]).at = "read" /\ Closed(reach[p]) /\ AskOn(a, reach[p])
      /\ a \in AskRow /\ a # None /\ mem[p] \in MemRow
  BY <1>1, HeadOn, HeadStep DEF BInv, IInv, TInv
<1>3. CASE row = None
  <2>1. Stop(p, "refused")  BY <1>3 DEF ReadRow
  <2>2. Acts(p) /\ \A q \in Requests : Closed(reach[q])'
    BY <1>1, <1>2, <2>1, ReadsAct, NothingSent
  <2>3. Own(p)'  BY <1>2, <2>1, <2>2, OwnStops
  <2> QED  BY <2>2, <2>3, StepOnBranch
<1>4. CASE row # None
  <2> DEFINE held == Hold(p, "row", row)
  <2>1. Continue(p, <<>>, held)  BY <1>4 DEF ReadRow
  <2>2. Acts(p) /\ \A q \in Requests : Closed(reach[q])'
    BY <1>1, <1>2, <2>1, ReadsAct, NothingSent
  <2>3. held.row = row  BY <1>2 DEF Hold, MemRow
  <2>4. HeldOn(a, "write", held, reach[p])
    <3>1. a.do \in OfItem => a.item \in Items /\ row = item[a.item]
      BY <1>2, AskedRows DEF Target, OfItem, Given
    <3>2. a.do \in OfLesson => a.lesson \in There(lesson) /\ row = lesson[a.lesson]
      BY <1>2, <1>4, AskedRows DEF Target, OfItem, OfLesson, Given, There
    <3>3. a.do \in OfLevel => a.level \in There(level) /\ row = level[a.level]
      BY <1>2, <1>4, AskedRows DEF Target, OfItem, OfLesson, OfLevel, Given, There
    <3>4. a.do \in OfQuestion => a.question \in Questions /\ row = question[a.question]
      BY <1>2, AskedRows DEF Target, OfItem, OfLesson, OfLevel, OfQuestion, Given
    <3>5. None \notin Items \cup Lessons \cup Levels \cup Questions
      BY CurriculumTreeAssumed DEF CurriculumTreeAssumption
    <3>6. a.do \in OfItem => row.lesson \in reach[p]
      BY <1>2, <1>4, <3>1, <3>5 DEF AskOn
    <3>7. a.do \in OfQuestion => row.level \in reach[p]
      BY <1>2, <1>4, <3>4, <3>5 DEF AskOn
    <3>8. There(lesson) \subseteq Lessons /\ There(level) \subseteq Levels  BY ThereIs DEF TInv
    <3>9. a.do \in OfLesson => row.level \in reach[p]
      BY <1>2, <3>2, <3>5, <3>8 DEF AskOn, Closed
    <3>10. a.do \in OfLevel => row.grade \in reach[p]
      BY <1>2, <3>3, <3>5, <3>8 DEF AskOn, Closed
    <3> HIDE DEF held, row
    <3> QED  BY <2>3, <3>6, <3>7, <3>9, <3>10 DEF HeldOn
  <2>5. ASSUME NEW b, Follows(Head(todo[p]), b) PROVE HeldOn(a, b.at, held, reach[p])
    <3>1. b.at \notin {"sum", "quiz", "saveLevel"}  BY <1>2, <2>5, FollowsAt
    <3> HIDE DEF held
    <3> QED  BY <2>4, <3>1 DEF HeldOn
  <2>6. Own(p)'
    <3> HIDE DEF held
    <3> QED  BY <1>1, <1>2, <2>1, <2>2, <2>5, OwnGoesOn
  <2> QED  BY <2>2, <2>6, StepOnBranch
<1> QED  BY <1>3, <1>4

\* A level that is read is under a grade on the branch; the sums are of it.
LEMMA LevelReadsOn ==
    ASSUME Given, IInv, TInv, BInv, NEW p \in Requests, ReadLevel(p) \/ SumLessons(p) \/ CountQuiz(p)
    PROVE  Acts(p) /\ BInv'
<1>1. PICK step, held :
        /\ step \in {"level", "sum", "quiz"} /\ Does(p, step) /\ Continue(p, <<>>, held)
        /\ \/ step = "level" /\ held = Hold(p, "level", level[Row(p)])
           \/ step # "level" /\ \E v : held = Hold(p, "sum", v)
  BY DEF ReadLevel, SumLessons, CountQuiz
<1>2. UNCHANGED <<tables, ask, ghosts>> /\ unsaved' = unsaved
  BY DEF ReadLevel, SumLessons, CountQuiz
<1>3. /\ todo[p] # <<>> /\ Head(todo[p]).at = step /\ Closed(reach[p])
      /\ StepOn(Head(todo[p]), reach[p]) /\ HeldOn(ask[p], step, mem[p], reach[p])
      /\ Apt(ask[p], Head(todo[p]), There(lesson), There(level)) /\ mem[p] \in MemRow
      /\ Head(todo[p]).of = Row(p)
  BY <1>1, HeadOn, HeadStep DEF BInv, IInv, TInv
<1>4. Acts(p) /\ \A q \in Requests : Closed(reach[q])'
  BY <1>1, <1>2, <1>3, ReadsAct, NothingSent
<1>5. held.level.grade \in reach[p]
  <2>1. CASE step = "level"
    <3>1. Row(p) \in There(level) \cap reach[p]
      BY <1>3, <2>1 DEF Apt, StepOn, LevelOf, ForLevel
    <3>2. held.level = level[Row(p)]  BY <1>1, <1>3, <2>1 DEF Hold, MemRow
    <3> QED  BY <1>3, <3>1, <3>2 DEF Closed
  <2>2. CASE step # "level"
    <3>1. held.level = mem[p].level  BY <1>1, <1>3, <2>2 DEF Hold, MemRow
    <3> QED  BY <1>1, <1>3, <2>2, <3>1 DEF HeldOn
  <2> QED  BY <2>1, <2>2
<1>6. ASSUME NEW b, Follows(Head(todo[p]), b) PROVE HeldOn(ask[p], b.at, held, reach[p])
  <2>1. b.at # "write"  BY <1>1, <1>3, <1>6, FollowsAt
  <2> QED  BY <1>5, <2>1 DEF HeldOn
<1>7. Own(p)'  BY <1>1, <1>2, <1>3, <1>4, <1>6, OwnGoesOn
<1> QED  BY <1>4, <1>7, StepOnBranch

\* Steps after which nothing is held, and of a reorder.
LEMMA OtherReadsOn ==
    ASSUME Given, IInv, TInv, BInv, NEW p \in Requests,
           ReadGrade(p) \/ SumLevels(p) \/ CheckChild(p) \/ Place(p) \/ Fail(p) \/ Deadlocked(p)
    PROVE  Acts(p) /\ BInv'
<1>1. UNCHANGED <<tables, ask, ghosts>> /\ unsaved' = unsaved
  BY DEF ReadGrade, SumLevels, CheckChild, Place, Fail, Deadlocked
<1>2. /\ todo[p] # <<>>
      /\ \/ \E held : Continue(p, <<>>, held)
                       /\ \E step \in {"grade", "sumGrade", "check", "place"} : Does(p, step)
         \/ Stop(p, "refused") \/ Stop(p, "failed")
  BY DEF ReadGrade, SumLevels, CheckChild, Place, Fail, Deadlocked, Waits, Does
<1>3. Acts(p) /\ \A q \in Requests : Closed(reach[q])'
  BY <1>1, <1>2, ReadsAct, NothingSent
<1>4. CASE \E held : Continue(p, <<>>, held)
                      /\ \E step \in {"grade", "sumGrade", "check", "place"} : Does(p, step)
  <2>1. PICK held : Continue(p, <<>>, held)  BY <1>4
  <2>2. Head(todo[p]).at \in {"grade", "sumGrade", "check", "place"}  BY <1>4 DEF Does
  <2>3. \A b : Follows(Head(todo[p]), b) => HeldOn(ask[p], b.at, held, reach[p])
    BY <2>2, NothingHeld
  <2>4. Own(p)'  BY <1>1, <1>2, <1>3, <2>1, <2>3, OwnGoesOn
  <2> QED  BY <1>3, <2>4, StepOnBranch
<1>5. CASE Stop(p, "refused") \/ Stop(p, "failed")
  <2>1. Own(p)'  BY <1>2, <1>3, <1>5, OwnStops
  <2> QED  BY <1>3, <2>1, StepOnBranch
<1> QED  BY <1>2, <1>4, <1>5

\* The places of a reorder.
LEMMA ListChildrenOn ==
    ASSUME Given, IInv, TInv, BInv, NEW p \in Requests, ListChildren(p)
    PROVE  Acts(p) /\ BInv'
<1> DEFINE a == ask[p]
           places == [n \in DOMAIN a.list |-> At("place", <<a.list[n], n>>)]
           last == <<At("commit", None)>>
<1>1. Does(p, "list") /\ UNCHANGED <<tables, ask, ghosts>> /\ unsaved' = unsaved
  BY DEF ListChildren
<1>2. todo[p] # <<>> /\ Head(todo[p]).at = "list" /\ a \in AskRow
  BY <1>1, HeadOn, HeadStep DEF BInv, IInv, TInv
<1>3. Continue(p, places \o last, mem[p]) \/ Stop(p, "refused")  BY DEF ListChildren
<1>4. IsSeq(places) /\ IsSeq(last) /\ last # <<>>
  <2>1. a.list \in Seq(Items)  BY <1>2 DEF AskRow
  <2>2. Len(a.list) \in Nat /\ DOMAIN a.list = 1 .. Len(a.list)  BY <2>1
  <2>3. IsSeq(places)  BY <2>2, Literal
  <2>4. IsSeq(last)  BY DEF IsSeq
  <2> QED  BY <2>3, <2>4
<1>5. \A b \in ToSet(places) \cup ToSet(last) : b.at \in {"place", "commit"}
  <2>1. \A b \in ToSet(places) : b.at = "place"
    <3>1. \A n \in DOMAIN places : places[n].at = "place"  BY DEF At
    <3> HIDE DEF places
    <3> QED  BY <3>1 DEF ToSet
  <2>2. \A b \in ToSet(last) : b.at = "commit"  BY DEF ToSet, At
  <2> QED  BY <2>1, <2>2
<1> HIDE DEF places, last
<1> DEFINE steps == places \o last
<1>6. IsSeq(steps) /\ ToSet(steps) = ToSet(places) \cup ToSet(last)  BY <1>4, Elements
<1> HIDE DEF steps
<1>7. Once(steps) /\ Leads(steps)  BY <1>5, <1>6, OnceGoes, LeadsGo
<1>8. \A b \in ToSet(steps) : /\ StepOn(b, reach[p]) /\ b.at \notin Early
                              /\ \A c : Distinct(b, c)
  BY <1>5, <1>6 DEF StepOn, ForLesson, ForLevel, ForGrade, Early, Distinct
<1>9. Acts(p) /\ \A q \in Requests : Closed(reach[q])'
  BY <1>1, <1>2, <1>3, ReadsAct, NothingSent
<1>10. CASE Stop(p, "refused")
  <2>1. Own(p)'  BY <1>2, <1>9, <1>10, OwnStops
  <2> QED  BY <1>9, <2>1, StepOnBranch
<1>11. CASE Continue(p, steps, mem[p])
  <2>1. \A b : Follows(Head(todo[p]), b) => HeldOn(a, b.at, mem[p], reach[p])
    BY <1>2, NothingHeld
  <2>2. steps # <<>> => HeldOn(a, steps[1].at, mem[p], reach[p])
    <3>1. steps # <<>> => steps[1] \in ToSet(steps)  BY <1>6, Rest DEF ToSet
    <3> QED  BY <1>5, <1>6, <3>1 DEF HeldOn
  <2>3. Own(p)'  BY <1>2, <1>6, <1>7, <1>8, <1>9, <1>11, <2>1, <2>2, OwnGoes
  <2> QED  BY <1>9, <2>3, StepOnBranch
<1> QED  BY <1>3, <1>10, <1>11 DEF steps

\* The rows of a bulk request, each of them once.
LEMMA ScanOn ==
    ASSUME Given, IInv, TInv, BInv, NEW p \in Requests, Scan(p)
    PROVE  Acts(p) /\ BInv'
<1>1. Does(p, "scan") /\ UNCHANGED <<tables, ask, ghosts>> /\ unsaved' = unsaved
      /\ ask[p].do \in Bulk
  BY DEF Scan, Bulk
<1>2. todo[p] # <<>> /\ Head(todo[p]).at = "scan"  BY <1>1 DEF Does
<1>3. reach[p] = Rows
  <2>1. status[p] = "running"  BY <1>2 DEF TInv, Going, Running
  <2> QED  BY <1>1, <2>1 DEF BInv, Branches, Wide
<1>4. ASSUME NEW S, IsFiniteSet(S), NEW rows \in SetToSeqs(S)
      PROVE  /\ Cardinality(S) \in Nat /\ DOMAIN rows = 1 .. Cardinality(S)
             /\ \A n \in DOMAIN rows : rows[n] \in S
             /\ \A m, n \in DOMAIN rows : rows[m] = rows[n] => m = n
  BY <1>4, FS_CardinalityType DEF SetToSeqs, IsInjective
<1>5. /\ Live(lesson) \subseteq Lessons /\ Live(level) \subseteq There(level)
      /\ IsFiniteSet(Live(lesson)) /\ IsFiniteSet(Live(level))
  <2>1. Live(lesson) \subseteq Lessons /\ Live(level) \subseteq Levels  BY DEF Live, Given
  <2>2. IsFiniteSet(Lessons) /\ IsFiniteSet(Levels)
    BY CurriculumTreeAssumed DEF CurriculumTreeAssumption
  <2> QED  BY <2>1, <2>2, FS_Subset DEF Live, There
<1>6. \E steps : /\ Continue(p, steps, mem[p]) /\ IsSeq(steps) /\ Once(steps)
                 /\ \A n \in DOMAIN steps :
                       steps[n].at \in {"refresh", "worth"} /\ StepOn(steps[n], Rows)
  <2>1. CASE ask[p].do = "allLessons"
    <3>1. PICK rows \in SetToSeqs(Live(lesson)) :
            Continue(p, [n \in DOMAIN rows |-> At("refresh", rows[n])], mem[p])
      BY <2>1 DEF Scan
    <3> DEFINE steps == [n \in DOMAIN rows |-> At("refresh", rows[n])]
    <3>2. /\ Cardinality(Live(lesson)) \in Nat /\ DOMAIN rows = 1 .. Cardinality(Live(lesson))
          /\ \A n \in DOMAIN rows : rows[n] \in Live(lesson)
          /\ \A m, n \in DOMAIN rows : rows[m] = rows[n] => m = n
      BY <1>4, <1>5
    <3>3. IsSeq(steps)  BY <3>2, Literal
    <3>4. DOMAIN steps = DOMAIN rows /\ \A n \in DOMAIN rows : steps[n].at = "refresh" /\ steps[n].of = rows[n]
      BY DEF At
    <3> HIDE DEF steps
    <3>5. Once(steps)
      <4>1. ASSUME NEW m \in DOMAIN rows, NEW n \in DOMAIN rows, m < n
            PROVE  Distinct(steps[m], steps[n])
        <5>1. rows[m] # rows[n]  BY <3>2, <4>1
        <5> QED  BY <3>4, <5>1 DEF Distinct, LessonOf
      <4> QED  BY <3>4, <4>1 DEF Once
    <3>6. \A n \in DOMAIN rows : StepOn(steps[n], Rows)
      BY <1>5, <3>2, <3>4 DEF StepOn, LessonOf, ForLesson, ForLevel, ForGrade, Rows
    <3> QED  BY <3>1, <3>3, <3>4, <3>5, <3>6 DEF steps
  <2>2. CASE ask[p].do = "allLevels"
    <3>1. PICK rows \in SetToSeqs(Live(level)) :
            Continue(p, [n \in DOMAIN rows |-> At("worth", <<rows[n], level[rows[n]]>>)], mem[p])
      BY <2>2 DEF Scan
    <3> DEFINE steps == [n \in DOMAIN rows |-> At("worth", <<rows[n], level[rows[n]]>>)]
    <3>2. /\ Cardinality(Live(level)) \in Nat /\ DOMAIN rows = 1 .. Cardinality(Live(level))
          /\ \A n \in DOMAIN rows : rows[n] \in Live(level)
          /\ \A m, n \in DOMAIN rows : rows[m] = rows[n] => m = n
      BY <1>4, <1>5
    <3>3. IsSeq(steps)  BY <3>2, Literal
    <3>4. DOMAIN steps = DOMAIN rows
          /\ \A n \in DOMAIN rows : /\ steps[n].at = "worth" /\ steps[n].of[1] = rows[n]
                                    /\ steps[n].of[2] = level[rows[n]]
      BY DEF At
    <3> HIDE DEF steps
    <3>5. Once(steps)
      <4>1. ASSUME NEW m \in DOMAIN rows, NEW n \in DOMAIN rows, m < n
            PROVE  Distinct(steps[m], steps[n])
        <5>1. rows[m] # rows[n]  BY <3>2, <4>1
        <5> QED  BY <3>4, <5>1 DEF Distinct, LevelOf, ForLesson
      <4> QED  BY <3>4, <4>1 DEF Once
    <3>6. \A l \in There(level) : l \in Levels /\ level[l].grade \in Grades
      BY ThereIs DEF TInv, LevelRow
    <3>7. \A n \in DOMAIN rows : StepOn(steps[n], Rows)
      BY <1>5, <3>2, <3>4, <3>6 DEF StepOn, LevelOf, ForLesson, ForLevel, ForGrade, Rows
    <3> QED  BY <3>1, <3>3, <3>4, <3>5, <3>7 DEF steps
  <2> QED  BY <2>1, <2>2 DEF Scan
<1>7. PICK steps : /\ Continue(p, steps, mem[p]) /\ IsSeq(steps) /\ Once(steps)
                   /\ \A n \in DOMAIN steps :
                         steps[n].at \in {"refresh", "worth"} /\ StepOn(steps[n], Rows)
  BY <1>6
<1>8. \A b \in ToSet(steps) : b.at \in {"refresh", "worth"} /\ StepOn(b, Rows)
  BY <1>7 DEF ToSet
<1>9. Leads(steps)  BY <1>8, LeadsGo
<1>10. ToSet(Tail(todo[p])) = {}  BY <1>2, HeadShape, Elements DEF BInv
<1>11. Acts(p) /\ \A q \in Requests : Closed(reach[q])'
  BY <1>1, <1>2, <1>7, ReadsAct, NothingSent
<1>12. \A b : Follows(Head(todo[p]), b) => HeldOn(ask[p], b.at, mem[p], reach[p])
  BY <1>2, NothingHeld
<1>13. steps # <<>> => HeldOn(ask[p], steps[1].at, mem[p], reach[p])
  <2>1. steps # <<>> => 1 \in DOMAIN steps  BY <1>7, Rest
  <2> QED  BY <1>7, <2>1 DEF HeldOn
<1>14. \A b \in ToSet(steps) : b.at \notin Early  BY <1>8 DEF Early
<1>15. Own(p)'
  BY <1>2, <1>3, <1>7, <1>8, <1>9, <1>10, <1>11, <1>12, <1>13, <1>14, OwnGoes
<1> QED  BY <1>11, <1>15, StepOnBranch

\* The lesson's level is read after it is spread over.
LEMMA ReadLessonOn ==
    ASSUME Given, IInv, TInv, BInv, NEW p \in Requests, ReadLesson(p)
    PROVE  Acts(p) /\ BInv'
<1> DEFINE s == Row(p)  l == lesson[s].level  steps == Respread(s) \o Reload(l)
           held == Hold(p, "lesson", lesson[s])
<1>1. Does(p, "lesson") /\ UNCHANGED <<tables, ask, ghosts>> /\ unsaved' = unsaved
      /\ (Stop(p, "refused") \/ Continue(p, steps, held))
  BY DEF ReadLesson
<1>2. /\ todo[p] # <<>> /\ Head(todo[p]).at = "lesson" /\ Head(todo[p]).of = s
      /\ s \in There(lesson) /\ s \in reach[p] /\ Closed(reach[p])
  <2>1. /\ todo[p] # <<>> /\ Head(todo[p]).at = "lesson" /\ Head(todo[p]).of = s
        /\ Apt(ask[p], Head(todo[p]), There(lesson), There(level))
    BY <1>1, HeadStep DEF IInv, TInv
  <2>2. StepOn(Head(todo[p]), reach[p]) /\ Closed(reach[p])  BY <1>1, HeadOn DEF BInv
  <2> QED  BY <2>1, <2>2 DEF Apt, StepOn, LessonOf, ForLesson
<1>3. l \in reach[p]  BY <1>2 DEF Closed
<1> HIDE DEF held, l
<1>4. /\ IsSeq(Respread(s)) /\ IsSeq(Reload(l)) /\ Respread(s) # <<>>
      /\ Respread(s)[1].at = "count"
      /\ \A b \in ToSet(Respread(s)) : b.at \in {"count", "spread", "last"} /\ LessonOf(b) = s
      /\ \A b \in ToSet(Reload(l)) : b.at \in {"level", "sum", "quiz", "saveLevel"} /\ b.of = l
  <2>1. /\ IsSeq(Respread(s)) /\ Respread(s) # <<>> /\ Respread(s)[1] = At("count", <<s, "learning">>)
        /\ DOMAIN Respread(s) = 1 .. 7
        /\ \A n \in 1 .. 7 : /\ Respread(s)[n].at \in {"count", "spread", "last"}
                              /\ LessonOf(Respread(s)[n]) = s
    BY ListsInOrder
  <2>2. /\ IsSeq(Reload(l))
        /\ \A b \in ToSet(Reload(l)) : b.at \in {"level", "sum", "quiz", "saveLevel"} /\ b.of = l
    BY ListsInOrder
  <2>3. \A b \in ToSet(Respread(s)) : \E n \in 1 .. 7 : b = Respread(s)[n]  BY <2>1 DEF ToSet
  <2>4. At("count", <<s, "learning">>).at = "count"  BY DEF At
  <2> QED  BY <2>1, <2>2, <2>3, <2>4
<1>5. /\ Once(Respread(s)) /\ Once(Reload(l)) /\ Leads(Respread(s)) /\ Leads(Reload(l))
  BY ListsAreShaped
<1>6. /\ IsSeq(steps) /\ Once(steps) /\ Leads(steps)
      /\ ToSet(steps) = ToSet(Respread(s)) \cup ToSet(Reload(l))
  BY <1>4, <1>5, JoinedShape
<1>7. steps[1].at = "count"  BY <1>4, HeadOfJoin
<1> HIDE DEF steps
<1>8. \A b \in ToSet(Tail(todo[p])) : Distinct(Head(todo[p]), b)
  BY <1>2, HeadShape DEF BInv
<1>9. ASSUME NEW step \in ToSet(steps)
      PROVE  /\ StepOn(step, reach[p]) /\ step.at \notin Early
             /\ \A b \in ToSet(Tail(todo[p])) : Distinct(step, b)
  <2>1. CASE step \in ToSet(Respread(s))
    <3>1. step.at \in {"count", "spread", "last"} /\ LessonOf(step) = s  BY <1>4, <2>1
    <3>2. LessonOf(Head(todo[p])) = s  BY <1>2 DEF LessonOf
    <3>3. StepOn(step, reach[p])  BY <1>2, <3>1 DEF StepOn, ForLevel, ForGrade
    <3>4. \A b \in ToSet(Tail(todo[p])) : Distinct(step, b)
      BY <1>2, <1>8, <3>1, <3>2 DEF Distinct, ForLesson
    <3> QED  BY <3>1, <3>3, <3>4 DEF Early
  <2>2. CASE step \in ToSet(Reload(l))
    <3>1. step.at \in {"level", "sum", "quiz", "saveLevel"} /\ step.of = l  BY <1>4, <2>2
    <3>2. StepOn(step, reach[p])
      BY <1>3, <3>1 DEF StepOn, LevelOf, ForLesson, ForGrade
    <3>3. \A b \in ToSet(Tail(todo[p])) : Distinct(step, b)
      BY <1>2, <1>8, <3>1 DEF Distinct, ForLesson
    <3> QED  BY <3>1, <3>2, <3>3 DEF Early
  <2> QED  BY <1>6, <2>1, <2>2
<1>10. Acts(p) /\ \A q \in Requests : Closed(reach[q])'
  BY <1>1, <1>2, ReadsAct, NothingSent
<1>11. CASE Stop(p, "refused")
  <2>1. Own(p)'  BY <1>2, <1>10, <1>11, OwnStops
  <2> QED  BY <1>10, <2>1, StepOnBranch
<1>12. CASE Continue(p, steps, held)
  <2>1. \A b : Follows(Head(todo[p]), b) => HeldOn(ask[p], b.at, held, reach[p])
    BY <1>2, NothingHeld
  <2>2. HeldOn(ask[p], steps[1].at, held, reach[p])  BY <1>7 DEF HeldOn
  <2>3. Own(p)'  BY <1>2, <1>6, <1>9, <1>10, <1>12, <2>1, <2>2, OwnGoes
  <2> QED  BY <1>10, <2>3, StepOnBranch
<1> QED  BY <1>1, <1>11, <1>12

\* The saves sent are of a lesson and an item on the branch.
LEMMA SendsOn ==
    ASSUME Given, IInv, TInv, BInv, NEW p \in Requests, CountKind(p) \/ SpreadRest(p)
    PROVE  Acts(p) /\ BInv'
<1>1. PICK step, held :
        /\ step \in {"count", "last"} /\ Does(p, step) /\ Continue(p, <<>>, held) /\ UNCHANGED <<tables, ask, ghosts>>
  BY DEF CountKind, SpreadRest
<1>2. /\ todo[p] # <<>> /\ Head(todo[p]).at = step /\ Head(todo[p]).of = Row(p)
      /\ LessonOf(Head(todo[p])) \in reach[p]
  <2>1. /\ todo[p] # <<>> /\ Head(todo[p]).at = step /\ Head(todo[p]).of = Row(p)
    BY <1>1, HeadStep DEF IInv, TInv
  <2>2. StepOn(Head(todo[p]), reach[p])  BY <1>1, HeadOn DEF BInv
  <2> QED  BY <1>1, <2>1, <2>2 DEF StepOn, ForLesson
<1>3. Sends(p)
  <2>1. CASE CountKind(p)
    <3>1. Does(p, "count")  BY <2>1 DEF CountKind
    <3>2. Row(p)[1] \in reach[p]  BY <1>2, <3>1 DEF Does, LessonOf
    <3>3. /\ unsaved \subseteq unsaved'
          /\ \A w \in unsaved' \ unsaved : w.by = p /\ w.at = "lesson" /\ w.of = Row(p)[1]
      BY <2>1 DEF CountKind, ShareSaves
    <3> QED  BY <3>2, <3>3 DEF Sends
  <2>2. CASE SpreadRest(p)
    <3>1. Does(p, "last")  BY <2>2 DEF SpreadRest
    <3>2. Row(p) \in reach[p]  BY <1>2, <3>1 DEF Does, LessonOf
    <3>3. /\ unsaved \subseteq unsaved'
          /\ \A w \in unsaved' \ unsaved :
                /\ w.by = p
                /\ \/ w.at = "lesson" /\ w.of = Row(p)
                   \/ w.at = "item" /\ w.of \in ItemsOf(Row(p))
      <4> DEFINE k == LastKind(p)  left == Left(mem[p])
                 owed == IF left = 0 \/ ItemCount(mem[p]) = 0 THEN {}
                         ELSE LastOf(ItemsOfKind(Row(p), k))
                 share == Points(mem[p]) * mem[p].count[k] + left
      <4>1. owed \subseteq ItemsOf(Row(p))  BY DEF LastOf, ItemsOfKind
      <4>2. \/ unsaved' = unsaved
            \/ \E i \in owed :
                 unsaved' = unsaved \cup
                     {[by |-> p, at |-> "item", of |-> i, set |-> item[i].points + left],
                      [by |-> p, at |-> "lesson", of |-> Row(p), set |-> [c \in {k} |-> share]]}
        BY <2>2 DEF SpreadRest
      <4> HIDE DEF owed, k, left, share
      <4>3. CASE unsaved' = unsaved  BY <4>3
      <4>4. ASSUME NEW i \in owed,
                   unsaved' = unsaved \cup
                     {[by |-> p, at |-> "item", of |-> i, set |-> item[i].points + left],
                      [by |-> p, at |-> "lesson", of |-> Row(p), set |-> [c \in {k} |-> share]]}
            PROVE  /\ unsaved \subseteq unsaved'
                   /\ \A w \in unsaved' \ unsaved :
                         /\ w.by = p
                         /\ \/ w.at = "lesson" /\ w.of = Row(p)
                            \/ w.at = "item" /\ w.of \in ItemsOf(Row(p))
        <5> DEFINE u == [by |-> p, at |-> "item", of |-> i, set |-> item[i].points + left]
                   v == [by |-> p, at |-> "lesson", of |-> Row(p), set |-> [c \in {k} |-> share]]
        <5>1. u.by = p /\ u.at = "item" /\ u.of = i  OBVIOUS
        <5>2. v.by = p /\ v.at = "lesson" /\ v.of = Row(p)  OBVIOUS
        <5>3. unsaved' = unsaved \cup {u, v}  BY <4>4
        <5> HIDE DEF u, v
        <5> QED  BY <4>1, <5>1, <5>2, <5>3
      <4> QED  BY <4>2, <4>3, <4>4
    <3>4. item' = item  BY <1>1 DEF tables
    <3> QED  BY <3>2, <3>3, <3>4 DEF Sends, ItemsOf
  <2> QED  BY <2>1, <2>2
<1>4. Acts(p) /\ \A q \in Requests : Closed(reach[q])'
  BY <1>1, <1>2, <1>3, ReadsAct
<1>5. \A b : Follows(Head(todo[p]), b) => HeldOn(ask[p], b.at, held, reach[p])
  BY <1>1, <1>2, NothingHeld
<1>6. Own(p)'  BY <1>1, <1>2, <1>4, <1>5, OwnGoesOn
<1> QED  BY <1>4, <1>6, StepOnBranch

(***************************************************************************)
(* The steps that write                                                    *)
(***************************************************************************)

\* Rows written that hang from what they hung from.
Tuned(p) ==
    /\ reach' = reach
    /\ \A s \in Lessons : \/ lesson'[s] = lesson[s]
                          \/ /\ s \in reach[p] /\ lesson[s] # None /\ lesson'[s] # None
                             /\ lesson'[s].level = lesson[s].level
    /\ \A l \in Levels : \/ level'[l] = level[l]
                         \/ /\ l \in reach[p] /\ level[l] # None /\ level'[l] # None
                            /\ level'[l].grade = level[l].grade
    /\ \A g \in Grades : grade'[g] = grade[g] \/ g \in reach[p]
    /\ \A i \in Items : \/ item'[i] = item[i]
                        \/ /\ item[i] # None => item[i].lesson \in reach[p]
                           /\ item'[i] # None =>
                                 IF item[i] # None THEN item'[i].lesson = item[i].lesson
                                 ELSE Adding(p, "addItem", "item", i) /\ item'[i].lesson \in reach[p]
    /\ \A x \in Questions : \/ question'[x] = question[x]
                            \/ /\ question[x] # None => question[x].level \in reach[p]
                               /\ question'[x] # None =>
                                     IF question[x] # None THEN question'[x].level = question[x].level
                                     ELSE /\ Adding(p, "addQuestion", "question", x)
                                          /\ question'[x].level \in reach[p]

\* Where only points change, rows hang where they hung.
LEMMA TunedRows ==
    ASSUME TInv, TInv', BInv, NEW p \in Requests, Tuned(p)
    PROVE  /\ Moves(p) /\ Grows(p) /\ Appears(p) /\ Carries
           /\ \A q \in Requests : Closed(reach[q])'
<1>1. reach' = reach /\ DOMAIN reach = Requests /\ \A q \in Requests : Closed(reach[q])
  BY DEF Tuned, BInv, Branches
<1>2. Moves(p)  BY DEF Moves, Tuned
<1>3. Grows(p)  BY <1>1 DEF Grows
<1>4. Appears(p)  BY DEF Appears, Tuned
<1>5. Carries  BY <1>1 DEF Carries, Tuned
<1>6. ASSUME NEW q \in Requests PROVE Closed(reach[q])'
  <2>1. There(lesson)' \subseteq Lessons /\ There(level)' \subseteq Levels  BY ThereIs DEF TInv, Tabled, There
  <2>2. \A s \in There(lesson)' : s \in There(lesson) /\ lesson'[s].level = lesson[s].level
    BY <2>1 DEF Tuned, There, TInv, Tabled
  <2>3. \A l \in There(level)' : l \in There(level) /\ level'[l].grade = level[l].grade
    BY <2>1 DEF Tuned, There, TInv, Tabled
  <2> QED  BY <1>1, <2>2, <2>3 DEF Closed
<1> QED  BY <1>2, <1>3, <1>4, <1>5, <1>6

\* So a request that changes points on its branch is on it.
LEMMA TunedActs ==
    ASSUME IInv, TInv, TInv', BInv, NEW p \in Requests, todo[p] # <<>>, Tuned(p), Sends(p),
           UNCHANGED <<ask, clean>>,
           \/ \E steps, held : Continue(p, steps, held)
           \/ Stop(p, "refused") \/ Stop(p, "failed")
    PROVE  Acts(p) /\ \A q \in Requests : Closed(reach[q])'
<1>1. ~Settled(p) /\ status[p] = "running" /\ OthersStay(p) /\ status'[p] # "idle"
  BY Goings
<1> QED  BY <1>1, TunedRows DEF Acts

\* A lesson that is refreshed is read again next.
LEMMA RefreshOn ==
    ASSUME Given, IInv, TInv, TInv', BInv, NEW p \in Requests, Refresh(p)
    PROVE  Acts(p) /\ BInv'
<1> DEFINE s == Row(p)
<1>1. /\ Does(p, "refresh") /\ UNCHANGED <<grade, level, item, question, ask, unsaved, reach, clean>>
      /\ \/ lesson' = lesson /\ Continue(p, <<>>, mem[p])
         \/ lesson' = [lesson EXCEPT ![s].total = Total] /\ Continue(p, Recount(s), mem[p])
  BY DEF Refresh, ghosts
<1>2. /\ todo[p] # <<>> /\ Head(todo[p]).at = "refresh" /\ Head(todo[p]).of = s
      /\ s \in There(lesson) /\ s \in reach[p]
  <2>1. /\ todo[p] # <<>> /\ Head(todo[p]).at = "refresh" /\ Head(todo[p]).of = s
        /\ Apt(ask[p], Head(todo[p]), There(lesson), There(level))
    BY <1>1, HeadStep DEF IInv, TInv
  <2>2. StepOn(Head(todo[p]), reach[p])  BY <1>1, HeadOn DEF BInv
  <2> QED  BY <2>1, <2>2 DEF Apt, StepOn, LessonOf, ForLesson
<1>3. Tuned(p)
  <2>1. lesson[s] \in LessonRow /\ s \in Lessons  BY <1>2, ThereIs DEF TInv
  <2>2. DOMAIN lesson = Lessons  BY DEF TInv, Tabled
  <2>3. None \notin LessonRow  BY CurriculumTreeAssumed DEF CurriculumTreeAssumption
  <2>4. \A t \in Lessons : \/ lesson'[t] = lesson[t]
                           \/ t = s /\ lesson'[t] = [lesson[s] EXCEPT !.total = Total]
    BY <1>1, <2>2
  <2>5. [lesson[s] EXCEPT !.total = Total].level = lesson[s].level  BY <2>1 DEF LessonRow
  <2>6. \A t \in Lessons : \/ lesson'[t] = lesson[t]
                           \/ /\ t \in reach[p] /\ lesson[t] # None /\ lesson'[t] # None
                              /\ lesson'[t].level = lesson[t].level
    <3>1. [lesson[s] EXCEPT !.total = Total] # None
      <4>1. Total \in Nat  BY CurriculumTreeAssumed DEF CurriculumTreeAssumption
      <4>2. [lesson[s] EXCEPT !.total = Total] \in LessonRow  BY <2>1, <4>1 DEF LessonRow
      <4> QED  BY <2>3, <4>2
    <3> QED  BY <1>2, <2>1, <2>3, <2>4, <2>5, <3>1
  <2> QED  BY <1>1, <2>6 DEF Tuned
<1>4. Acts(p) /\ \A q \in Requests : Closed(reach[q])'
  BY <1>1, <1>2, <1>3, TunedActs, NothingSent
<1>5. \A held : \A b : Follows(Head(todo[p]), b) => HeldOn(ask[p], b.at, held, reach[p])
  BY <1>2, NothingHeld
<1>6. CASE Continue(p, <<>>, mem[p])
  <2>1. Own(p)'  BY <1>2, <1>4, <1>5, <1>6, OwnGoesOn
  <2> QED  BY <1>4, <2>1, StepOnBranch
<1>7. CASE Continue(p, Recount(s), mem[p])
  <2> DEFINE steps == Recount(s)
  <2>1. /\ IsSeq(steps) /\ steps # <<>> /\ steps[1] = At("lesson", s)
        /\ ToSet(steps) = {At("lesson", s)} /\ Once(steps) /\ Leads(steps)
    BY ListsInOrder, ListsAreShaped
  <2>2. At("lesson", s).at = "lesson" /\ At("lesson", s).of = s  BY DEF At
  <2> HIDE DEF steps
  <2>3. HeldOn(ask[p], steps[1].at, mem[p], reach[p])  BY <2>1, <2>2 DEF HeldOn
  <2>4. \A b \in ToSet(Tail(todo[p])) : Distinct(Head(todo[p]), b)
    BY <1>2, HeadShape DEF BInv
  <2>5. \A b \in ToSet(Tail(todo[p])) : Distinct(At("lesson", s), b)
    BY <1>2, <2>2, <2>4 DEF Distinct, LessonOf, ForLesson
  <2>6. StepOn(At("lesson", s), reach[p])
    BY <1>2, <2>2 DEF StepOn, LessonOf, ForLevel, ForGrade
  <2>7. At("lesson", s).at \notin Early  BY <2>2 DEF Early
  <2>8. Own(p)'  BY <1>2, <1>4, <1>7, <2>1, <2>3, <2>5, <2>6, <2>7, OwnGoes DEF steps
  <2> QED  BY <1>4, <2>8, StepOnBranch
<1> QED  BY <1>1, <1>6, <1>7

\* Of a level that is there, some field is written, not its grade.
LEMMA OneLevelWritten ==
    ASSUME TInv, NEW p, NEW l \in There(level), l \in reach[p],
           UNCHANGED <<grade, lesson, item, question, reach>>,
           NEW row \in LevelRow, row.grade = level[l].grade,
           level' = level \/ level' = [level EXCEPT ![l] = row]
    PROVE  Tuned(p)
<1>1. DOMAIN level = Levels /\ l \in Levels /\ level[l] # None
  BY ThereIs DEF TInv, Tabled, There
<1>2. None \notin LevelRow  BY CurriculumTreeAssumed DEF CurriculumTreeAssumption
<1>3. \A m \in Levels : level'[m] = level[m] \/ (m = l /\ level'[m] = row)  BY <1>1
<1> QED  BY <1>1, <1>2, <1>3 DEF Tuned

\* A request that sums its level again.
LEMMA OwnResums ==
    ASSUME Given, IInv, TInv, BInv, NEW p \in Requests, Acts(p), todo[p] # <<>>,
           Head(todo[p]).at \in {"write", "worth"}, NEW l \in reach[p], NEW held,
           Continue(p, Resum(l), held), held.level.grade \in reach[p],
           Head(todo[p]).at = "worth" => LevelOf(Head(todo[p])) = l
    PROVE  Own(p)'
<1> DEFINE steps == Resum(l)
<1>1. /\ IsSeq(steps) /\ steps # <<>> /\ steps[1].at = "sum" /\ Once(steps) /\ Leads(steps)
      /\ \A b \in ToSet(steps) : b.at \in {"sum", "quiz", "saveLevel"} /\ b.of = l
  <2>1. /\ IsSeq(steps) /\ steps # <<>> /\ steps[1] = At("sum", l)
        /\ \A b \in ToSet(steps) : b.at \in {"sum", "quiz", "saveLevel"} /\ b.of = l
    BY ListsInOrder
  <2>2. Once(steps) /\ Leads(steps)  BY ListsAreShaped
  <2>3. At("sum", l).at = "sum"  BY DEF At
  <2> QED  BY <2>1, <2>2, <2>3
<1> HIDE DEF steps
<1>2. HeldOn(ask[p], steps[1].at, held, reach[p])  BY <1>1 DEF HeldOn
<1>3. \A b \in ToSet(Tail(todo[p])) : Distinct(Head(todo[p]), b)  BY HeadShape DEF BInv
<1>4. Head(todo[p]).at = "write" => ToSet(Tail(todo[p])) = {}  BY HeadShape, Elements DEF BInv
<1>5. ASSUME NEW b \in ToSet(steps)
      PROVE  /\ StepOn(b, reach[p]) /\ b.at \notin Early
             /\ \A c \in ToSet(Tail(todo[p])) : Distinct(b, c)
  <2>1. b.at \in {"sum", "quiz", "saveLevel"} /\ b.of = l  BY <1>1
  <2>2. StepOn(b, reach[p]) /\ b.at \notin Early
    BY <2>1 DEF StepOn, ForLesson, ForGrade, LevelOf, Early
  <2>3. CASE Head(todo[p]).at = "worth"
    <3>1. LevelOf(b) = LevelOf(Head(todo[p]))  BY <2>1, <2>3 DEF LevelOf
    <3> QED  BY <1>3, <2>1, <2>2, <2>3, <3>1 DEF Distinct, ForLesson, ForLevel
  <2>4. CASE Head(todo[p]).at = "write"  BY <1>4, <2>2, <2>4
  <2> QED  BY <2>3, <2>4
<1> QED  BY <1>1, <1>2, <1>5, OwnGoes DEF steps

\* A level's worth is set, and its points summed again next.
LEMMA SetWorthOn ==
    ASSUME Given, IInv, TInv, TInv', BInv, NEW p \in Requests, SetWorth(p)
    PROVE  Acts(p) /\ BInv'
<1> DEFINE l == Row(p)[1]  old == Row(p)[2]  row == [level[l] EXCEPT !.worth = BulkWorth]
           held == Hold(p, "level", [old EXCEPT !.worth = BulkWorth])
<1>1. /\ Does(p, "worth") /\ UNCHANGED <<grade, lesson, item, question, ask, unsaved, reach, clean>>
      /\ level' = [level EXCEPT ![l].worth = BulkWorth] /\ Continue(p, Resum(l), held)
  BY DEF SetWorth, ghosts
<1>2. /\ todo[p] # <<>> /\ Head(todo[p]).at = "worth" /\ Head(todo[p]).of = Row(p)
      /\ l \in There(level) /\ l \in reach[p] /\ old \in LevelRow /\ old.grade \in reach[p]
      /\ mem[p] \in MemRow
  <2>1. /\ todo[p] # <<>> /\ Head(todo[p]).at = "worth" /\ Head(todo[p]).of = Row(p)
        /\ Apt(ask[p], Head(todo[p]), There(lesson), There(level)) /\ mem[p] \in MemRow
    BY <1>1, HeadStep DEF IInv, TInv
  <2>2. StepOn(Head(todo[p]), reach[p])  BY <1>1, HeadOn DEF BInv
  <2>3. l \in There(level) /\ old \in LevelRow  BY <2>1 DEF Apt
  <2>4. l \in reach[p] /\ old.grade \in reach[p]  BY <2>1, <2>2 DEF StepOn, LevelOf, ForLevel
  <2> QED  BY <2>1, <2>3, <2>4
<1>3. Tuned(p)
  <2>1. BulkWorth \in Nat  BY CurriculumTreeAssumed DEF CurriculumTreeAssumption
  <2>2. level[l] \in LevelRow  BY <1>2, ThereIs DEF TInv
  <2>3. row \in LevelRow /\ row.grade = level[l].grade  BY <2>1, <2>2 DEF LevelRow
  <2>4. level' = [level EXCEPT ![l] = row]  BY <1>1
  <2> HIDE DEF row
  <2> QED  BY <1>1, <1>2, <2>3, <2>4, OneLevelWritten
<1>4. Acts(p) /\ \A q \in Requests : Closed(reach[q])'
  BY <1>1, <1>2, <1>3, TunedActs, NothingSent
<1>5. held.level.grade \in reach[p]
  <2>1. held.level = [old EXCEPT !.worth = BulkWorth]  BY <1>2 DEF Hold, MemRow
  <2> QED  BY <1>2, <2>1 DEF LevelRow
<1>6. LevelOf(Head(todo[p])) = l  BY <1>2 DEF LevelOf
<1>7. Own(p)'
  <2> HIDE DEF held, l
  <2> QED  BY <1>1, <1>2, <1>4, <1>5, <1>6, OwnResums
<1> QED  BY <1>4, <1>7, StepOnBranch

\* A level's points are saved, and its grade's summed again next.
LEMMA SaveLevelOn ==
    ASSUME Given, IInv, TInv, TInv', BInv, NEW p \in Requests, SaveLevel(p)
    PROVE  Acts(p) /\ BInv'
<1> DEFINE l == Row(p)  row == [level[l] EXCEPT !.points = mem[p].sum]
           steps == Regrade(mem[p].level.grade)
<1>1. /\ Does(p, "saveLevel") /\ UNCHANGED <<grade, lesson, item, question, ask, unsaved, reach, clean>>
      /\ level' = level \/ level' = [level EXCEPT ![l].points = mem[p].sum]
      /\ Continue(p, steps, mem[p])
  BY DEF SaveLevel, ghosts
<1>2. /\ todo[p] # <<>> /\ Head(todo[p]).at = "saveLevel" /\ Head(todo[p]).of = Row(p)
      /\ l \in There(level) /\ l \in reach[p] /\ mem[p].sum \in Nat
      /\ mem[p].level.grade \in reach[p]
  <2>1. /\ todo[p] # <<>> /\ Head(todo[p]).at = "saveLevel" /\ Head(todo[p]).of = Row(p)
        /\ Apt(ask[p], Head(todo[p]), There(lesson), There(level))
        /\ HoldsAt(ask[p], "saveLevel", mem[p], There(lesson), There(level))
    BY <1>1, HeadStep DEF IInv, TInv
  <2>2. StepOn(Head(todo[p]), reach[p]) /\ HeldOn(ask[p], "saveLevel", mem[p], reach[p])
    BY <1>1, HeadOn DEF BInv
  <2> QED  BY <2>1, <2>2 DEF Apt, StepOn, LevelOf, ForLevel, HoldsAt, HeldOn
<1>3. Tuned(p)
  <2>1. level[l] \in LevelRow  BY <1>2, ThereIs DEF TInv
  <2>2. row \in LevelRow /\ row.grade = level[l].grade  BY <1>2, <2>1 DEF LevelRow
  <2>3. level' = level \/ level' = [level EXCEPT ![l] = row]  BY <1>1
  <2> HIDE DEF row
  <2> QED  BY <1>1, <1>2, <2>2, <2>3, OneLevelWritten
<1>4. Acts(p) /\ \A q \in Requests : Closed(reach[q])'
  BY <1>1, <1>2, <1>3, TunedActs, NothingSent
<1>5. /\ IsSeq(steps) /\ steps # <<>> /\ Once(steps) /\ Leads(steps)
      /\ \A b \in ToSet(steps) : b.at \in ForGrade /\ b.of = mem[p].level.grade
  BY ListsInOrder, ListsAreShaped
<1> HIDE DEF steps
<1>6. steps[1] \in ToSet(steps)  BY <1>5, Rest DEF ToSet
<1>7. HeldOn(ask[p], steps[1].at, mem[p], reach[p])  BY <1>5, <1>6 DEF HeldOn, ForGrade
<1>8. \A b \in ToSet(steps) : /\ StepOn(b, reach[p]) /\ b.at \notin Early
                              /\ \A c : Distinct(b, c)
  BY <1>2, <1>5 DEF StepOn, ForLesson, ForLevel, ForGrade, Early, Distinct
<1>9. Own(p)'  BY <1>1, <1>2, <1>4, <1>5, <1>7, <1>8, OwnGoes
<1> QED  BY <1>4, <1>9, StepOnBranch

\* A grade's points are saved.
LEMMA SaveGradeOn ==
    ASSUME Given, IInv, TInv, TInv', BInv, NEW p \in Requests, SaveGrade(p)
    PROVE  Acts(p) /\ BInv'
<1>1. /\ Does(p, "saveGrade") /\ UNCHANGED <<level, lesson, item, question, ask, unsaved, reach, clean>>
      /\ grade' = grade \/ \E v : grade' = [grade EXCEPT ![Row(p)] = v]
      /\ Continue(p, <<>>, mem[p])
  BY DEF SaveGrade, ghosts
<1>2. /\ todo[p] # <<>> /\ Head(todo[p]).at = "saveGrade" /\ Row(p) \in reach[p]
  <2>1. todo[p] # <<>> /\ Head(todo[p]).at = "saveGrade" /\ Head(todo[p]).of = Row(p)
    BY <1>1, HeadStep DEF IInv, TInv
  <2>2. StepOn(Head(todo[p]), reach[p])  BY <1>1, HeadOn DEF BInv
  <2> QED  BY <2>1, <2>2 DEF StepOn, ForGrade
<1>3. Tuned(p)
  <2>1. DOMAIN grade = Grades  BY DEF TInv, Tabled
  <2>2. \A g \in Grades : grade'[g] = grade[g] \/ g \in reach[p]  BY <1>1, <1>2, <2>1
  <2> QED  BY <1>1, <2>2 DEF Tuned
<1>4. Acts(p) /\ \A q \in Requests : Closed(reach[q])'
  BY <1>1, <1>2, <1>3, TunedActs, NothingSent
<1>5. \A b : Follows(Head(todo[p]), b) => HeldOn(ask[p], b.at, mem[p], reach[p])
  BY <1>2, NothingHeld
<1>6. Own(p)'  BY <1>1, <1>2, <1>4, <1>5, OwnGoesOn
<1> QED  BY <1>4, <1>6, StepOnBranch

\* Of items that are there some fields are written, not their lesson; or they go.
LEMMA ItemsTuned ==
    ASSUME TInv, NEW p, UNCHANGED <<grade, level, lesson, question, reach>>,
           \A i \in Items : \/ item'[i] = item[i]
                            \/ /\ item[i] # None /\ item[i].lesson \in reach[p]
                               /\ item'[i] # None => item'[i].lesson = item[i].lesson
    PROVE  Tuned(p)
BY DEF Tuned

\* The items of a kind are spread over.
LEMMA SpreadOn ==
    ASSUME Given, IInv, TInv, TInv', BInv, NEW p \in Requests, Spread(p)
    PROVE  Acts(p) /\ BInv'
<1> DEFINE s == Row(p)[1]  k == Row(p)[2]
<1>1. /\ Does(p, "spread") /\ UNCHANGED <<grade, level, lesson, question, ask, unsaved, reach, clean>>
      /\ item' = [i \in Items |-> IF i \in ItemsOfKind(s, k)
                                  THEN [item[i] EXCEPT !.points = Points(mem[p])] ELSE item[i]]
      /\ Continue(p, <<>>, mem[p])
  BY DEF Spread, ghosts
<1>2. todo[p] # <<>> /\ Head(todo[p]).at = "spread" /\ s \in reach[p]
  <2>1. todo[p] # <<>> /\ Head(todo[p]).at = "spread" /\ Head(todo[p]).of = Row(p)
    BY <1>1, HeadStep DEF IInv, TInv
  <2>2. StepOn(Head(todo[p]), reach[p])  BY <1>1, HeadOn DEF BInv
  <2> QED  BY <2>1, <2>2 DEF StepOn, LessonOf, ForLesson
<1>3. Tuned(p)
  <2>1. ASSUME NEW i \in ItemsOfKind(s, k)
        PROVE  /\ item[i] # None /\ item[i].lesson = s
               /\ [item[i] EXCEPT !.points = Points(mem[p])].lesson = s
    <3>1. i \in Items /\ item[i] # None /\ item[i].lesson = s  BY DEF ItemsOfKind, ItemsOf
    <3>2. item[i] \in ItemRow  BY <3>1 DEF TInv, Tabled
    <3> QED  BY <3>1, <3>2 DEF ItemRow
  <2>2. \A i \in Items : \/ item'[i] = item[i]
                         \/ /\ item[i] # None /\ item[i].lesson \in reach[p]
                            /\ item'[i] # None => item'[i].lesson = item[i].lesson
    BY <1>1, <1>2, <2>1
  <2> QED  BY <1>1, <2>2, ItemsTuned
<1>4. Acts(p) /\ \A q \in Requests : Closed(reach[q])'
  BY <1>1, <1>2, <1>3, TunedActs, NothingSent
<1>5. \A b : Follows(Head(todo[p]), b) => HeldOn(ask[p], b.at, mem[p], reach[p])
  BY <1>2, NothingHeld
<1>6. Own(p)'  BY <1>1, <1>2, <1>4, <1>5, OwnGoesOn
<1> QED  BY <1>4, <1>6, StepOnBranch

\* The items of a reorder are of the lesson that it names.
LEMMA CommitOrderOn ==
    ASSUME Given, IInv, TInv, TInv', BInv, NEW p \in Requests, CommitOrder(p)
    PROVE  Acts(p) /\ BInv'
<1>1. /\ Does(p, "commit") /\ UNCHANGED <<grade, level, lesson, question, ask, unsaved, reach, clean>>
      /\ item' = [i \in Items |-> IF i \in DOMAIN draft[p]
                                  THEN [item[i] EXCEPT !.order = draft[p][i]] ELSE item[i]]
      /\ Continue(p, <<>>, mem[p])
  BY DEF CommitOrder, ghosts
<1>2. todo[p] # <<>> /\ Head(todo[p]).at = "commit" /\ AskOn(ask[p], reach[p])
  BY <1>1, HeadOn DEF BInv
<1>3. Tuned(p)
  <2>1. ASSUME NEW i \in DOMAIN draft[p]
        PROVE  /\ item[i] # None /\ item[i].lesson \in reach[p]
               /\ [item[i] EXCEPT !.order = draft[p][i]].lesson = item[i].lesson
    <3>1. i \in Items /\ item[i] # None /\ item[i].lesson = ask[p].lesson  BY DEF IInv, Drafted
    <3>2. item[i] \in ItemRow  BY <3>1 DEF TInv, Tabled
    <3>3. ask[p].lesson # None
      BY <3>1, <3>2, CurriculumTreeAssumed DEF CurriculumTreeAssumption, ItemRow
    <3> QED  BY <1>2, <3>1, <3>2, <3>3 DEF AskOn, ItemRow
  <2>2. \A i \in Items : \/ item'[i] = item[i]
                         \/ /\ item[i] # None /\ item[i].lesson \in reach[p]
                            /\ item'[i] # None => item'[i].lesson = item[i].lesson
    BY <1>1, <2>1
  <2> QED  BY <1>1, <2>2, ItemsTuned
<1>4. Acts(p) /\ \A q \in Requests : Closed(reach[q])'
  BY <1>1, <1>2, <1>3, TunedActs, NothingSent
<1>5. \A b : Follows(Head(todo[p]), b) => HeldOn(ask[p], b.at, mem[p], reach[p])
  BY <1>2, NothingHeld
<1>6. Own(p)'  BY <1>1, <1>2, <1>4, <1>5, OwnGoesOn
<1> QED  BY <1>4, <1>6, StepOnBranch

\* A save of a request lands or is lost: the request itself waits or is done.
LEMMA OwnWaits ==
    ASSUME Given, IInv, TInv, TInv', BInv, NEW w \in unsaved, NEW p \in Requests, p = w.by,
           unsaved' = unsaved \ {w}, UNCHANGED <<ask, status, todo, mem>>, Tuned(p),
           \A q \in Requests : clean'[q] => clean[q]
    PROVE  Acts(p) /\ BInv'
<1>1. Ordered(p) /\ Once(todo[p]) /\ Leads(todo[p])  BY DEF BInv, Shapes
<1>2. status[p] # "idle" /\ todo[p] \notin Beginnings  BY <1>1 DEF Ordered
<1>3. Acts(p) /\ \A q \in Requests : Closed(reach[q])'
  <2>1. ~Settled(p)  BY DEF Settled
  <2>2. Sends(p)  BY DEF Sends
  <2>3. OthersStay(p)  BY DEF OthersStay
  <2> QED  BY <1>2, <2>1, <2>2, <2>3, TunedRows DEF Acts
<1>4. Inside(p)'  BY <1>3, WaitsInside DEF BInv
<1>5. Ordered(p)' /\ Once(todo'[p]) /\ Leads(todo'[p])
  <2>1. \A u \in unsaved' \ unsaved : u.by # p  OBVIOUS
  <2> QED  BY <1>3, <2>1, StaysOrdered DEF BInv
<1>6. MadeNew(p)'
  <2>1. ~Does(p, "write")
    <3>1. ASSUME Does(p, "write") PROVE FALSE
      <4>1. todo[p] # <<>> /\ Head(todo[p]).at \in Early  BY <3>1 DEF Does, Early
      <4>2. \A u \in unsaved : u.by # p  BY <4>1, HeadShape DEF BInv
      <4> QED  BY <4>2
    <3> QED  BY <3>1
  <2> QED  BY <1>2, <2>1 DEF MadeNew, Does
<1> QED  BY <1>3, <1>4, <1>5, <1>6, StepOnBranch DEF Own

\* A save that lands is of a row on the branch of who sent it.
LEMMA LandOn ==
    ASSUME Given, IInv, TInv, TInv', BInv, NEW w \in unsaved, Land(w)
    PROVE  Acts(w.by) /\ BInv'
<1> DEFINE p == w.by
<1>1. /\ UNCHANGED <<grade, level, question, ask, status, todo, mem, reach, clean>>
      /\ unsaved' = unsaved \ {w}
  BY DEF Land, ghosts
<1>2. p \in Requests  BY DEF TInv, SavesTyped
<1>3. /\ w.at = "item" => w.of \in Items
      /\ w.at = "lesson" => w.of \in There(lesson)
  BY DEF TInv, SavesTyped
<1>4. Tuned(p)
  <2>1. CASE w.at = "item"
    <3>1. /\ lesson' = lesson
          /\ item' = item \/ (item[w.of] # None /\ item' = [item EXCEPT ![w.of].points = w.set])
      BY <2>1 DEF Land
    <3>2. ASSUME item[w.of] # None
          PROVE  /\ item[w.of].lesson \in reach[p]
                 /\ [item[w.of] EXCEPT !.points = w.set].lesson = item[w.of].lesson
      <4>1. item[w.of] \in ItemRow  BY <1>3, <2>1, <3>2 DEF TInv, Tabled
      <4>2. item[w.of].lesson \in reach[p]  BY <2>1, <3>2 DEF BInv, SavesOn, SaveOn
      <4> QED  BY <4>1, <4>2 DEF ItemRow
    <3>3. DOMAIN item = Items  BY DEF TInv, Tabled
    <3>4. \A i \in Items : \/ item'[i] = item[i]
                           \/ /\ item[i] # None /\ item[i].lesson \in reach[p]
                              /\ item'[i] # None => item'[i].lesson = item[i].lesson
      BY <3>1, <3>2, <3>3
    <3> QED  BY <1>1, <3>1, <3>4, ItemsTuned
  <2>2. CASE w.at = "lesson"
    <3> DEFINE s == w.of
               shares == [c \in Columns |-> IF c \in DOMAIN w.set THEN w.set[c] ELSE lesson[s].shares[c]]
               row == [lesson[s] EXCEPT !.shares = shares]
    <3>1. item' = item /\ lesson' = [lesson EXCEPT ![s] = row]  BY <2>2 DEF Land
    <3>2. lesson[s] \in LessonRow /\ s \in Lessons  BY <1>3, <2>2, ThereIs DEF TInv
    <3>3. row.level = lesson[s].level
      <4> HIDE DEF shares
      <4> QED  BY <3>2 DEF LessonRow
    <3>4. DOMAIN lesson = Lessons /\ DOMAIN lesson' = Lessons  BY DEF TInv, Tabled
    <3>5. s \in reach[p]  BY <2>2 DEF BInv, SavesOn, SaveOn
    <3>6. row # None
      <4>1. \A c \in DOMAIN w.set : c \in Columns /\ w.set[c] \in Nat
        BY <2>2 DEF TInv, SavesTyped
      <4>2. lesson[s].shares \in [Columns -> Nat]  BY <3>2 DEF LessonRow
      <4>3. shares \in [Columns -> Nat]  BY <4>1, <4>2
      <4> HIDE DEF shares
      <4>4. row \in LessonRow  BY <3>2, <4>3 DEF LessonRow
      <4> HIDE DEF row
      <4> QED  BY <4>4, CurriculumTreeAssumed DEF CurriculumTreeAssumption
    <3> HIDE DEF row
    <3>7. \A t \in Lessons : \/ lesson'[t] = lesson[t]
                             \/ /\ t \in reach[p] /\ lesson[t] # None /\ lesson'[t] # None
                                /\ lesson'[t].level = lesson[t].level
      <4>1. \A t \in Lessons : lesson'[t] = lesson[t] \/ (t = s /\ lesson'[t] = row)
        BY <3>1, <3>4
      <4>2. lesson[s] # None  BY <1>3, <2>2 DEF There
      <4> QED  BY <3>3, <3>5, <3>6, <4>1, <4>2
    <3> QED  BY <1>1, <3>1, <3>7 DEF Tuned
  <2> QED  BY <2>1, <2>2 DEF Land
<1>5. \A q \in Requests : clean'[q] => clean[q]  BY <1>1
<1> QED  BY <1>1, <1>2, <1>4, <1>5, OwnWaits

\* One that is lost changes no row.
LEMMA LoseSaveOn ==
    ASSUME Given, IInv, TInv, TInv', BInv, NEW w \in unsaved, LoseSave(w)
    PROVE  Acts(w.by) /\ BInv'
<1>1. /\ UNCHANGED <<tables, ask, status, todo, mem, reach>> /\ unsaved' = unsaved \ {w}
      /\ clean' = [clean EXCEPT ![w.by] = FALSE]
  BY DEF LoseSave
<1>2. w.by \in Requests  BY DEF TInv, SavesTyped
<1>3. Tuned(w.by)  BY <1>1 DEF Tuned, tables
<1>4. \A q \in Requests : clean'[q] => clean[q]  BY <1>1 DEF TInv, Tallied
<1> QED  BY <1>1, <1>2, <1>3, <1>4, OwnWaits

(***************************************************************************)
(* The row a request is about                                              *)
(***************************************************************************)

\* Steps in order, and on a branch.
OnBranch(steps, branch) ==
    /\ IsSeq(steps) /\ Once(steps) /\ Leads(steps)
    /\ \A b \in ToSet(steps) : StepOn(b, branch) /\ b.at \notin Early

\* The steps that count a row again are on its branch.
LEMMA ListsOn ==
    ASSUME NEW branch
    PROVE  /\ OnBranch(<<>>, branch)
           /\ \A s \in branch : OnBranch(Recount(s), branch)
           /\ \A l \in branch : OnBranch(Resum(l), branch) /\ OnBranch(Reload(l), branch)
           /\ \A g \in branch : OnBranch(Regrade(g), branch)
           /\ \A s, g : OnBranch(s, branch) /\ g \in branch => OnBranch(s \o Regrade(g), branch)
           /\ \A s, l : OnBranch(s, branch) /\ l \in branch => OnBranch(s \o Reload(l), branch)
<1>1. OnBranch(<<>>, branch)
  <2>1. IsSeq(<<>>)  BY DEF IsSeq
  <2>2. ToSet(<<>>) = {} /\ Once(<<>>) /\ Leads(<<>>)  BY Elements, OnceGoes, LeadsGo
  <2> QED  BY <2>1, <2>2 DEF OnBranch
<1>2. \A s \in branch : OnBranch(Recount(s), branch)
  <2>1. \A s \in branch : \A b \in ToSet(Recount(s)) : b.at = "lesson" /\ b.of = s
    BY ListsInOrder DEF At
  <2>2. \A s \in branch : \A b \in ToSet(Recount(s)) : StepOn(b, branch) /\ b.at \notin Early
    BY <2>1 DEF StepOn, LessonOf, ForLevel, ForGrade, Early
  <2> QED  BY <2>2, ListsInOrder, ListsAreShaped DEF OnBranch
<1>3. \A l \in branch : OnBranch(Resum(l), branch) /\ OnBranch(Reload(l), branch)
  <2>1. \A l \in branch : \A b \in ToSet(Resum(l)) \cup ToSet(Reload(l)) :
           b.at \in {"level", "sum", "quiz", "saveLevel"} /\ b.of = l
    BY ListsInOrder
  <2>2. \A l \in branch : \A b \in ToSet(Resum(l)) \cup ToSet(Reload(l)) :
           StepOn(b, branch) /\ b.at \notin Early
    BY <2>1 DEF StepOn, LevelOf, ForLesson, ForGrade, Early
  <2> QED  BY <2>2, ListsInOrder, ListsAreShaped DEF OnBranch
<1>4. \A g \in branch : OnBranch(Regrade(g), branch)
  <2>1. \A g \in branch : \A b \in ToSet(Regrade(g)) : b.at \in ForGrade /\ b.of = g
    BY ListsInOrder
  <2>2. \A g \in branch : \A b \in ToSet(Regrade(g)) : StepOn(b, branch) /\ b.at \notin Early
    BY <2>1 DEF StepOn, ForLesson, ForLevel, ForGrade, Early
  <2> QED  BY <2>2, ListsInOrder, ListsAreShaped DEF OnBranch
<1>5. ASSUME NEW s, NEW t, OnBranch(s, branch), OnBranch(t, branch),
             \A b \in ToSet(t) : b.at \notin {"lesson", "refresh", "worth"}
      PROVE  OnBranch(s \o t, branch)
  <2>1. /\ IsSeq(s \o t) /\ Once(s \o t) /\ Leads(s \o t)
        /\ ToSet(s \o t) = ToSet(s) \cup ToSet(t)
    BY <1>5, JoinedShape DEF OnBranch
  <2> QED  BY <1>5, <2>1 DEF OnBranch
<1>6. ASSUME NEW s, NEW g, OnBranch(s, branch), g \in branch
      PROVE  OnBranch(s \o Regrade(g), branch)
  <2>1. \A b \in ToSet(Regrade(g)) : b.at \in ForGrade  BY ListsInOrder
  <2> QED  BY <1>4, <1>5, <1>6, <2>1 DEF ForGrade
<1>7. ASSUME NEW s, NEW l, OnBranch(s, branch), l \in branch
      PROVE  OnBranch(s \o Reload(l), branch)
  <2>1. \A b \in ToSet(Reload(l)) : b.at \in {"level", "sum", "quiz", "saveLevel"}
    BY ListsInOrder
  <2> QED  BY <1>3, <1>5, <1>7, <2>1
<1> QED  BY <1>1, <1>2, <1>3, <1>4, <1>6, <1>7

\* What follows a write.
LEMMA OwnWrites ==
    ASSUME Given, IInv, TInv, BInv, NEW p \in Requests, Acts(p), Does(p, "write"),
           NEW steps, NEW held, Continue(p, steps, held), OnBranch(steps, reach[p]),
           steps # <<>> => \/ steps[1].at \in {"lesson", "level", "grade"}
                           \/ steps[1].at = "sum" /\ held.level.grade \in reach[p]
    PROVE  Own(p)'
<1>1. todo[p] # <<>> /\ Head(todo[p]).at = "write"  BY DEF Does
<1>2. ToSet(Tail(todo[p])) = {}  BY <1>1, HeadShape, Elements DEF BInv
<1>3. \A b : Follows(Head(todo[p]), b) => HeldOn(ask[p], b.at, held, reach[p])
  BY <1>1, NothingHeld
<1>4. steps # <<>> => HeldOn(ask[p], steps[1].at, held, reach[p])  BY DEF HeldOn
<1> QED  BY <1>1, <1>2, <1>3, <1>4, OwnGoes DEF OnBranch

\* What is known when a request writes.
LEMMA WriteOn ==
    ASSUME Given, IInv, TInv, BInv, NEW p \in Requests, Does(p, "write")
    PROVE  /\ todo[p] # <<>> /\ ask[p] \in AskRow /\ ask[p] # None /\ Closed(reach[p])
           /\ AskOn(ask[p], reach[p])
           /\ \A f \in {"lesson", "level", "grade"} : ask[p][f] # None => ask[p][f] \in reach[p]
           /\ ask[p].do \in OfItem => mem[p].row.lesson \in reach[p]
           /\ ask[p].do \in OfLesson \cup OfQuestion => mem[p].row.level \in reach[p]
           /\ ask[p].do \in OfLevel => mem[p].row.grade \in reach[p]
<1>1. todo[p] # <<>> /\ HeldOn(ask[p], "write", mem[p], reach[p]) /\ AskOn(ask[p], reach[p])
      /\ Closed(reach[p])
  BY HeadOn DEF BInv
<1>2. ask[p] \in AskRow /\ ask[p] # None  BY HeadStep DEF IInv, TInv
<1> QED  BY <1>1, <1>2 DEF HeldOn, AskOn

\* A row comes under another: who shares it gets that one's branch.
LEMMA JoinedGrows ==
    ASSUME Branches, NEW p \in Requests, NEW x \in reach[p], NEW branch, branch \subseteq reach[p],
           reach' = Joined(x, branch)
    PROVE  /\ Grows(p)
           /\ \A q \in Requests : /\ x \in reach[q] => reach'[q] = reach[q] \cup branch
                                  /\ x \notin reach[q] => reach'[q] = reach[q]
<1>1. \A q \in Requests : /\ x \in reach[q] => reach'[q] = reach[q] \cup branch
                          /\ x \notin reach[q] => reach'[q] = reach[q]
  BY DEF Joined
<1>2. DOMAIN reach' = Requests  BY DEF Joined
<1>3. reach'[p] = reach[p]  BY <1>1
<1>4. Grows(p)  BY <1>1, <1>2, <1>3 DEF Grows
<1> QED  BY <1>1, <1>4

\* Who acts, when it writes.
LEMMA WriteActs ==
    ASSUME IInv, TInv, NEW p \in Requests, todo[p] # <<>>, Moves(p), Grows(p), Appears(p), Carries,
           UNCHANGED <<ask, unsaved, clean>>, NEW steps, NEW held, Continue(p, steps, held)
    PROVE  Acts(p)
<1>1. ~Settled(p) /\ status[p] = "running" /\ OthersStay(p) /\ status'[p] # "idle"
  BY Goings
<1> QED  BY <1>1, NothingSent DEF Acts

\* An item that is added, dropped, ordered, or moved.
LEMMA WriteItemOn ==
    ASSUME Given, IInv, TInv, TInv', BInv, NEW p \in Requests, WriteItem(p)
    PROVE  Acts(p) /\ BInv'
<1> DEFINE a == ask[p]  i == a.item  old == mem[p].row
<1>1. /\ Does(p, "write")
      /\ UNCHANGED <<grade, level, lesson, question, ask, unsaved, clean>>
      /\ a.do = "editItem" /\ item[i] # None
            => reach' = Joined(item[i].lesson, Upward({a.lesson}, {}, {}))
      /\ a.do # "editItem" \/ item[i] = None => reach' = reach
  BY DEF WriteItem
<1>2. /\ todo[p] # <<>> /\ a \in AskRow /\ a # None /\ Closed(reach[p]) /\ AskOn(a, reach[p])
      /\ a.lesson # None => a.lesson \in reach[p]
      /\ a.do \in OfItem => old.lesson \in reach[p]
  BY <1>1, WriteOn
<1>3. a.do \in {"addItem", "dropItem", "editItem", "orderItem"} /\ i \in Items
      /\ (a.do \in {"addItem", "editItem"} => a.lesson \in Lessons)
  <2>1. a.do \in {"addItem", "dropItem", "editItem", "orderItem"}  BY DEF WriteItem
  <2> QED  BY <1>2, <2>1, AskedRows DEF Given, OfItem
<1>4. /\ DOMAIN item = Items /\ (item[i] # None => item[i] \in ItemRow)
  BY <1>3 DEF TInv, Tabled
<1>5. item[i] # None => item[i].lesson \in reach[p]
  BY <1>2, <1>3, CurriculumTreeAssumed DEF AskOn, CurriculumTreeAssumption
<1>6. a.do \in {"addItem", "editItem"} => a.lesson \in reach[p]
  BY <1>2, <1>3, CurriculumTreeAssumed DEF CurriculumTreeAssumption
<1>7. CASE a.do \in {"addItem", "dropItem", "orderItem"} \/ item[i] = None
  <2>1. Tuned(p)
    <3>1. \A j \in Items : j # i => item'[j] = item[j]  BY <1>4 DEF WriteItem
    <3>2. \/ item'[i] = item[i]
          \/ /\ item'[i] # None =>
                   IF item[i] # None THEN item'[i].lesson = item[i].lesson
                   ELSE Adding(p, "addItem", "item", i) /\ item'[i].lesson \in reach[p]
      <4>1. CASE a.do = "addItem"
        <5>1. item[i] = None /\ item' = [item EXCEPT ![i] = [lesson |-> a.lesson, order |-> a.n, points |-> 0]]
          BY <4>1 DEF WriteItem
        <5>2. item'[i].lesson = a.lesson  BY <1>3, <1>4, <5>1
        <5> QED  BY <1>1, <1>6, <4>1, <5>1, <5>2 DEF Adding
      <4>2. CASE a.do = "dropItem"
        <5>1. item' = [item EXCEPT ![i] = None]  BY <4>2 DEF WriteItem
        <5> QED  BY <1>3, <1>4, <5>1
      <4>3. CASE a.do = "orderItem"
        <5>1. item' = item \/ (item[i] # None /\ item' = [item EXCEPT ![i].order = a.n])
          BY <4>3 DEF WriteItem
        <5>2. item[i] # None => [item[i] EXCEPT !.order = a.n].lesson = item[i].lesson
          BY <1>4 DEF ItemRow
        <5> QED  BY <1>3, <1>4, <5>1, <5>2
      <4>4. CASE a.do = "editItem"
        <5>1. item' = item  BY <1>7, <4>4 DEF WriteItem
        <5> QED  BY <5>1
      <4> QED  BY <1>3, <4>1, <4>2, <4>3, <4>4
    <3> QED  BY <1>1, <1>5, <1>7, <3>1, <3>2 DEF Tuned
  <2> QED
    <3>1. \E steps, held : /\ Continue(p, steps, held) /\ OnBranch(steps, reach[p])
                           /\ steps # <<>> => steps[1].at = "lesson"
      <4>1. \A s : Recount(s)[1].at = "lesson"  BY DEF Recount, At
      <4>2. CASE a.do = "addItem"
        <5>1. Continue(p, Recount(a.lesson), mem[p])  BY <4>2 DEF WriteItem
        <5> QED  BY <1>6, <4>1, <4>2, <5>1, ListsOn
      <4>3. CASE a.do = "dropItem"
        <5>1. Continue(p, Recount(old.lesson), mem[p])  BY <4>3 DEF WriteItem
        <5> QED  BY <1>2, <4>1, <4>3, <5>1, ListsOn DEF OfItem
      <4>4. CASE a.do \in {"editItem", "orderItem"}
        <5>1. Continue(p, <<>>, mem[p])  BY <4>4 DEF WriteItem
        <5> QED  BY <5>1, ListsOn
      <4> QED  BY <1>3, <4>2, <4>3, <4>4
    <3>2. Acts(p) /\ \A q \in Requests : Closed(reach[q])'
      BY <1>1, <1>2, <2>1, <3>1, TunedActs, NothingSent
    <3>3. Own(p)'  BY <1>1, <3>1, <3>2, OwnWrites
    <3> QED  BY <3>2, <3>3, StepOnBranch
<1>8. CASE a.do = "editItem" /\ item[i] # None
  <2> DEFINE x == item[i].lesson  up == Upward({a.lesson}, {}, {})
             row == [[item[i] EXCEPT !.lesson = a.lesson] EXCEPT !.points = a.n]
  <2>1. /\ item' = [item EXCEPT ![i].lesson = a.lesson, ![i].points = a.n]
        /\ Continue(p, <<>>, mem[p]) /\ reach' = Joined(x, up)
    BY <1>1, <1>8 DEF WriteItem
  <2>2. Closed(up) /\ a.lesson \in up /\ up \subseteq reach[p]
    <3>1. {a.lesson} \in SUBSET Lessons /\ {} \in SUBSET Levels /\ {} \in SUBSET Grades
      BY <1>3, <1>8
    <3>2. {a.lesson} \cup {} \cup {} \subseteq reach[p]  BY <1>6, <1>8
    <3> DEFINE ss == {a.lesson}
    <3> HIDE DEF ss
    <3>3. Closed(up) /\ ss \cup {} \cup {} \subseteq up
      BY <3>1, UpwardClosed DEF ss
    <3>4. up \subseteq reach[p]  BY <1>2, <3>1, <3>2, UpwardClosed DEF ss
    <3> QED  BY <3>3, <3>4 DEF ss
  <2>3. x \in reach[p]  BY <1>5, <1>8
  <2> HIDE DEF x, up
  <2>4. /\ Grows(p)
        /\ \A q \in Requests : /\ x \in reach[q] => reach'[q] = reach[q] \cup up
                               /\ x \notin reach[q] => reach'[q] = reach[q]
    BY <2>1, <2>2, <2>3, JoinedGrows DEF BInv
  <2>5. \A j \in Items : \/ item'[j] = item[j]
                         \/ j = i /\ item'[j].lesson = a.lesson
    <3>1. \A j \in Items : item'[j] = IF j = i THEN row ELSE item[j]
      BY <1>4, <2>1
    <3>2. row.lesson = a.lesson  BY <1>4, <1>8 DEF ItemRow
    <3> HIDE DEF row
    <3> QED  BY <3>1, <3>2
  <2>6. Moves(p) /\ Appears(p) /\ Carries
    <3>1. Moves(p)  BY <1>1, <1>6, <1>8, <2>3, <2>5 DEF Moves, x
    <3>2. Appears(p)  BY <1>1, <1>8, <2>5 DEF Appears
    <3>3. Carries
      <4>1. \A q \in Requests : reach[q] \subseteq reach'[q]  BY <2>4
      <4> QED  BY <1>1, <2>2, <2>4, <2>5, <4>1 DEF Carries, x
    <3> QED  BY <3>1, <3>2, <3>3
  <2>7. Acts(p)  BY <1>1, <1>2, <2>1, <2>4, <2>6, WriteActs
  <2>8. ASSUME NEW q \in Requests PROVE Closed(reach[q])'
    <3>1. Closed(reach'[q])  BY <2>2, <2>4, ClosedJoins DEF BInv, Branches
    <3> QED  BY <1>1, <3>1 DEF Closed, There
  <2>9. Own(p)'  BY <1>1, <2>1, <2>7, ListsOn, OwnWrites
  <2> QED  BY <2>7, <2>8, <2>9, StepOnBranch
<1> QED  BY <1>3, <1>7, <1>8

\* A question that is added, dropped or switched.
LEMMA WriteQuestionOn ==
    ASSUME Given, IInv, TInv, TInv', BInv, NEW p \in Requests, WriteQuestion(p)
    PROVE  Acts(p) /\ BInv'
<1> DEFINE a == ask[p]  x == a.question  old == mem[p].row
<1>1. /\ Does(p, "write")
      /\ UNCHANGED <<grade, level, lesson, item, ask, unsaved, reach, clean>>
      /\ a.do \in {"addQuestion", "dropQuestion", "switchQuestion"}
  BY DEF WriteQuestion, ghosts
<1>2. /\ todo[p] # <<>> /\ a \in AskRow /\ a # None /\ AskOn(a, reach[p])
      /\ a.level # None => a.level \in reach[p]
      /\ a.do \in OfQuestion => old.level \in reach[p]
  BY <1>1, WriteOn
<1>3. x \in Questions /\ (a.do = "addQuestion" => a.level \in Levels)
  BY <1>1, <1>2, AskedRows DEF Given, OfQuestion
<1>4. DOMAIN question = Questions /\ (question[x] # None => question[x] \in QuestionRow)
  BY <1>3 DEF TInv, Tabled
<1>5. None \notin Questions \cup Levels  BY CurriculumTreeAssumed DEF CurriculumTreeAssumption
<1>6. question[x] # None => question[x].level \in reach[p]  BY <1>2, <1>3, <1>5 DEF AskOn
<1>7. a.do = "addQuestion" => a.level \in reach[p]  BY <1>2, <1>3, <1>5
<1>8. Tuned(p)
  <2>1. \A y \in Questions : y # x => question'[y] = question[y]  BY <1>4 DEF WriteQuestion
  <2>2. \/ question'[x] = question[x]
        \/ question'[x] # None =>
                 IF question[x] # None THEN question'[x].level = question[x].level
                 ELSE Adding(p, "addQuestion", "question", x) /\ question'[x].level \in reach[p]
    <3>1. CASE a.do = "addQuestion"
      <4>1. question' = [question EXCEPT ![x] = [level |-> a.level, on |-> TRUE]]
        BY <3>1 DEF WriteQuestion
      <4>2. question'[x].level = a.level  BY <1>3, <1>4, <4>1
      <4>3. question[x] = None
        BY <1>1, <1>2, <3>1 DEF BInv, Unmade, MadeNew
      <4> QED  BY <1>1, <1>7, <3>1, <4>2, <4>3 DEF Adding
    <3>2. CASE a.do = "dropQuestion"
      <4>1. question' = [question EXCEPT ![x] = None]  BY <3>2 DEF WriteQuestion
      <4> QED  BY <1>3, <1>4, <4>1
    <3>3. CASE a.do = "switchQuestion"
      <4>1. question' = question \/ (question[x] # None /\ question' = [question EXCEPT ![x].on = a.on])
        BY <3>3 DEF WriteQuestion
      <4>2. question[x] # None => [question[x] EXCEPT !.on = a.on].level = question[x].level
        BY <1>4 DEF QuestionRow
      <4> QED  BY <1>3, <1>4, <4>1, <4>2
    <3> QED  BY <1>1, <3>1, <3>2, <3>3
  <2> QED  BY <1>1, <1>6, <2>1, <2>2 DEF Tuned
<1>9. PICK l : l \in reach[p] /\ Continue(p, Reload(l), mem[p])
  <2>1. CASE a.do = "addQuestion"
    <3>1. Continue(p, Reload(a.level), mem[p])  BY <2>1 DEF WriteQuestion
    <3> QED  BY <1>7, <2>1, <3>1
  <2>2. CASE a.do \in OfQuestion
    <3>1. Continue(p, Reload(old.level), mem[p])  BY <2>2 DEF WriteQuestion, OfQuestion
    <3> QED  BY <1>2, <2>2, <3>1
  <2> QED  BY <1>1, <2>1, <2>2 DEF OfQuestion
<1>10. Acts(p) /\ \A q \in Requests : Closed(reach[q])'
  BY <1>1, <1>2, <1>8, <1>9, TunedActs, NothingSent
<1>11. Reload(l)[1].at = "level"
  <2>1. Reload(l)[1] = At("level", l)  BY ListsInOrder
  <2>2. At("level", l).at = "level"  BY DEF At
  <2> QED  BY <2>1, <2>2
<1>12. OnBranch(Reload(l), reach[p])  BY <1>9, ListsOn
<1>13. Own(p)'  BY <1>1, <1>9, <1>10, <1>11, <1>12, OwnWrites
<1> QED  BY <1>10, <1>13, StepOnBranch

(***************************************************************************)
(* A lesson or a level that is added or moved                              *)
(***************************************************************************)

\* A lesson that is written hangs from a row of the branches it is on.
LEMMA LessonJoins ==
    ASSUME TInv, BInv, NEW p \in Requests, NEW s \in Lessons, s \in reach[p],
           NEW l \in Levels, l \in reach[p], NEW row, row.level = l,
           UNCHANGED <<grade, level, item, question>>, DOMAIN lesson' = Lessons,
           \A t \in Lessons : lesson'[t] = IF t = s THEN row ELSE lesson[t],
           reach' = Joined(s, Upward({}, {l}, {})),
           lesson[s] = None => Adding(p, "addLesson", "lesson", s)
    PROVE  /\ Moves(p) /\ Grows(p) /\ Appears(p) /\ Carries
           /\ \A q \in Requests : Closed(reach[q])'
<1> DEFINE up == Upward({}, {l}, {})
<1>1. Branches /\ \A q \in Requests : Closed(reach[q])  BY DEF BInv, Branches
<1>2. Closed(up) /\ l \in up /\ up \subseteq reach[p]
  <2>1. {} \in SUBSET Lessons /\ {l} \in SUBSET Levels /\ {} \in SUBSET Grades  OBVIOUS
  <2> DEFINE ls == {l}
  <2>2. {} \cup ls \cup {} \subseteq reach[p]  OBVIOUS
  <2>3. ls \in SUBSET Levels  OBVIOUS
  <2> HIDE DEF ls
  <2>4. Closed(up) /\ {} \cup ls \cup {} \subseteq up
    BY <2>1, <2>3, UpwardClosed DEF ls
  <2>5. up \subseteq reach[p]  BY <1>1, <2>1, <2>2, <2>3, UpwardClosed DEF ls
  <2> QED  BY <2>4, <2>5 DEF ls
<1>3. reach' = Joined(s, up)  OBVIOUS
<1> HIDE DEF up
<1>4. /\ Grows(p)
      /\ \A q \in Requests : /\ s \in reach[q] => reach'[q] = reach[q] \cup up
                             /\ s \notin reach[q] => reach'[q] = reach[q]
  <2>1. /\ DOMAIN reach' = Requests
        /\ \A q \in Requests : /\ s \in reach[q] => reach'[q] = reach[q] \cup up
                               /\ s \notin reach[q] => reach'[q] = reach[q]
    BY <1>3 DEF Joined
  <2>2. reach'[p] = reach[p]
    <3>1. reach'[p] = reach[p] \cup up  BY <2>1
    <3>2. reach[p] \cup up = reach[p]  BY <1>2
    <3> QED  BY <3>1, <3>2
  <2>3. Grows(p)  BY <1>2, <2>1, <2>2 DEF Grows
  <2> QED  BY <2>1, <2>3
<1>5. Moves(p) /\ Appears(p)  BY DEF Moves, Appears
<1>6. Carries
  <2>1. \A q \in Requests : reach[q] \subseteq reach'[q]  BY <1>4
  <2> QED  BY <2>1 DEF Carries, TInv, Tabled
<1>7. ASSUME NEW q \in Requests PROVE Closed(reach[q])'
  <2>1. Closed(reach'[q])
    <3>1. Closed(reach[q]) /\ Closed(reach[q] \cup up)  BY <1>1, <1>2, ClosedJoins
    <3> QED  BY <1>4, <3>1
  <2>2. ASSUME NEW t \in There(lesson)', t \in reach'[q] PROVE lesson'[t].level \in reach'[q]
    <3>1. t \in Lessons /\ lesson'[t] # None  BY DEF There
    <3>2. CASE t = s
      <4>1. s \in reach[q]  BY <1>4, <2>2, <3>2
      <4> QED  BY <1>2, <1>4, <3>1, <3>2, <4>1
    <3>3. CASE t # s
      <4>1. t \in There(lesson) /\ lesson'[t] = lesson[t]
        BY <3>1, <3>3 DEF There, TInv, Tabled
      <4> QED  BY <2>1, <2>2, <4>1 DEF Closed
    <3> QED  BY <3>2, <3>3
  <2> QED  BY <2>1, <2>2 DEF Closed, There
<1> QED  BY <1>4, <1>5, <1>6, <1>7

\* So does a level.
LEMMA LevelJoins ==
    ASSUME TInv, BInv, NEW p \in Requests, NEW l \in Levels, l \in reach[p],
           NEW g \in Grades, g \in reach[p], NEW row, row.grade = g,
           UNCHANGED <<grade, lesson, item, question>>, DOMAIN level' = Levels,
           \A m \in Levels : level'[m] = IF m = l THEN row ELSE level[m],
           reach' = Joined(l, {g}),
           level[l] = None => Adding(p, "addLevel", "level", l)
    PROVE  /\ Moves(p) /\ Grows(p) /\ Appears(p) /\ Carries
           /\ \A q \in Requests : Closed(reach[q])'
<1> DEFINE up == {g}
<1>1. Branches /\ \A q \in Requests : Closed(reach[q])  BY DEF BInv, Branches
<1>2. Closed(up) /\ g \in up /\ up \subseteq reach[p]
  <2>1. There(lesson) \subseteq Lessons /\ There(level) \subseteq Levels  BY ThereIs DEF TInv
  <2>2. (Lessons \cup Levels) \cap Grades = {}
    BY CurriculumTreeAssumed DEF CurriculumTreeAssumption
  <2> QED  BY <2>1, <2>2 DEF Closed, Rows
<1>3. reach' = Joined(l, up)  OBVIOUS
<1> HIDE DEF up
<1>4. /\ Grows(p)
      /\ \A q \in Requests : /\ l \in reach[q] => reach'[q] = reach[q] \cup up
                             /\ l \notin reach[q] => reach'[q] = reach[q]
  <2>1. /\ DOMAIN reach' = Requests
        /\ \A q \in Requests : /\ l \in reach[q] => reach'[q] = reach[q] \cup up
                               /\ l \notin reach[q] => reach'[q] = reach[q]
    BY <1>3 DEF Joined
  <2>2. reach'[p] = reach[p]
    <3>1. reach'[p] = reach[p] \cup up  BY <2>1
    <3>2. reach[p] \cup up = reach[p]  BY <1>2
    <3> QED  BY <3>1, <3>2
  <2>3. Grows(p)  BY <1>2, <2>1, <2>2 DEF Grows
  <2> QED  BY <2>1, <2>3
<1>5. Moves(p) /\ Appears(p)  BY DEF Moves, Appears
<1>6. Carries
  <2>1. \A q \in Requests : reach[q] \subseteq reach'[q]  BY <1>4
  <2> QED  BY <2>1 DEF Carries, TInv, Tabled
<1>7. ASSUME NEW q \in Requests PROVE Closed(reach[q])'
  <2>1. Closed(reach'[q])
    <3>1. Closed(reach[q]) /\ Closed(reach[q] \cup up)  BY <1>1, <1>2, ClosedJoins
    <3> QED  BY <1>4, <3>1
  <2>2. ASSUME NEW t \in There(level)', t \in reach'[q] PROVE level'[t].grade \in reach'[q]
    <3>1. t \in Levels /\ level'[t] # None  BY DEF There
    <3>2. CASE t = l
      <4>1. l \in reach[q]
        <5>1. (Lessons \cup Levels) \cap Grades = {}
          BY CurriculumTreeAssumed DEF CurriculumTreeAssumption
        <5> QED  BY <1>4, <2>2, <3>2, <5>1 DEF up
      <4> QED  BY <1>2, <1>4, <3>1, <3>2, <4>1
    <3>3. CASE t # l
      <4>1. t \in There(level) /\ level'[t] = level[t]
        BY <3>1, <3>3 DEF There, TInv, Tabled
      <4> QED  BY <2>1, <2>2, <4>1 DEF Closed
    <3> QED  BY <3>2, <3>3
  <2> QED  BY <2>1, <2>2 DEF Closed, There
<1> QED  BY <1>4, <1>5, <1>6, <1>7

\* A lesson that is added, moved, dropped or switched.
LEMMA WriteLessonOn ==
    ASSUME Given, IInv, TInv, TInv', BInv, NEW p \in Requests, WriteLesson(p)
    PROVE  Acts(p) /\ BInv'
<1> DEFINE a == ask[p]  s == a.lesson  old == mem[p].row
<1>1. /\ Does(p, "write")
      /\ UNCHANGED <<grade, level, item, question, ask, unsaved, clean>>
      /\ a.do \in {"addLesson"} \cup OfLesson
      /\ a.do \in {"addLesson", "editLesson"} => reach' = Joined(s, Upward({}, {a.level}, {}))
      /\ a.do \notin {"addLesson", "editLesson"} => reach' = reach
  BY DEF WriteLesson, OfLesson
<1>2. /\ todo[p] # <<>> /\ a \in AskRow /\ a # None
      /\ s # None => s \in reach[p]
      /\ a.level # None => a.level \in reach[p]
      /\ a.do \in OfLesson => old.level \in reach[p]
  BY <1>1, WriteOn
<1>3. s \in Lessons /\ (a.do \in {"addLesson", "editLesson"} => a.level \in Levels)
  BY <1>1, <1>2, AskedRows DEF Given
<1>4. None \notin Lessons \cup Levels  BY CurriculumTreeAssumed DEF CurriculumTreeAssumption
<1>5. s \in reach[p] /\ (a.do \in {"addLesson", "editLesson"} => a.level \in reach[p])
  BY <1>2, <1>3, <1>4
<1>6. /\ DOMAIN lesson = Lessons /\ DOMAIN lesson' = Lessons
      /\ a.do \in OfLesson => s \in There(lesson) /\ lesson[s] # None /\ lesson[s] \in LessonRow
  <2>1. a.do \in OfLesson => s \in There(lesson)  BY <1>1, AtWrite DEF RowInHand
  <2> QED  BY <2>1, ThereIs DEF TInv, Tabled, There
<1>7. \E steps, held : /\ Continue(p, steps, held) /\ OnBranch(steps, reach[p])
                       /\ steps # <<>> /\ steps[1].at \in {"lesson", "level"}
  <2>1. \A l : Reload(l) # <<>> /\ Reload(l)[1].at = "level"
    <3>1. \A l : Reload(l) # <<>> /\ Reload(l)[1] = At("level", l)  BY ListsInOrder
    <3>2. \A l : At("level", l).at = "level"  BY DEF At
    <3> QED  BY <3>1, <3>2
  <2>2. CASE a.do = "addLesson"
    <3>1. Continue(p, Reload(a.level), mem[p])  BY <2>2 DEF WriteLesson
    <3> QED  BY <1>5, <2>1, <2>2, <3>1, ListsOn
  <2>3. CASE a.do = "editLesson"
    <3>1. Continue(p, Recount(s) \o (IF old.level # a.level THEN Reload(old.level) ELSE <<>>), mem[p])
      BY <2>3 DEF WriteLesson
    <3>2. Recount(s) \o <<>> = Recount(s) /\ Recount(s)[1].at = "lesson" /\ Recount(s) # <<>>
      BY DEF Recount, At
    <3>3. CASE old.level = a.level
      BY <1>5, <2>3, <3>1, <3>2, <3>3, ListsOn
    <3>4. CASE old.level # a.level
      <4> DEFINE rest == Reload(old.level)  steps == Recount(s) \o rest
      <4>1. Continue(p, steps, mem[p])  BY <3>1, <3>4
      <4>2. OnBranch(Recount(s), reach[p]) /\ OnBranch(rest, reach[p])
        BY <1>2, <1>5, <2>3, ListsOn DEF OfLesson
      <4>3. OnBranch(steps, reach[p])
        <5>1. OnBranch(Recount(s), reach[p]) /\ old.level \in reach[p]
          BY <1>2, <2>3, <4>2 DEF OfLesson
        <5> QED  BY <5>1, ListsOn
      <4>4. IsSeq(Recount(s)) /\ IsSeq(rest)  BY <4>2 DEF OnBranch
      <4> HIDE DEF rest
      <4>5. steps # <<>> /\ steps[1] = Recount(s)[1]
        BY <3>2, <4>4, HeadOfJoin
      <4> HIDE DEF steps
      <4> QED  BY <3>2, <4>1, <4>3, <4>5
    <3> QED  BY <3>3, <3>4
  <2>4. CASE a.do \in {"dropLesson", "switchLesson"}
    <3>1. Continue(p, Reload(old.level), mem[p])  BY <2>4 DEF WriteLesson
    <3> QED  BY <1>2, <2>1, <2>4, <3>1, ListsOn DEF OfLesson
  <2> QED  BY <1>1, <2>2, <2>3, <2>4 DEF OfLesson
<1>8. Acts(p) /\ \A q \in Requests : Closed(reach[q])'
  <2>1. CASE a.do \in {"addLesson", "editLesson"}
    <3>1. \E row : /\ row.level = a.level
                   /\ \A t \in Lessons : lesson'[t] = IF t = s THEN row ELSE lesson[t]
      <4>1. CASE a.do = "addLesson"
        <5> DEFINE row == [level |-> a.level, on |-> TRUE, deleted |-> FALSE, total |-> Total,
                           shares |-> [c \in Columns |-> 0]]
        <5>1. lesson' = [lesson EXCEPT ![s] = row]  BY <4>1 DEF WriteLesson
        <5>2. row.level = a.level  OBVIOUS
        <5> HIDE DEF row
        <5> QED  BY <1>3, <1>6, <5>1, <5>2
      <4>2. CASE a.do = "editLesson"
        <5> DEFINE row == [[lesson[s] EXCEPT !.level = a.level] EXCEPT !.total = Total]
        <5>1. lesson' = [lesson EXCEPT ![s].level = a.level, ![s].total = Total]
          BY <4>2 DEF WriteLesson
        <5>2. \A t \in Lessons : lesson'[t] = IF t = s THEN row ELSE lesson[t]  BY <1>6, <5>1
        <5>3. row.level = a.level  BY <1>6, <4>2 DEF LessonRow, OfLesson
        <5> HIDE DEF row
        <5> QED  BY <5>2, <5>3
      <4> QED  BY <2>1, <4>1, <4>2
    <3>2. lesson[s] = None => Adding(p, "addLesson", "lesson", s)
      BY <1>1, <1>6, <2>1 DEF Adding, OfLesson
    <3>3. /\ Moves(p) /\ Grows(p) /\ Appears(p) /\ Carries /\ \A q \in Requests : Closed(reach[q])'
      <4>1. a.level \in Levels /\ a.level \in reach[p] /\ reach' = Joined(s, Upward({}, {a.level}, {}))
        BY <1>1, <1>3, <1>5, <2>1
      <4> QED  BY <1>1, <1>3, <1>5, <1>6, <3>1, <3>2, <4>1, LessonJoins
    <3> QED  BY <1>1, <1>2, <1>7, <3>3, WriteActs
  <2>2. CASE a.do \in {"dropLesson", "switchLesson"}
    <3>0. a.on \in BOOLEAN  BY <1>2 DEF AskRow
    <3>1. lesson' = lesson \/ \E row : /\ row.level = lesson[s].level /\ row \in LessonRow
                                       /\ \A t \in Lessons : lesson'[t] = IF t = s THEN row ELSE lesson[t]
      <4>1. CASE a.do = "dropLesson"
        <5> DEFINE row == [lesson[s] EXCEPT !.deleted = TRUE]
        <5>1. lesson' = [lesson EXCEPT ![s].deleted = TRUE]  BY <4>1 DEF WriteLesson
        <5>2. \A t \in Lessons : lesson'[t] = IF t = s THEN row ELSE lesson[t]  BY <1>6, <5>1
        <5>3. row.level = lesson[s].level /\ row \in LessonRow  BY <1>6, <4>1 DEF LessonRow, OfLesson
        <5> HIDE DEF row
        <5> QED  BY <5>2, <5>3
      <4>2. CASE a.do = "switchLesson"
        <5> DEFINE row == [lesson[s] EXCEPT !.on = a.on]
        <5>1. lesson' = lesson \/ lesson' = [lesson EXCEPT ![s].on = a.on]  BY <4>2 DEF WriteLesson
        <5>2. lesson' = lesson \/ \A t \in Lessons : lesson'[t] = IF t = s THEN row ELSE lesson[t]
          BY <1>6, <5>1
        <5>3. row.level = lesson[s].level /\ row \in LessonRow  BY <1>6, <3>0, <4>2 DEF LessonRow, OfLesson
        <5> HIDE DEF row
        <5> QED  BY <5>2, <5>3
      <4> QED  BY <2>2, <4>1, <4>2
    <3>2. reach' = reach  BY <1>1, <2>2
    <3>3. lesson'[s] # None
      <4>1. None \notin LessonRow  BY CurriculumTreeAssumed DEF CurriculumTreeAssumption
      <4> QED  BY <1>3, <1>6, <2>2, <3>1, <4>1 DEF OfLesson
    <3>4. Tuned(p)  BY <1>1, <1>5, <1>6, <2>2, <3>1, <3>2, <3>3 DEF Tuned, OfLesson
    <3> QED  BY <1>1, <1>2, <1>7, <3>4, TunedActs, NothingSent
  <2> QED  BY <1>1, <2>1, <2>2 DEF OfLesson
<1>9. Own(p)'  BY <1>1, <1>7, <1>8, OwnWrites
<1> QED  BY <1>8, <1>9, StepOnBranch

\* A level that is added, moved, dropped or switched.
LEMMA WriteLevelOn ==
    ASSUME Given, IInv, TInv, TInv', BInv, NEW p \in Requests, WriteLevel(p)
    PROVE  Acts(p) /\ BInv'
<1> DEFINE a == ask[p]  l == a.level  old == mem[p].row
           new == [grade |-> a.grade, on |-> TRUE, deleted |-> FALSE, worth |-> a.n, points |-> 0]
<1>1. /\ Does(p, "write")
      /\ UNCHANGED <<grade, lesson, item, question, ask, unsaved, clean>>
      /\ a.do \in {"addLevel"} \cup OfLevel
      /\ a.do \in {"addLevel", "editLevel"} => reach' = Joined(l, {a.grade})
      /\ a.do \notin {"addLevel", "editLevel"} => reach' = reach
  BY DEF WriteLevel, OfLevel
<1>2. /\ todo[p] # <<>> /\ a \in AskRow /\ a # None
      /\ l # None => l \in reach[p]
      /\ a.grade # None => a.grade \in reach[p]
      /\ a.do \in OfLevel => old.grade \in reach[p]
  BY <1>1, WriteOn
<1>3. l \in Levels /\ (a.do \in {"addLevel", "editLevel"} => a.grade \in Grades)
  BY <1>1, <1>2, AskedRows DEF Given
<1>4. None \notin Grades \cup Levels  BY CurriculumTreeAssumed DEF CurriculumTreeAssumption
<1>5. l \in reach[p] /\ (a.do \in {"addLevel", "editLevel"} => a.grade \in reach[p])
  BY <1>2, <1>3, <1>4
<1>6. /\ DOMAIN level = Levels /\ DOMAIN level' = Levels
      /\ a.do \in OfLevel => /\ l \in There(level) /\ level[l] # None /\ level[l] \in LevelRow
                             /\ old \in LevelRow
      /\ mem[p] \in MemRow
  <2>1. /\ mem[p] \in MemRow
        /\ a.do \in OfLevel => l \in There(level) /\ old \in LevelRow
    BY <1>1, AtWrite DEF RowInHand
  <2> QED  BY <2>1, ThereIs DEF TInv, Tabled, There
<1>7. \E steps, held : /\ Continue(p, steps, held) /\ OnBranch(steps, reach[p])
                       /\ steps # <<>> => \/ steps[1].at \in {"lesson", "level", "grade"}
                                          \/ steps[1].at = "sum" /\ held.level.grade \in reach[p]
  <2>1. /\ \A m : Resum(m) # <<>> /\ Resum(m)[1].at = "sum" /\ IsSeq(Resum(m))
        /\ \A g : Regrade(g) # <<>> /\ Regrade(g)[1].at = "grade"
    <3>1. \A m : Resum(m) # <<>> /\ Resum(m)[1] = At("sum", m) /\ IsSeq(Resum(m))  BY ListsInOrder
    <3>2. \A m : At("sum", m).at = "sum" /\ At("grade", m).at = "grade"  BY DEF At
    <3>3. \A g : Regrade(g) # <<>> /\ Regrade(g)[1] = At("grade", g)  BY DEF Regrade
    <3> QED  BY <3>1, <3>2, <3>3
  <2>2. \A v : Hold(p, "level", v).level = v  BY <1>6 DEF Hold, MemRow
  <2>3. CASE a.do = "addLevel"
    <3>1. Continue(p, Resum(l), Hold(p, "level", [new EXCEPT !.points = None]))  BY <2>3 DEF WriteLevel
    <3> DEFINE row == [new EXCEPT !.points = None]  held == Hold(p, "level", row)
    <3>2. row.grade = a.grade  OBVIOUS
    <3>3. held.level.grade \in reach[p]  BY <1>5, <2>2, <2>3, <3>2
    <3>4. Continue(p, Resum(l), held)  BY <3>1
    <3> HIDE DEF held
    <3>5. OnBranch(Resum(l), reach[p])  BY <1>5, ListsOn
    <3> QED  BY <2>1, <3>3, <3>4, <3>5
  <2>4. CASE a.do = "editLevel"
    <3> DEFINE row == [old EXCEPT !.grade = a.grade, !.worth = a.n]  held == Hold(p, "level", row)
    <3>1. Continue(p, Resum(l) \o (IF old.grade # a.grade THEN Regrade(old.grade) ELSE <<>>), held)
      BY <2>4 DEF WriteLevel
    <3>2. row.grade = a.grade  BY <1>6, <2>4 DEF OfLevel, LevelRow
    <3>3. held.level.grade \in reach[p]  BY <1>5, <2>2, <2>4, <3>2
    <3> HIDE DEF held
    <3>4. Resum(l) \o <<>> = Resum(l)  BY DEF Resum
    <3>5. CASE old.grade = a.grade
      BY <1>5, <2>1, <3>1, <3>3, <3>4, <3>5, ListsOn
    <3>6. CASE old.grade # a.grade
      <4> DEFINE rest == Regrade(old.grade)  steps == Resum(l) \o rest
      <4>1. Continue(p, steps, held)  BY <3>1, <3>6
      <4>2. OnBranch(Resum(l), reach[p]) /\ old.grade \in reach[p] /\ OnBranch(rest, reach[p])
        BY <1>2, <1>5, <2>4, ListsOn DEF OfLevel
      <4>3. OnBranch(steps, reach[p])  BY <4>2, ListsOn
      <4>4. IsSeq(rest)  BY <4>2 DEF OnBranch
      <4> HIDE DEF rest
      <4>5. steps # <<>> /\ steps[1] = Resum(l)[1]  BY <2>1, <4>4, HeadOfJoin
      <4> HIDE DEF steps
      <4> QED  BY <2>1, <3>3, <4>1, <4>3, <4>5
    <3> QED  BY <3>5, <3>6
  <2>5. CASE a.do = "dropLevel"
    <3>1. Continue(p, Resum(l), Hold(p, "level", old))  BY <2>5 DEF WriteLevel
    <3> DEFINE held == Hold(p, "level", old)
    <3>3. held.level.grade \in reach[p]  BY <1>2, <2>2, <2>5 DEF OfLevel
    <3>4. Continue(p, Resum(l), held)  BY <3>1
    <3> HIDE DEF held
    <3>5. OnBranch(Resum(l), reach[p])  BY <1>5, ListsOn
    <3> QED  BY <2>1, <3>3, <3>4, <3>5
  <2>6. CASE a.do = "switchLevel"
    <3>1. Continue(p, Regrade(old.grade), mem[p])  BY <2>6 DEF WriteLevel
    <3> QED  BY <1>2, <2>1, <2>6, <3>1, ListsOn DEF OfLevel
  <2> QED  BY <1>1, <2>3, <2>4, <2>5, <2>6 DEF OfLevel
<1>8. Acts(p) /\ \A q \in Requests : Closed(reach[q])'
  <2>1. CASE a.do \in {"addLevel", "editLevel"}
    <3>1. \E row : /\ row.grade = a.grade
                   /\ \A m \in Levels : level'[m] = IF m = l THEN row ELSE level[m]
      <4>1. CASE a.do = "addLevel"
        <5>1. level' = [level EXCEPT ![l] = new]  BY <4>1 DEF WriteLevel
        <5>2. new.grade = a.grade  OBVIOUS
        <5> HIDE DEF new
        <5> QED  BY <1>3, <1>6, <5>1, <5>2
      <4>2. CASE a.do = "editLevel"
        <5> DEFINE row == [[level[l] EXCEPT !.grade = a.grade] EXCEPT !.worth = a.n]
        <5>1. level' = [level EXCEPT ![l].grade = a.grade, ![l].worth = a.n]
          BY <4>2 DEF WriteLevel
        <5>2. \A m \in Levels : level'[m] = IF m = l THEN row ELSE level[m]  BY <1>6, <5>1
        <5>3. row.grade = a.grade  BY <1>6, <4>2 DEF LevelRow, OfLevel
        <5> HIDE DEF row
        <5> QED  BY <5>2, <5>3
      <4> QED  BY <2>1, <4>1, <4>2
    <3>2. level[l] = None => Adding(p, "addLevel", "level", l)
      BY <1>1, <1>6, <2>1 DEF Adding, OfLevel
    <3>3. /\ Moves(p) /\ Grows(p) /\ Appears(p) /\ Carries /\ \A q \in Requests : Closed(reach[q])'
      <4>1. a.grade \in Grades /\ a.grade \in reach[p] /\ reach' = Joined(l, {a.grade})
        BY <1>1, <1>3, <1>5, <2>1
      <4> QED  BY <1>1, <1>3, <1>5, <1>6, <3>1, <3>2, <4>1, LevelJoins
    <3> QED  BY <1>1, <1>2, <1>7, <3>3, WriteActs
  <2>2. CASE a.do \in {"dropLevel", "switchLevel"}
    <3>0. a.on \in BOOLEAN  BY <1>2 DEF AskRow
    <3>1. level' = level \/ \E row : /\ row.grade = level[l].grade /\ row \in LevelRow
                                     /\ \A m \in Levels : level'[m] = IF m = l THEN row ELSE level[m]
      <4>1. CASE a.do = "dropLevel"
        <5> DEFINE row == [level[l] EXCEPT !.deleted = TRUE]
        <5>1. level' = [level EXCEPT ![l].deleted = TRUE]  BY <4>1 DEF WriteLevel
        <5>2. \A m \in Levels : level'[m] = IF m = l THEN row ELSE level[m]  BY <1>6, <5>1
        <5>3. row.grade = level[l].grade /\ row \in LevelRow  BY <1>6, <4>1 DEF LevelRow, OfLevel
        <5> HIDE DEF row
        <5> QED  BY <5>2, <5>3
      <4>2. CASE a.do = "switchLevel"
        <5> DEFINE row == [level[l] EXCEPT !.on = a.on]
        <5>1. level' = level \/ level' = [level EXCEPT ![l].on = a.on]  BY <4>2 DEF WriteLevel
        <5>2. level' = level \/ \A m \in Levels : level'[m] = IF m = l THEN row ELSE level[m]
          BY <1>6, <5>1
        <5>3. row.grade = level[l].grade /\ row \in LevelRow  BY <1>6, <3>0, <4>2 DEF LevelRow, OfLevel
        <5> HIDE DEF row
        <5> QED  BY <5>2, <5>3
      <4> QED  BY <2>2, <4>1, <4>2
    <3>2. reach' = reach  BY <1>1, <2>2
    <3>3. level'[l] # None
      <4>1. None \notin LevelRow  BY CurriculumTreeAssumed DEF CurriculumTreeAssumption
      <4> QED  BY <1>3, <1>6, <2>2, <3>1, <4>1 DEF OfLevel
    <3>4. Tuned(p)  BY <1>1, <1>5, <1>6, <2>2, <3>1, <3>2, <3>3 DEF Tuned, OfLevel
    <3> QED  BY <1>1, <1>2, <1>7, <3>4, TunedActs, NothingSent
  <2> QED  BY <1>1, <2>1, <2>2 DEF OfLevel
<1>9. Own(p)'  BY <1>1, <1>7, <1>8, OwnWrites
<1> QED  BY <1>8, <1>9, StepOnBranch

(***************************************************************************)
(* A request begins; the branches of every step                            *)
(***************************************************************************)

\* A request begins with reading, writing or listing.
LEMMA FirstOnes ==
    ASSUME NEW a \in AskRow
    PROVE  /\ \/ FirstSteps(a) \in Beginnings
              \/ \A b \in ToSet(FirstSteps(a)) : b.at \in {"check", "list"}
           /\ \A b \in ToSet(FirstSteps(a)) : b.at \in Early \cup {"check", "list"}
           /\ FirstSteps(a) # <<>> /\ Head(FirstSteps(a)) \in ToSet(FirstSteps(a))
           /\ Once(FirstSteps(a)) /\ Leads(FirstSteps(a))
           /\ Head(FirstSteps(a)).at = "write" =>
                 a.do \in {"addItem", "addLesson", "addLevel", "addQuestion"}
<1>0. \A x, y : At(x, y).at = x  BY DEF At
<1>1. \A s : IsSeq(s) /\ s # <<>> => Head(s) \in ToSet(s)  BY Elements
<1>2. \A s : (\A b \in ToSet(s) : b.at \in Early \cup {"check", "list"}) => Once(s) /\ Leads(s)
  BY OnceGoes, LeadsGo DEF Early
<1>3. \A x : /\ IsSeq(<<x>>) /\ ToSet(<<x>>) = {x} /\ <<x>> # <<>> /\ Head(<<x>>) = x
  <2>1. ASSUME NEW x PROVE IsSeq(<<x>>) /\ ToSet(<<x>>) = {x} /\ <<x>> # <<>> /\ Head(<<x>>) = x
    <3>1. DOMAIN <<x>> = {1} /\ <<x>>[1] = x  OBVIOUS
    <3> QED  BY <3>1 DEF IsSeq, ToSet
  <2> QED  BY <2>1
<1>4. CASE a.do \in {"addItem", "addLesson", "addLevel", "addQuestion"}
  <2> DEFINE x == At("write", None)
  <2>1. FirstSteps(a) = <<x>> /\ <<x>> \in Beginnings  BY <1>4 DEF FirstSteps, Bulk, Beginnings
  <2>2. x.at = "write"  BY <1>0
  <2> HIDE DEF x
  <2> QED  BY <1>1, <1>2, <1>3, <1>4, <2>1, <2>2 DEF Early
<1>5. CASE a.do \in Bulk
  <2> DEFINE x == At("scan", None)
  <2>1. FirstSteps(a) = <<x>> /\ <<x>> \in Beginnings  BY <1>5 DEF FirstSteps, Bulk, Beginnings
  <2>2. x.at = "scan"  BY <1>0
  <2> HIDE DEF x
  <2> QED  BY <1>1, <1>2, <1>3, <2>1, <2>2 DEF Early
<1>6. CASE a.do = "reorder"
  <2> DEFINE checks == [n \in DOMAIN a.list |-> At("check", a.list[n])]  y == At("list", None)
  <2>1. FirstSteps(a) = checks \o <<y>>  BY <1>6 DEF FirstSteps, Bulk
  <2>2. IsSeq(checks)
    <3>1. a.list \in Seq(Items)  BY DEF AskRow
    <3>2. Len(a.list) \in Nat /\ DOMAIN a.list = 1 .. Len(a.list)  BY <3>1
    <3> QED  BY <3>2, Literal
  <2>3. \A b \in ToSet(checks) : b.at = "check"  BY <1>0 DEF ToSet
  <2>4. y.at = "list"  BY <1>0
  <2> HIDE DEF checks, y
  <2>5. ToSet(checks \o <<y>>) = ToSet(checks) \cup {y} /\ IsSeq(checks \o <<y>>)
    BY <1>3, <2>2, Elements
  <2>6. checks \o <<y>> # <<>>  BY <2>5, Elements
  <2>7. \A b \in ToSet(FirstSteps(a)) : b.at \in {"check", "list"}  BY <2>1, <2>3, <2>4, <2>5
  <2>8. Head(FirstSteps(a)) \in ToSet(FirstSteps(a))  BY <1>1, <2>1, <2>5, <2>6
  <2> QED  BY <1>2, <2>1, <2>6, <2>7, <2>8
<1>7. CASE a.do \in OfItem \cup OfLesson \cup OfLevel \cup OfQuestion
  <2> DEFINE x == At("read", None)  y == At("write", None)
  <2>1. FirstSteps(a) = <<x, y>> /\ <<x, y>> \in Beginnings
    BY <1>7 DEF FirstSteps, Bulk, OfItem, OfLesson, OfLevel, OfQuestion, Beginnings
  <2>2. x.at = "read" /\ y.at = "write"  BY <1>0
  <2> HIDE DEF x, y
  <2>3. DOMAIN <<x, y>> = {1, 2} /\ <<x, y>>[1] = x /\ <<x, y>>[2] = y /\ Head(<<x, y>>) = x
        /\ <<x, y>> # <<>>
    OBVIOUS
  <2>4. ToSet(<<x, y>>) = {x, y}  BY <2>3 DEF ToSet
  <2> QED  BY <1>2, <2>1, <2>2, <2>3, <2>4 DEF Early
<1> QED  BY <1>4, <1>5, <1>6, <1>7 DEF AskRow, Bulk, OfItem, OfLesson, OfLevel, OfQuestion

\* Who begins is on the branch it names; who shared it is not clean any more.
LEMMA BeginOn ==
    ASSUME Given, IInv, TInv, BInv, NEW p \in Requests, Begin(p)
    PROVE  BInv'
<1> DEFINE a == ask[p]  mine == Named(a)  steps == FirstSteps(a)
<1>1. /\ status[p] = "idle" /\ a # None
      /\ status' = [status EXCEPT ![p] = "running"] /\ todo' = [todo EXCEPT ![p] = steps]
      /\ reach' = [reach EXCEPT ![p] = mine]
      /\ clean' = [q \in Requests |->
            IF q = p THEN \A r \in Requests : Settled(r) \/ reach[r] \cap mine = {}
            ELSE clean[q] /\ reach[q] \cap mine = {}]
      /\ UNCHANGED <<grade, level, lesson, item, question, ask, mem, unsaved>>
  BY DEF Begin, tables
<1>2. a \in AskRow  BY <1>1, AskedRows DEF Given
<1>3. DOMAIN reach = Requests /\ DOMAIN todo = Requests /\ DOMAIN status = Requests
  BY DEF BInv, Branches, IInv, Todos, TInv, Going, Running
<1>4. /\ todo'[p] = steps /\ reach'[p] = mine /\ status'[p] = "running"
      /\ \A q \in Requests \ {p} : todo'[q] = todo[q] /\ reach'[q] = reach[q] /\ status'[q] = status[q]
      /\ DOMAIN reach' = Requests
  BY <1>1, <1>3
<1>5. /\ Closed(mine) /\ AskOn(a, mine) /\ (a.do \in Bulk => mine = Rows)
  BY <1>2, NamedClosed
<1>6. /\ steps \in Beginnings \/ \A b \in ToSet(steps) : b.at \in {"check", "list"}
      /\ \A b \in ToSet(steps) : b.at \in Early \cup {"check", "list"}
      /\ steps # <<>> /\ Head(steps) \in ToSet(steps) /\ Once(steps) /\ Leads(steps)
      /\ Head(steps).at = "write" => a.do \in {"addItem", "addLesson", "addLevel", "addQuestion"}
  BY <1>2, FirstOnes
<1> HIDE DEF mine, steps
<1>7. \A w \in unsaved : w.by # p  BY <1>1 DEF BInv, Shapes, Ordered
<1>8. Branches'
  <2>1. \A q \in Requests : Closed(reach'[q])
    <3>1. \A q \in Requests : Closed(reach[q])  BY DEF BInv, Branches
    <3> QED  BY <1>4, <1>5, <3>1
  <2>2. \A q \in Requests : Closed(reach[q])'  BY <1>1, <2>1 DEF Closed, There
  <2>3. ASSUME NEW q \in Requests PROVE Inside(q)'
    <3>1. CASE q = p
      <4>2. \A b \in ToSet(steps) : StepOn(b, mine)
        BY <1>6 DEF StepOn, Early, ForLesson, ForLevel, ForGrade
      <4>3. HeldOn(a, Head(steps).at, mem[p], mine)
        BY <1>6 DEF HeldOn, OfItem, OfLesson, OfLevel, OfQuestion, Early
      <4>4. AskOn(ask[p], reach[p])'
        BY <1>1, <1>4, <1>5 DEF AskOn
      <4> QED  BY <1>1, <1>4, <3>1, <4>2, <4>3, <4>4 DEF Inside
    <3>2. CASE q # p
      <4>1. Inside(q)  BY DEF BInv, Branches
      <4> QED  BY <1>1, <1>4, <3>2, <4>1 DEF Inside, AskOn
    <3> QED  BY <3>1, <3>2
  <2>4. ASSUME NEW q \in Requests PROVE Wide(q)'
    <3>1. Wide(q)  BY DEF BInv, Branches
    <3> QED  BY <1>1, <1>4, <1>5, <3>1 DEF Wide
  <2> QED  BY <1>4, <2>2, <2>3, <2>4 DEF Branches
<1>9. SavesOn'
  <2>1. \A w \in unsaved : w.by \in Requests \ {p}  BY <1>7 DEF TInv, SavesTyped
  <2> QED  BY <1>1, <1>4, <2>1 DEF BInv, SavesOn, SaveOn
<1>10. Unmade'
  <2>1. \A q \in Requests : Does(q, "write")' /\ q # p => Does(q, "write")  BY <1>4 DEF Does
  <2> QED  BY <1>1, <1>4, <2>1 DEF BInv, Unmade, MadeNew
<1>11. \A q \in Requests \ {p} : Settled(q)' <=> Settled(q)  BY <1>1, <1>4 DEF Settled
<1>12. Alone'
  <2>1. ASSUME NEW q \in Requests, clean'[q], status'[q] # "idle", NEW r \in Requests \ {q}
        PROVE  Settled(r)' \/ reach'[r] \cap reach'[q] = {}
    <3>1. CASE q = p
      <4>1. Settled(r) \/ reach[r] \cap mine = {}  BY <1>1, <2>1, <3>1
      <4> QED  BY <1>4, <1>11, <3>1, <4>1
    <3>2. CASE q # p
      <4>1. clean[q] /\ reach[q] \cap mine = {}  BY <1>1, <2>1, <3>2
      <4>2. CASE r = p  BY <1>4, <3>2, <4>1, <4>2
      <4>3. CASE r # p
        <5>1. Settled(r) \/ reach[r] \cap reach[q] = {}
          BY <1>4, <2>1, <3>2, <4>1 DEF BInv, Alone, Apart
        <5> QED  BY <1>4, <1>11, <3>2, <4>3, <5>1
      <4> QED  BY <4>2, <4>3
    <3> QED  BY <3>1, <3>2
  <2> QED  BY <2>1 DEF Alone, Apart
<1>13. Shapes'
  <2>1. ASSUME NEW q \in Requests PROVE Ordered(q)' /\ Once(todo'[q]) /\ Leads(todo'[q])
    <3>1. CASE q = p
      <4>1. steps \in Beginnings \/ \A b \in ToSet(steps) : b.at \notin Early
        BY <1>6 DEF Early
      <4> QED  BY <1>1, <1>4, <1>6, <1>7, <3>1, <4>1 DEF Ordered
    <3>2. CASE q # p  BY <1>1, <1>4, <3>2 DEF BInv, Shapes, Ordered
    <3> QED  BY <3>1, <3>2
  <2> QED  BY <2>1 DEF Shapes
<1> QED  BY <1>8, <1>9, <1>10, <1>12, <1>13 DEF BInv

\* At first nobody is on a branch.
LEMMA InitBInv == Init => BInv
<1> SUFFICES ASSUME Init PROVE BInv  OBVIOUS
<1>1. /\ todo = [p \in Requests |-> <<>>] /\ status = [p \in Requests |-> "idle"] /\ unsaved = {}
      /\ reach = [p \in Requests |-> {}] /\ ask \in Asks
  BY DEF Init
<1>2. PICK t \in Trees : /\ grade = t.grade /\ level = t.level /\ lesson = t.lesson
                         /\ item = t.item /\ question = t.question
  BY DEF Init
<1>3. Branches  BY <1>1 DEF Branches, Closed, Inside, Wide
<1>4. SavesOn  BY <1>1 DEF SavesOn
<1>5. ASSUME NEW p \in Requests, ask[p] # None
      PROVE  /\ ask[p].do = "addItem" => item[ask[p].item] = None
             /\ ask[p].do = "addLesson" => lesson[ask[p].lesson] = None
             /\ ask[p].do = "addLevel" => level[ask[p].level] = None
             /\ ask[p].do = "addQuestion" => question[ask[p].question] = None
  <2>1. \A f \in Makes(ask[p].do) : t[f][ask[p][f]] = None
    BY <1>1, <1>5, CurriculumTreeAssumed DEF AsksAssumption
  <2> QED  BY <1>2, <2>1 DEF Makes
<1>6. Unmade  BY <1>1, <1>5 DEF Unmade, MadeNew
<1>7. Alone  BY <1>1 DEF Alone, Apart
<1>8. Once(<<>>) /\ Leads(<<>>) /\ ToSet(<<>>) = {}  BY OnceGoes, LeadsGo, Elements
<1>9. Shapes  BY <1>1, <1>8 DEF Shapes, Ordered
<1> QED  BY <1>3, <1>4, <1>6, <1>7, <1>9 DEF BInv

\* Every step keeps requests and their saves on their branches.
LEMMA NextBInv == Given /\ IInv /\ TInv /\ TInv' /\ BInv /\ [Next]_vars => BInv'
<1> SUFFICES ASSUME Given, IInv, TInv, TInv', BInv, [Next]_vars PROVE BInv'  OBVIOUS
<1>1. ASSUME NEW p \in Requests,
             \/ Begin(p) \/ ReadRow(p)
             \/ WriteItem(p) \/ WriteLesson(p) \/ WriteLevel(p) \/ WriteQuestion(p)
             \/ Scan(p) \/ Refresh(p) \/ SetWorth(p)
      PROVE  BInv'
  BY <1>1, BeginOn, ReadRowOn, WriteItemOn, WriteLessonOn, WriteLevelOn, WriteQuestionOn,
     ScanOn, RefreshOn, SetWorthOn
<1>2. ASSUME NEW p \in Requests,
             \/ ReadLesson(p) \/ CountKind(p) \/ Spread(p) \/ SpreadRest(p)
             \/ ReadLevel(p) \/ SumLessons(p) \/ CountQuiz(p) \/ SaveLevel(p)
             \/ ReadGrade(p) \/ SumLevels(p) \/ SaveGrade(p)
      PROVE  BInv'
  BY <1>2, ReadLessonOn, SendsOn, SpreadOn, LevelReadsOn, SaveLevelOn, OtherReadsOn, SaveGradeOn
<1>3. ASSUME NEW p \in Requests,
             \/ CheckChild(p) \/ ListChildren(p) \/ Place(p) \/ CommitOrder(p)
             \/ Deadlocked(p) \/ Fail(p)
      PROVE  BInv'
  BY <1>3, OtherReadsOn, ListChildrenOn, CommitOrderOn
<1>4. ASSUME NEW w \in unsaved, Land(w) \/ LoseSave(w) PROVE BInv'
  BY <1>4, LandOn, LoseSaveOn
<1>5. CASE UNCHANGED vars
  <2>1. UNCHANGED <<grade, level, lesson, item, question, ask, status, todo, mem, unsaved, reach, clean>>
    BY <1>5 DEF vars, tables, ghosts
  <2>2. Branches'  BY <2>1 DEF BInv, Branches, Closed, Inside, Wide, There, AskOn
  <2>3. SavesOn' /\ Unmade' /\ Alone'
    BY <2>1 DEF BInv, SavesOn, SaveOn, Unmade, MadeNew, Does, Alone, Apart, Settled
  <2>4. Shapes'  BY <2>1 DEF BInv, Shapes, Ordered
  <2> QED  BY <2>2, <2>3, <2>4 DEF BInv
<1> QED  BY <1>1, <1>2, <1>3, <1>4, <1>5 DEF Next

\* Every request is on its branch, and who is clean has nobody at work beside it.
THEOREM BranchesInvariance == Spec => [](BInv /\ TInv /\ IInv /\ Given)
<1>1. Spec => [](TInv /\ IInv /\ Given)  BY TypesInvariance
<1>2. Init => BInv  BY InitBInv
<1>3. (TInv /\ IInv /\ Given) /\ (TInv /\ IInv /\ Given)' /\ BInv /\ [Next]_vars => BInv'
  BY NextBInv
<1> QED  BY <1>1, <1>2, <1>3, PTL DEF Spec
=============================================================================
