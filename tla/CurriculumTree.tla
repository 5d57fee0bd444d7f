--------------------------- MODULE CurriculumTree ---------------------------
(***************************************************************************)
(* The points of the curriculum tree.  A lesson's total is spread over its *)
(* items (learnings, practices, quizzes); a level's points are the totals  *)
(* of its lessons and its quiz, a grade's the points of its levels.  Every *)
(* request that changes the tree counts again, one query after another, in *)
(* no transaction and under no lock; some saves are not even awaited.  A   *)
(* reorder of a lesson's items does write in a transaction.                *)
(*                                                                         *)
(* A request runs once.  todo[p] is what is left of it: one awaited query  *)
(* after another, each with the row it is about.                           *)
(***************************************************************************)
EXTENDS Naturals, Sequences, FiniteSets, SequencesExt

CONSTANTS
    Grades, Levels, Lessons, Items, Questions,
    KindOf,         \* the table an item is a row of
    Requests,
    Asks,           \* functions on Requests; None: not made
    Trees,          \* the trees to begin with
    Total,          \* the total_points the controllers write
    BulkWorth,      \* the quiz_points of POST /level/update_quiz_points
    MaxFailures,    \* bound: queries that fail
    None

Kinds == <<"learning", "practice", "quiz">>
KindSet == {"learning", "practice", "quiz"}
Columns == KindSet \cup {"brick"}

LevelRow    == [grade : Grades, on : BOOLEAN, deleted : BOOLEAN, worth : Nat, points : Nat]
LessonRow   == [level : Levels, on : BOOLEAN, deleted : BOOLEAN, total : Nat,
                shares : [Columns -> Nat]]
ItemRow     == [lesson : Lessons, order : Nat, points : Nat]
QuestionRow == [level : Levels, on : BOOLEAN]

Bulk == {"allLessons", "allLevels"}

\* A request: what it does, the row it is about, and where that row is to go.
AskRow == [do : {"addItem", "dropItem", "editItem", "orderItem", "reorder",
                 "addLesson", "editLesson", "dropLesson", "switchLesson",
                 "addLevel", "editLevel", "dropLevel", "switchLevel",
                 "addQuestion", "dropQuestion", "switchQuestion"} \cup Bulk,
           item : Items \cup {None}, lesson : Lessons \cup {None}, level : Levels \cup {None},
           grade : Grades \cup {None}, question : Questions \cup {None},
           kind : KindSet, list : Seq(Items), on : BOOLEAN, n : Nat]

\* The rows a request names: the one it is about, and the one that is to go
\* under.  A new row has an id that nobody else can name yet.
Fields == {"item", "lesson", "level", "grade", "question"}
Names(do) ==
    CASE do \in {"addItem", "editItem"}            -> {"item", "lesson"}
      [] do \in {"dropItem", "orderItem"}          -> {"item"}
      [] do \in {"addLesson", "editLesson"}        -> {"lesson", "level"}
      [] do \in {"dropLesson", "switchLesson", "reorder"} -> {"lesson"}
      [] do \in {"addLevel", "editLevel"}          -> {"level", "grade"}
      [] do \in {"dropLevel", "switchLevel"}       -> {"level"}
      [] do = "addQuestion"                        -> {"question", "level"}
      [] do \in {"dropQuestion", "switchQuestion"} -> {"question"}
      [] OTHER                                     -> {}
Makes(do) ==
    CASE do = "addItem"  -> {"item"}  [] do = "addLesson"   -> {"lesson"}
      [] do = "addLevel" -> {"level"} [] do = "addQuestion" -> {"question"}
      [] OTHER -> {}
Under(do) ==
    CASE do \in {"addItem", "editItem"} -> {"lesson"}
      [] do \in {"addLesson", "editLesson", "addQuestion"} -> {"level"}
      [] OTHER -> {}

\* Foreign keys: what a row hangs from is there, in the tree and in a request.
AsksAssumption ==
    \A a \in Asks : \A p \in Requests : a[p] # None =>
        /\ \A f \in Fields : a[p][f] # None <=> f \in Names(a[p].do)
        /\ \A t \in Trees : /\ \A f \in Makes(a[p].do) : t[f][a[p][f]] = None
                            /\ \A f \in Under(a[p].do) : t[f][a[p][f]] # None
        /\ \A q \in Requests \ {p} : a[q] # None =>
              \A f \in Makes(a[p].do) : a[q][f] # a[p][f]

TreesAssumption ==
    \A t \in Trees :
        /\ \A i \in Items : t.item[i] # None => t.lesson[t.item[i].lesson] # None
        /\ \A s \in Lessons : t.lesson[s] # None => t.level[t.lesson[s].level] # None
        /\ \A x \in Questions : t.question[x] # None => t.level[t.question[x].level] # None

CurriculumTreeAssumption ==
    /\ IsFiniteSet(Lessons) /\ IsFiniteSet(Levels) /\ IsFiniteSet(Items)
    /\ Lessons \cap Levels = {} /\ (Lessons \cup Levels) \cap Grades = {}
    /\ KindOf \in [Items -> KindSet]
    /\ Asks \subseteq [Requests -> AskRow \cup {None}]
    /\ Total \in Nat \ {0} /\ BulkWorth \in Nat /\ MaxFailures \in Nat
    /\ None \notin LevelRow \cup LessonRow \cup ItemRow \cup QuestionRow \cup AskRow
    /\ None \notin Items \cup Lessons \cup Levels \cup Grades \cup Questions \cup Nat
    /\ \A t \in Trees :
          /\ t.grade \in [Grades -> Nat]
          /\ t.level \in [Levels -> LevelRow \cup {None}]
          /\ t.lesson \in [Lessons -> LessonRow \cup {None}]
          /\ t.item \in [Items -> ItemRow \cup {None}]
          /\ t.question \in [Questions -> QuestionRow \cup {None}]

ASSUME CurriculumTreeAssumed == CurriculumTreeAssumption /\ TreesAssumption /\ AsksAssumption

VARIABLES
    grade,      \* the points of each grade
    level, lesson, item, question,      \* the other tables; None: no such row
    ask, status, todo,
    mem,        \* mem[p]: the rows and numbers p holds, as read
    unsaved,    \* saves sent and not awaited
    draft,      \* draft[p]: the orders p wrote in its transaction
    listed,     \* the list of the last reorder of a lesson's items of a kind
    failures,
    reach,      \* reach[p]: the branch p is on
    clean       \* clean[p]: nothing failed for p, and nobody shared its branch

tables == <<grade, level, lesson, item, question>>
ghosts == <<reach, clean>>
vars == <<tables, ask, status, todo, mem, unsaved, draft, listed, failures, ghosts>>

(***************************************************************************)
(* Steps                                                                   *)
(***************************************************************************)

At(step, row) == [at |-> step, of |-> row]

\* updateGradePoints; updateLevelPoints with the level in hand; the level read
\* first; updatelearningpracticequiz, whose level is known when it has read.
Regrade(g)  == <<At("grade", g), At("sumGrade", g), At("saveGrade", g)>>
Resum(l)    == <<At("sum", l), At("quiz", l), At("saveLevel", l)>>
Reload(l)   == <<At("level", l)>> \o Resum(l)
Recount(s)  == <<At("lesson", s)>>
Respread(s) == [n \in 1..3 |-> At("count", <<s, Kinds[n]>>)]
                 \o [n \in 1..3 |-> At("spread", <<s, Kinds[n]>>)] \o <<At("last", s)>>

NoMem == [row |-> None, lesson |-> None, count |-> [k \in KindSet |-> 0],
          level |-> None, sum |-> 0, grade |-> 0]

Does(p, step) == todo[p] # <<>> /\ Head(todo[p]).at = step
Row(p) == Head(todo[p]).of
Hold(p, field, value) == [mem[p] EXCEPT ![field] = value]

\* p goes on with these steps, then what it still had to do; or it is done.
Continue(p, steps, held) ==
    LET rest == steps \o Tail(todo[p])
    IN  /\ todo' = [todo EXCEPT ![p] = rest]
        /\ mem' = [mem EXCEPT ![p] = IF rest = <<>> THEN NoMem ELSE held]
        /\ status' = [status EXCEPT ![p] = IF rest = <<>> THEN "done" ELSE @]

Stop(p, how) ==
    /\ todo' = [todo EXCEPT ![p] = <<>>]
    /\ mem' = [mem EXCEPT ![p] = NoMem]
    /\ status' = [status EXCEPT ![p] = how]

\* No other transaction has written one of these items.
Unlocked(p, items) == \A q \in Requests \ {p} : DOMAIN draft[q] \cap items = {}

ItemsOf(s) == { i \in Items : item[i] # None /\ item[i].lesson = s }
ItemsOfKind(s, k) == { i \in ItemsOf(s) : KindOf[i] = k }
Live(table) == { x \in DOMAIN table : table[x] # None /\ table[x].on /\ ~table[x].deleted }
LiveLessons(l) == { s \in Live(lesson) : lesson[s].level = l }
LiveLevels(g) == { l \in Live(level) : level[l].grade = g }
HasQuiz(l) == \E x \in Questions : question[x] # None /\ question[x].level = l /\ question[x].on

(***************************************************************************)
(* The branch of a request                                                 *)
(***************************************************************************)

Upward(lessons, levels, grades) ==
    LET ls == levels \cup { lesson[s].level : s \in { t \in lessons : lesson[t] # None } }
    IN  lessons \cup ls \cup grades \cup { level[l].grade : l \in { m \in ls : level[m] # None } }

\* The lessons, levels and grades a request is about, as the tree is now.
Named(a) ==
    IF a.do \in Bulk
    THEN Upward(Lessons, Levels, Grades)
    ELSE Upward(({a.lesson} \ {None})
                  \cup { item[i].lesson : i \in { j \in {a.item} \ {None} : item[j] # None } },
                ({a.level} \ {None})
                  \cup { question[x].level : x \in { y \in {a.question} \ {None} : question[y] # None } },
                {a.grade} \ {None})

\* A row comes under another: who was on x may hold it, and is there as well.
Joined(x, branch) ==
    [q \in Requests |-> IF x \in reach[q] THEN reach[q] \cup branch ELSE reach[q]]

\* A request has ended, and so have the saves it did not wait for.
Settled(p) == todo[p] = <<>> /\ \A w \in unsaved : w.by # p

(***************************************************************************)
(* The request arrives, its validators behind it                           *)
(***************************************************************************)

FirstSteps(a) ==
    CASE a.do \in {"addItem", "addLesson", "addLevel", "addQuestion"} -> <<At("write", None)>>
      [] a.do \in Bulk -> <<At("scan", None)>>
      [] a.do = "reorder" -> [n \in DOMAIN a.list |-> At("check", a.list[n])] \o <<At("list", None)>>
      [] OTHER -> <<At("read", None), At("write", None)>>

Begin(p) ==
    LET mine == Named(ask[p])
        apart(q) == Settled(q) \/ reach[q] \cap mine = {}
    IN  /\ status[p] = "idle" /\ ask[p] # None
        /\ status' = [status EXCEPT ![p] = "running"]
        /\ todo' = [todo EXCEPT ![p] = FirstSteps(ask[p])]
        /\ reach' = [reach EXCEPT ![p] = mine]
        /\ clean' = [q \in Requests |-> IF q = p THEN \A r \in Requests : apart(r)
                                        ELSE clean[q] /\ reach[q] \cap mine = {}]
        /\ UNCHANGED <<tables, ask, mem, unsaved, draft, listed, failures>>

(***************************************************************************)
(* Reading and writing the row a request is about                          *)
(***************************************************************************)

\* The row by its id (a deleted lesson or level is absent), or the 404.
Target(a) ==
    LET undeleted(row) == IF row # None /\ row.deleted THEN None ELSE row
    IN  CASE a.do \in {"dropItem", "editItem", "orderItem"} -> item[a.item]
          [] a.do \in {"editLesson", "dropLesson", "switchLesson"} -> undeleted(lesson[a.lesson])
          [] a.do \in {"editLevel", "dropLevel", "switchLevel"} -> undeleted(level[a.level])
          [] OTHER -> question[a.question]

ReadRow(p) ==
    /\ Does(p, "read")
    /\ IF Target(ask[p]) = None
       THEN Stop(p, "refused")
       ELSE Continue(p, <<>>, Hold(p, "row", Target(ask[p])))
    /\ UNCHANGED <<tables, ask, unsaved, draft, listed, failures, ghosts>>

\* An item that is moved, removed or ordered by itself leaves the list.
Unlisted(i) ==
    [s \in Lessons |-> [k \in KindSet |->
        [n \in DOMAIN listed[s][k] |-> IF listed[s][k][n] = i THEN None ELSE listed[s][k][n]]]]

\* A practice or quiz that is edited takes its lesson and points from the body
\* and nothing is counted again.
WriteItem(p) ==
    LET a == ask[p]
        i == a.item
        old == mem[p].row
    IN  /\ Does(p, "write")
        /\ \/ /\ a.do = "addItem" /\ item[i] = None     \* a new id
              /\ item' = [item EXCEPT ![i] = [lesson |-> a.lesson, order |-> a.n, points |-> 0]]
              /\ Continue(p, Recount(a.lesson), mem[p])
           \/ /\ a.do = "dropItem" /\ Unlocked(p, {i})
              /\ item' = [item EXCEPT ![i] = None]
              /\ Continue(p, Recount(old.lesson), mem[p])
           \/ /\ a.do = "editItem" /\ Unlocked(p, {i})
              /\ item' = IF item[i] = None THEN item
                         ELSE [item EXCEPT ![i].lesson = a.lesson, ![i].points = a.n]
              /\ Continue(p, <<>>, mem[p])
           \/ /\ a.do = "orderItem" /\ Unlocked(p, {i})
              /\ item' = IF item[i] = None \/ a.n = old.order THEN item
                         ELSE [item EXCEPT ![i].order = a.n]
              /\ Continue(p, <<>>, mem[p])
        /\ listed' = Unlisted(i)
        /\ reach' = IF a.do = "editItem" /\ item[i] # None
                    THEN Joined(item[i].lesson, Upward({a.lesson}, {}, {})) ELSE reach
        /\ UNCHANGED <<grade, level, lesson, question, ask, unsaved, draft, failures, clean>>

WriteLesson(p) ==
    LET a == ask[p]
        s == a.lesson
        old == mem[p].row
    IN  /\ Does(p, "write")
        /\ \/ /\ a.do = "addLesson"
              /\ lesson' = [lesson EXCEPT ![s] =
                    [level |-> a.level, on |-> TRUE, deleted |-> FALSE, total |-> Total,
                     shares |-> [c \in Columns |-> 0]]]
              /\ Continue(p, Reload(a.level), mem[p])
           \/ /\ a.do = "editLesson"
              /\ lesson' = [lesson EXCEPT ![s].level = a.level, ![s].total = Total]
              /\ Continue(p, Recount(s) \o (IF old.level # a.level THEN Reload(old.level) ELSE <<>>),
                          mem[p])
           \/ /\ a.do = "dropLesson"
              /\ lesson' = [lesson EXCEPT ![s].deleted = TRUE]
              /\ Continue(p, Reload(old.level), mem[p])
           \/ /\ a.do = "switchLesson"
              /\ lesson' = IF a.on = old.on THEN lesson ELSE [lesson EXCEPT ![s].on = a.on]
              /\ Continue(p, Reload(old.level), mem[p])
        /\ reach' = IF a.do \in {"addLesson", "editLesson"}
                    THEN Joined(s, Upward({}, {a.level}, {})) ELSE reach
        /\ UNCHANGED <<grade, level, item, question, ask, unsaved, draft, listed, failures, clean>>

\* A level's own requests count with the level they read; a new one's points
\* are not known to be what they will be.
WriteLevel(p) ==
    LET a == ask[p]
        l == a.level
        old == mem[p].row
        new == [grade |-> a.grade, on |-> TRUE, deleted |-> FALSE, worth |-> a.n, points |-> 0]
    IN  /\ Does(p, "write")
        /\ \/ /\ a.do = "addLevel"
              /\ level' = [level EXCEPT ![l] = new]
              /\ Continue(p, Resum(l), Hold(p, "level", [new EXCEPT !.points = None]))
           \/ /\ a.do = "editLevel"
              /\ level' = [level EXCEPT ![l].grade = a.grade, ![l].worth = a.n]
              /\ Continue(p, Resum(l) \o (IF old.grade # a.grade THEN Regrade(old.grade) ELSE <<>>),
                          Hold(p, "level", [old EXCEPT !.grade = a.grade, !.worth = a.n]))
           \/ /\ a.do = "dropLevel"
              /\ level' = [level EXCEPT ![l].deleted = TRUE]
              /\ Continue(p, Resum(l), Hold(p, "level", old))
           \/ /\ a.do = "switchLevel"
              /\ level' = IF a.on = old.on THEN level ELSE [level EXCEPT ![l].on = a.on]
              /\ Continue(p, Regrade(old.grade), mem[p])
        /\ reach' = IF a.do \in {"addLevel", "editLevel"} THEN Joined(l, {a.grade}) ELSE reach
        /\ UNCHANGED <<grade, lesson, item, question, ask, unsaved, draft, listed, failures, clean>>

WriteQuestion(p) ==
    LET a == ask[p]
        x == a.question
        old == mem[p].row
    IN  /\ Does(p, "write")
        /\ \/ /\ a.do = "addQuestion"
              /\ question' = [question EXCEPT ![x] = [level |-> a.level, on |-> TRUE]]
              /\ Continue(p, Reload(a.level), mem[p])
           \/ /\ a.do = "dropQuestion"
              /\ question' = [question EXCEPT ![x] = None]
              /\ Continue(p, Reload(old.level), mem[p])
           \/ /\ a.do = "switchQuestion"
              /\ question' = IF question[x] = None \/ a.on = old.on THEN question
                             ELSE [question EXCEPT ![x].on = a.on]
              /\ Continue(p, Reload(old.level), mem[p])
        /\ UNCHANGED <<grade, level, lesson, item, ask, unsaved, draft, listed, failures, ghosts>>

(***************************************************************************)
(* The two bulk requests: every row read first, then one after the other   *)
(***************************************************************************)

Scan(p) ==
    /\ Does(p, "scan")
    /\ \/ /\ ask[p].do = "allLessons"
          /\ \E rows \in SetToSeqs(Live(lesson)) :
                Continue(p, [n \in DOMAIN rows |-> At("refresh", rows[n])], mem[p])
       \/ /\ ask[p].do = "allLevels"
          /\ \E rows \in SetToSeqs(Live(level)) :
                Continue(p, [n \in DOMAIN rows |-> At("worth", <<rows[n], level[rows[n]]>>)], mem[p])
    /\ UNCHANGED <<tables, ask, unsaved, draft, listed, failures, ghosts>>

Refresh(p) ==
    /\ Does(p, "refresh")
    /\ LET s == Row(p)
       IN  \/ lesson[s].deleted /\ Continue(p, <<>>, mem[p]) /\ UNCHANGED lesson
           \/ /\ ~lesson[s].deleted
              /\ lesson' = [lesson EXCEPT ![s].total = Total]
              /\ Continue(p, Recount(s), mem[p])
    /\ UNCHANGED <<grade, level, item, question, ask, unsaved, draft, listed, failures, ghosts>>

SetWorth(p) ==
    /\ Does(p, "worth")
    /\ LET l == Row(p)[1]
           old == Row(p)[2]
       IN  /\ level' = [level EXCEPT ![l].worth = BulkWorth]
           /\ Continue(p, Resum(l), Hold(p, "level", [old EXCEPT !.worth = BulkWorth]))
    /\ UNCHANGED <<grade, lesson, item, question, ask, unsaved, draft, listed, failures, ghosts>>

(***************************************************************************)
(* updatelearningpracticequiz: a lesson's total over its items             *)
(***************************************************************************)

\* Of what a request holds (mem[p]): getpoints, and what its division leaves.
ItemCount(held) == SumFunction(held.count)
Points(held) == IF ItemCount(held) = 0 THEN 0 ELSE held.lesson.total \div ItemCount(held)
Left(held) == held.lesson.total - Points(held) * ItemCount(held)

\* What savepointstolesson saves: nothing when the lesson read has it already.
Shares(held) == [c \in Columns |-> IF c = "brick" THEN Points(held) ELSE Points(held) * held.count[c]]
ShareSaves(p, s, held) ==
    IF held.lesson.shares = Shares(held) THEN {}
    ELSE {[by |-> p, at |-> "lesson", of |-> s, set |-> Shares(held)]}

ReadLesson(p) ==
    /\ Does(p, "lesson")
    /\ LET s == Row(p)
       IN  \/ lesson[s].deleted /\ Stop(p, "refused")
           \/ /\ ~lesson[s].deleted
              /\ Continue(p, Respread(s) \o Reload(lesson[s].level), Hold(p, "lesson", lesson[s]))
    /\ UNCHANGED <<tables, ask, unsaved, draft, listed, failures, ghosts>>

\* The last count known, the lesson's save is sent and not awaited.
CountKind(p) ==
    /\ Does(p, "count")
    /\ LET s == Row(p)[1]
           k == Row(p)[2]
           held == [mem[p] EXCEPT !.count[k] = Cardinality(ItemsOfKind(s, k))]
       IN  /\ unsaved' = unsaved \cup (IF k = Kinds[3] THEN ShareSaves(p, s, held) ELSE {})
           /\ Continue(p, <<>>, held)
    /\ UNCHANGED <<tables, ask, draft, listed, failures, ghosts>>

Spread(p) ==
    /\ Does(p, "spread")
    /\ LET s == Row(p)[1]
           k == Row(p)[2]
           items == ItemsOfKind(s, k)
       IN  /\ Unlocked(p, items)
           /\ item' = [i \in Items |->
                IF i \in items THEN [item[i] EXCEPT !.points = Points(mem[p])] ELSE item[i]]
    /\ Continue(p, <<>>, mem[p])
    /\ UNCHANGED <<grade, level, lesson, question, ask, unsaved, draft, listed, failures, ghosts>>

\* The remainder goes to the last item of the first of these kinds with one.
LastKind(p) ==
    CASE mem[p].count["quiz"] > 0 -> "quiz"
      [] mem[p].count["practice"] > 0 -> "practice"
      [] OTHER -> "learning"
LastOf(items) == { i \in items : \A j \in items : item[j].order <= item[i].order }

SpreadRest(p) ==
    /\ Does(p, "last")
    /\ LET s == Row(p)
           k == LastKind(p)
           left == Left(mem[p])
           owed == IF left = 0 \/ ItemCount(mem[p]) = 0 THEN {} ELSE LastOf(ItemsOfKind(s, k))
           share == Points(mem[p]) * mem[p].count[k] + left
       IN  \/ owed = {} /\ UNCHANGED unsaved
           \/ \E i \in owed :
                unsaved' = unsaved \cup
                    {[by |-> p, at |-> "item", of |-> i, set |-> item[i].points + left],
                     [by |-> p, at |-> "lesson", of |-> s, set |-> [c \in {k} |-> share]]}
    /\ Continue(p, <<>>, mem[p])
    /\ UNCHANGED <<tables, ask, draft, listed, failures, ghosts>>

(***************************************************************************)
(* updateLevelPoints and updateGradePoints                                 *)
(***************************************************************************)

ReadLevel(p) ==
    /\ Does(p, "level")
    /\ Continue(p, <<>>, Hold(p, "level", level[Row(p)]))
    /\ UNCHANGED <<tables, ask, unsaved, draft, listed, failures, ghosts>>

SumLessons(p) ==
    /\ Does(p, "sum")
    /\ Continue(p, <<>>, Hold(p, "sum", SumFunction([s \in LiveLessons(Row(p)) |-> lesson[s].total])))
    /\ UNCHANGED <<tables, ask, unsaved, draft, listed, failures, ghosts>>

CountQuiz(p) ==
    /\ Does(p, "quiz")
    /\ LET worth == IF HasQuiz(Row(p)) THEN mem[p].level.worth ELSE 0
       IN  Continue(p, <<>>, Hold(p, "sum", mem[p].sum + worth))
    /\ UNCHANGED <<tables, ask, unsaved, draft, listed, failures, ghosts>>

\* A variant: the level's points saved, its grade's not counted again.
SaveLevelAlone(p) ==
    /\ Does(p, "saveLevel")
    /\ level' = [level EXCEPT ![Row(p)].points = mem[p].sum]
    /\ Continue(p, <<>>, mem[p])
    /\ UNCHANGED <<grade, lesson, item, question, ask, unsaved, draft, listed, failures, ghosts>>

\* Nothing is sent when the level in hand has these points already.
SaveLevel(p) ==
    /\ Does(p, "saveLevel")
    /\ level' = IF mem[p].level.points = mem[p].sum THEN level
                ELSE [level EXCEPT ![Row(p)].points = mem[p].sum]
    /\ Continue(p, Regrade(mem[p].level.grade), mem[p])
    /\ UNCHANGED <<grade, lesson, item, question, ask, unsaved, draft, listed, failures, ghosts>>

ReadGrade(p) ==
    /\ Does(p, "grade")
    /\ Continue(p, <<>>, Hold(p, "grade", grade[Row(p)]))
    /\ UNCHANGED <<tables, ask, unsaved, draft, listed, failures, ghosts>>

\* The sum of no rows is null.
SumLevels(p) ==
    /\ Does(p, "sumGrade")
    /\ LET live == LiveLevels(Row(p))
       IN  Continue(p, <<>>, Hold(p, "sum", IF live = {} THEN None
                                            ELSE SumFunction([l \in live |-> level[l].points])))
    /\ UNCHANGED <<tables, ask, unsaved, draft, listed, failures, ghosts>>

\* A variant: the sum of no rows saved as it is.
SaveGradeOfNull(p) ==
    /\ Does(p, "saveGrade")
    /\ grade' = [grade EXCEPT ![Row(p)] = mem[p].sum]
    /\ Continue(p, <<>>, mem[p])
    /\ UNCHANGED <<level, lesson, item, question, ask, unsaved, draft, listed, failures, ghosts>>

\* A sum is a string, never equal to the points in hand: it is always saved.
SaveGrade(p) ==
    /\ Does(p, "saveGrade")
    /\ grade' = CASE mem[p].sum # None -> [grade EXCEPT ![Row(p)] = mem[p].sum]
                  [] mem[p].sum = None /\ mem[p].grade # 0 -> [grade EXCEPT ![Row(p)] = 0]
                  [] OTHER -> grade
    /\ Continue(p, <<>>, mem[p])
    /\ UNCHANGED <<level, lesson, item, question, ask, unsaved, draft, listed, failures, ghosts>>

(***************************************************************************)
(* A lesson's items of a kind reordered                                    *)
(***************************************************************************)

CheckChild(p) ==
    /\ Does(p, "check")
    /\ IF Row(p) \in ItemsOfKind(ask[p].lesson, ask[p].kind)
       THEN Continue(p, <<>>, mem[p])
       ELSE Stop(p, "refused")
    /\ UNCHANGED <<tables, ask, unsaved, draft, listed, failures, ghosts>>

\* No item of the kind is missing from the list.  A learning's list is also
\* held to the rows there are now; a practice or a quiz that has left the lesson
\* since it was checked is not seen here.
ListChildren(p) ==
    LET a == ask[p]
        live == ItemsOfKind(a.lesson, a.kind)
        places == [n \in DOMAIN a.list |-> At("place", <<a.list[n], n>>)]
    IN  /\ Does(p, "list")
        /\ IF /\ IsInjective(a.list)
              /\ live \subseteq ToSet(a.list)
              /\ a.kind = "learning" => ToSet(a.list) \subseteq live
           THEN Continue(p, places \o <<At("commit", None)>>, mem[p])
           ELSE Stop(p, "refused")
        /\ UNCHANGED <<tables, ask, unsaved, draft, listed, failures, ghosts>>

\* The kind's table is updated: a row that has left the lesson is not matched.
Place(p) ==
    /\ Does(p, "place")
    /\ LET i == Row(p)[1]
       IN  /\ Unlocked(p, {i})
           /\ draft' = IF i \in ItemsOfKind(ask[p].lesson, ask[p].kind)
                       THEN [draft EXCEPT ![p] = [j \in DOMAIN @ \cup {i} |-> IF j = i THEN Row(p)[2] ELSE @[j]]]
                       ELSE draft
    /\ Continue(p, <<>>, mem[p])
    /\ UNCHANGED <<tables, ask, unsaved, listed, failures, ghosts>>

NoDraft == [i \in {} |-> 0]

CommitOrder(p) ==
    LET a == ask[p]
        placed == DOMAIN draft[p]
    IN  /\ Does(p, "commit")
        /\ item' = [i \in Items |-> IF i \in placed THEN [item[i] EXCEPT !.order = draft[p][i]] ELSE item[i]]
        /\ listed' = [listed EXCEPT ![a.lesson][a.kind] =
              [n \in DOMAIN a.list |-> IF a.list[n] \in placed THEN a.list[n] ELSE None]]
        /\ draft' = [draft EXCEPT ![p] = NoDraft]
        /\ Continue(p, <<>>, mem[p])
        /\ UNCHANGED <<grade, level, lesson, question, ask, unsaved, failures, ghosts>>

\* Two reorders that hold what the other waits for: InnoDB fails one of them.
Waits(p, q) == Does(p, "place") /\ Row(p)[1] \in DOMAIN draft[q]
Deadlocked(p) ==
    /\ \E q \in Requests \ {p} : Waits(p, q) /\ Waits(q, p)
    /\ draft' = [draft EXCEPT ![p] = NoDraft]
    /\ Stop(p, "failed")
    /\ UNCHANGED <<tables, ask, unsaved, listed, failures, ghosts>>

(***************************************************************************)
(* The saves that nobody waits for, and failures                           *)
(***************************************************************************)

\* A save lands at any time, after the answer too; of a deleted row, nowhere.
Land(w) ==
    /\ unsaved' = unsaved \ {w}
    /\ \/ /\ w.at = "item" /\ Unlocked(w.by, {w.of})
          /\ item' = IF item[w.of] = None THEN item ELSE [item EXCEPT ![w.of].points = w.set]
          /\ UNCHANGED lesson
       \/ /\ w.at = "lesson"
          /\ lesson' = [lesson EXCEPT ![w.of].shares =
                [c \in Columns |-> IF c \in DOMAIN w.set THEN w.set[c] ELSE @[c]]]
          /\ UNCHANGED item
    /\ UNCHANGED <<grade, level, question, ask, status, todo, mem, draft, listed, failures, ghosts>>

\* It fails: nobody is told, the request goes on.
LoseSave(w) ==
    /\ failures < MaxFailures
    /\ failures' = failures + 1
    /\ unsaved' = unsaved \ {w}
    /\ clean' = [clean EXCEPT ![w.by] = FALSE]
    /\ UNCHANGED <<tables, ask, status, todo, mem, draft, listed, reach>>

\* A variant: the updates of a reorder not sent in its transaction.
FailKeepingOrders(p) ==
    /\ todo[p] # <<>> /\ failures < MaxFailures
    /\ failures' = failures + 1
    /\ item' = [i \in Items |->
          IF i \in DOMAIN draft[p] THEN [item[i] EXCEPT !.order = draft[p][i]] ELSE item[i]]
    /\ draft' = [draft EXCEPT ![p] = NoDraft]
    /\ Stop(p, "failed")
    /\ UNCHANGED <<grade, level, lesson, question, ask, unsaved, listed, ghosts>>

\* An awaited query fails, and with it the request and its transaction.
Fail(p) ==
    /\ todo[p] # <<>> /\ failures < MaxFailures
    /\ failures' = failures + 1
    /\ draft' = [draft EXCEPT ![p] = NoDraft]
    /\ Stop(p, "failed")
    /\ UNCHANGED <<tables, ask, unsaved, listed, ghosts>>

(***************************************************************************)
(* The specification                                                       *)
(***************************************************************************)

Init ==
    /\ \E t \in Trees :
          /\ grade = t.grade /\ level = t.level /\ lesson = t.lesson
          /\ item = t.item /\ question = t.question
    /\ ask \in Asks
    /\ status = [p \in Requests |-> "idle"]
    /\ todo = [p \in Requests |-> <<>>]
    /\ mem = [p \in Requests |-> NoMem]
    /\ unsaved = {}
    /\ draft = [p \in Requests |-> NoDraft]
    /\ listed = [s \in Lessons |-> [k \in KindSet |-> <<>>]]
    /\ failures = 0
    /\ reach = [p \in Requests |-> {}]
    /\ clean = [p \in Requests |-> TRUE]

Next ==
    \/ \E p \in Requests :
          \/ Begin(p) \/ ReadRow(p)
          \/ WriteItem(p) \/ WriteLesson(p) \/ WriteLevel(p) \/ WriteQuestion(p)
          \/ Scan(p) \/ Refresh(p) \/ SetWorth(p)
          \/ ReadLesson(p) \/ CountKind(p) \/ Spread(p) \/ SpreadRest(p)
          \/ ReadLevel(p) \/ SumLessons(p) \/ CountQuiz(p) \/ SaveLevel(p)
          \/ ReadGrade(p) \/ SumLevels(p) \/ SaveGrade(p)
          \/ CheckChild(p) \/ ListChildren(p) \/ Place(p) \/ CommitOrder(p) \/ Deadlocked(p)
          \/ Fail(p)
    \/ \E w \in unsaved : Land(w) \/ LoseSave(w)

Spec == Init /\ [][Next]_vars

(***************************************************************************)
(* Properties                                                              *)
(***************************************************************************)

RightLevel(l) ==
    level[l].points = SumFunction([s \in LiveLessons(l) |-> lesson[s].total])
                        + (IF HasQuiz(l) THEN level[l].worth ELSE 0)

RightGrade(g) == grade[g] = SumFunction([l \in LiveLevels(g) |-> level[l].points])

\* A share may lack the remainder: its two saves land in either order.
RightLesson(s) ==
    LET points(k) == SumFunction([i \in ItemsOfKind(s, k) |-> item[i].points])
        shares == lesson[s].shares
        left == lesson[s].total - shares["brick"] * Cardinality(ItemsOf(s))
    IN  /\ ItemsOf(s) # {} => SumFunction([k \in KindSet |-> points(k)]) = lesson[s].total
        /\ \A k \in KindSet : points(k) \in {shares[k], shares[k] + left}

Right(x) ==
    CASE x \in Grades -> RightGrade(x)
      [] x \in Levels -> RightLevel(x)
      [] OTHER -> RightLesson(x)

\* What a request has counted again when it is done.
Counted(p) ==
    LET do == ask[p].do
    IN  CASE do \in {"addItem", "dropItem", "editLesson"} -> reach[p]
          [] do \in {"editItem", "orderItem", "reorder"} -> {}
          [] do = "switchLevel" -> reach[p] \cap Grades
          [] do = "allLessons" -> Upward(Live(lesson), {}, {})
          [] do = "allLevels" -> Upward({}, Live(level), {})
          [] OTHER -> reach[p] \cap (Levels \cup Grades)

TypeOK ==
    /\ grade \in [Grades -> Nat]
    /\ level \in [Levels -> LevelRow \cup {None}]
    /\ lesson \in [Lessons -> LessonRow \cup {None}]
    /\ item \in [Items -> ItemRow \cup {None}]
    /\ question \in [Questions -> QuestionRow \cup {None}]
    /\ ask \in Asks
    /\ status \in [Requests -> {"idle", "running", "done", "refused", "failed"}]
    /\ \A p \in Requests : status[p] = "running" <=> todo[p] # <<>>
    /\ \A w \in unsaved : w.by \in Requests /\ w.at \in {"item", "lesson"}
    /\ \A p \in Requests : DOMAIN draft[p] \subseteq Items
    /\ failures \in 0..MaxFailures
    /\ clean \in [Requests -> BOOLEAN]

(***************************************************************************)
(* A request that had its branch to itself, and lost no save, leaves it    *)
(* right whatever overlap or failure spoilt it before: every lesson it     *)
(* counted is worth its items, every level its lessons and quiz, every     *)
(* grade its levels, the ones a row was moved away from too.  (It holds at *)
(* the moment the request and the saves it did not wait for have ended.)   *)
(***************************************************************************)
RightWhenUndisturbed ==
    \A p \in Requests : status[p] = "done" /\ Settled(p) /\ clean[p]
        => \A x \in Counted(p) : Right(x)

(***************************************************************************)
(* Reorders of the same items that overlap end as one of them, never as a  *)
(* mixture: every item the last one placed, and nobody moved or ordered by *)
(* itself since, has its place in that list (reorderChildren,              *)
(* reorderLessonLearnings).                                                *)
(***************************************************************************)
ListsAreNotMixed ==
    \A s \in Lessons : \A k \in KindSet : \A n \in DOMAIN listed[s][k] :
        listed[s][k][n] # None => item[listed[s][k][n]].order = n

(***************************************************************************)
(* What level.business.ts says of a level's points and a grade's, once     *)
(* nothing is under way any more and nothing has failed.                   *)
(***************************************************************************)
PointsAreTheSum ==
    (\A p \in Requests : Settled(p)) /\ failures = 0
        => /\ \A l \in Levels : level[l] # None => RightLevel(l)
           /\ \A g \in Grades : RightGrade(g)
=============================================================================
