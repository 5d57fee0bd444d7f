------------------------ MODULE CurriculumTreeTotals ------------------------
(***************************************************************************)
(* Proof about CurriculumTree, for any tree and any requests: a request    *)
(* that had its branch to itself, and lost no save, leaves right all that  *)
(* it counts again.                                                        *)
(*                                                                         *)
(* A clean request shares its branch with nobody who still has something   *)
(* to do (BInv), so only its own steps write what it counts.  What it      *)
(* holds is then as it is in the tables (Knows), what it is to read again  *)
(* is as it was listed (Ahead), and every row it counts is right or is     *)
(* still to be counted (Owing): at its end nothing is left to count.  Of a *)
(* lesson it says which saves were sent and have landed (Done), for the    *)
(* last ones land in any order, after the answer too.                      *)
(***************************************************************************)
EXTENDS CurriculumTreeProofs

(***************************************************************************)
(* What a clean request has counted, and what it has still to count        *)
(***************************************************************************)

NumOf(s, k) == Cardinality(ItemsOfKind(s, k))
Num(s) == NumOf(s, "learning") + NumOf(s, "practice") + NumOf(s, "quiz")

\* What an item is to be worth, and what is left of the total.
Each(s) == IF Num(s) = 0 THEN 0 ELSE lesson[s].total \div Num(s)
Over(s) == lesson[s].total - Each(s) * Num(s)
OverKind(s) ==
    CASE NumOf(s, "quiz") > 0 -> "quiz" [] NumOf(s, "practice") > 0 -> "practice" [] OTHER -> "learning"
SharesOf(s) == [c \in Columns |-> IF c = "brick" THEN Each(s) ELSE Each(s) * NumOf(s, c)]

\* The three saves that nobody waits for.
ShareSave(p, s) == [by |-> p, at |-> "lesson", of |-> s, set |-> SharesOf(s)]
OverSave(p, s) ==
    [by |-> p, at |-> "lesson", of |-> s,
     set |-> [c \in {OverKind(s)} |-> SharesOf(s)[OverKind(s)] + Over(s)]]
ItemSave(p, s, i) == [by |-> p, at |-> "item", of |-> i, set |-> Each(s) + Over(s)]

LessonSaves(p, s) == { w \in unsaved : w.by = p /\ w.at = "lesson" /\ w.of = s }
ItemSaves(p, s) == { w \in unsaved : w.by = p /\ w.at = "item" /\ w.of \in ItemsOf(s) }
NoSaves(p, s) == LessonSaves(p, s) = {} /\ ItemSaves(p, s) = {}

SharesSent(p, s) ==
    /\ LessonSaves(p, s) \subseteq {ShareSave(p, s), OverSave(p, s)}
    /\ Num(s) = 0 => LessonSaves(p, s) \subseteq {ShareSave(p, s)}
    /\ \/ ShareSave(p, s) \in LessonSaves(p, s)
       \/ \A c \in Columns : \/ lesson[s].shares[c] = SharesOf(s)[c]
                             \/ /\ c = OverKind(s) /\ Num(s) # 0
                                /\ lesson[s].shares[c] = SharesOf(s)[c] + Over(s)

SpreadOver(s, kinds) == \A i \in ItemsOf(s) : KindOf[i] \in kinds => item[i].points = Each(s)

PointsSent(p, s) ==
    \/ /\ Over(s) = 0 \/ Num(s) = 0
       /\ ItemSaves(p, s) = {} /\ SpreadOver(s, KindSet)
    \/ \E i \in ItemsOfKind(s, OverKind(s)) :
          /\ ItemSaves(p, s) \subseteq {ItemSave(p, s, i)}
          /\ \A j \in ItemsOf(s) \ {i} : item[j].points = Each(s)
          /\ \/ item[i].points = Each(s) + Over(s)
             \/ ItemSave(p, s, i) \in ItemSaves(p, s)

Done(p, s) == SharesSent(p, s) /\ PointsSent(p, s)

Totals(l) == SumFunction([s \in LiveLessons(l) |-> lesson[s].total])
QuizWorth(l) == IF HasQuiz(l) THEN level[l].worth ELSE 0
LevelSum(g) == SumFunction([l \in LiveLevels(g) |-> level[l].points])

Before(k) ==
    CASE k = "learning" -> {} [] k = "practice" -> {"learning"} [] OTHER -> {"learning", "practice"}

\* A clean request holds its lesson as it is, with these kinds counted.
HoldsLesson(s, held, kinds) ==
    /\ held.lesson.total = lesson[s].total
    /\ \A k \in kinds : held.count[k] = NumOf(s, k)

KnowsLesson(p, at, of, held) ==
    /\ at = "count" => /\ HoldsLesson(of[1], held, Before(of[2])) /\ NoSaves(p, of[1])
                       /\ held.lesson.shares = lesson[of[1]].shares
    /\ at = "spread" => /\ HoldsLesson(of[1], held, KindSet) /\ SharesSent(p, of[1])
                        /\ ItemSaves(p, of[1]) = {} /\ SpreadOver(of[1], Before(of[2]))
    /\ at = "last" => /\ HoldsLesson(of, held, KindSet) /\ SharesSent(p, of)
                      /\ ItemSaves(p, of) = {} /\ SpreadOver(of, KindSet)

KnowsLevel(at, l, held) ==
    /\ at \in {"sum", "quiz", "saveLevel"} =>
          /\ held.level.grade = level[l].grade /\ held.level.worth = level[l].worth
          /\ held.level.points \in {level[l].points, None}
    /\ at = "quiz" => held.sum = Totals(l)
    /\ at = "saveLevel" => held.sum = Totals(l) + QuizWorth(l)

KnowsGrade(at, g, held) ==
    /\ at \in {"sumGrade", "saveGrade"} => held.grade = grade[g]
    /\ at = "saveGrade" => held.sum = IF LiveLevels(g) = {} THEN None ELSE LevelSum(g)

KnowsRow(p, at, held) ==
    /\ at \in Early => reach[p] = Named(ask[p])
    /\ at = "write" /\ ask[p].do \in OfItem \cup OfLesson \cup OfLevel \cup OfQuestion
         => held.row = Target(ask[p])

Knows(p, step, held) ==
    /\ KnowsRow(p, step.at, held)
    /\ KnowsLesson(p, step.at, step.of, held)
    /\ KnowsLevel(step.at, step.of, held)
    /\ KnowsGrade(step.at, step.of, held)

\* What a clean request is still to read again is as it was listed, and unsaved.
Ahead(p, step) ==
    /\ step.at \in {"lesson", "refresh"} => NoSaves(p, step.of)
    /\ step.at = "refresh" => ~lesson[step.of].deleted
    /\ step.at = "worth" => step.of[2] = level[step.of[1]]

OwesLesson(p, s) == \E step \in ToSet(todo[p]) : step.at \in ForLesson /\ LessonOf(step) = s
OwesLevel(p, l) ==
    \E step \in ToSet(todo[p]) :
        \/ step.at \in {"lesson", "refresh"} /\ lesson[step.of].level = l
        \/ step.at \in {"saveLevel", "worth"} /\ LevelOf(step) = l
OwesGrade(p, g) ==
    \/ At("saveGrade", g) \in ToSet(todo[p])
    \/ \E l \in There(level) : OwesLevel(p, l) /\ level[l].grade = g

Counts(p, x) ==
    /\ x \in Lessons => Done(p, x) \/ OwesLesson(p, x)
    /\ x \in Levels => RightLevel(x) \/ OwesLevel(p, x)
    /\ x \in Grades => RightGrade(x) \/ OwesGrade(p, x)

Owing(p) ==
    status[p] \in {"running", "done"} /\ todo[p] \notin Beginnings => \A x \in Counted(p) : Counts(p, x)

Clean(p) ==
    clean[p] /\ status[p] # "idle" =>
        /\ todo[p] # <<>> => Knows(p, Head(todo[p]), mem[p])
        /\ \A step \in ToSet(todo[p]) : Ahead(p, step)
        /\ Owing(p)

Cleans == \A p \in Requests : Clean(p)

(***************************************************************************)
(* What is counted stays as it is where nothing is written                 *)
(***************************************************************************)

SameItems(s) == ItemsOf(s)' = ItemsOf(s) /\ \A i \in ItemsOf(s) : item'[i] = item[i]
SameSaves(p) == { w \in unsaved' : w.by = p } = { w \in unsaved : w.by = p }
SameTotals(l) ==
    /\ LiveLessons(l)' = LiveLessons(l) /\ (HasQuiz(l)' <=> HasQuiz(l))
    /\ \A s \in LiveLessons(l) : lesson'[s].total = lesson[s].total
SamePoints(g) ==
    /\ LiveLevels(g)' = LiveLevels(g)
    /\ \A l \in LiveLevels(g) : level'[l].points = level[l].points

\* The items of a lesson are counted the same.
LEMMA SameCounts ==
    ASSUME NEW s, ItemsOf(s)' = ItemsOf(s)
    PROVE  /\ \A k : ItemsOfKind(s, k)' = ItemsOfKind(s, k) /\ NumOf(s, k)' = NumOf(s, k)
           /\ Num(s)' = Num(s)
<1>1. \A k : ItemsOfKind(s, k)' = ItemsOfKind(s, k)  BY DEF ItemsOfKind
<1>2. \A k : NumOf(s, k)' = NumOf(s, k)  BY <1>1 DEF NumOf
<1> QED  BY <1>1, <1>2 DEF Num

\* A lesson with the same items and total has the same shares.
LEMMA SameShares ==
    ASSUME NEW s, ItemsOf(s)' = ItemsOf(s), lesson'[s].total = lesson[s].total
    PROVE  /\ Each(s)' = Each(s) /\ Over(s)' = Over(s) /\ OverKind(s)' = OverKind(s)
           /\ SharesOf(s)' = SharesOf(s)
           /\ \A p, i : /\ ShareSave(p, s)' = ShareSave(p, s) /\ OverSave(p, s)' = OverSave(p, s)
                        /\ ItemSave(p, s, i)' = ItemSave(p, s, i)
<1>1. Num(s)' = Num(s) /\ \A k : NumOf(s, k)' = NumOf(s, k)  BY SameCounts
<1>2. Each(s)' = Each(s)  BY <1>1 DEF Each
<1>3. Over(s)' = Over(s)  BY <1>1, <1>2 DEF Over
<1>4. OverKind(s)' = OverKind(s)  BY <1>1 DEF OverKind
<1>5. SharesOf(s)' = SharesOf(s)  BY <1>1, <1>2 DEF SharesOf
<1>6. \A p, i : /\ ShareSave(p, s)' = ShareSave(p, s) /\ OverSave(p, s)' = OverSave(p, s)
                /\ ItemSave(p, s, i)' = ItemSave(p, s, i)
  BY <1>2, <1>3, <1>4, <1>5 DEF ShareSave, OverSave, ItemSave
<1> QED  BY <1>2, <1>3, <1>4, <1>5, <1>6

\* A lesson whose row, items and saves stay is as done as it was.
LEMMA SameDone ==
    ASSUME NEW p, NEW s, lesson'[s] = lesson[s], SameItems(s),
           LessonSaves(p, s)' = LessonSaves(p, s), ItemSaves(p, s)' = ItemSaves(p, s)
    PROVE  /\ SharesSent(p, s)' <=> SharesSent(p, s)
           /\ \A ks : SpreadOver(s, ks)' <=> SpreadOver(s, ks)
           /\ PointsSent(p, s)' <=> PointsSent(p, s)
           /\ \A held, ks : HoldsLesson(s, held, ks)' <=> HoldsLesson(s, held, ks)
<1>1. ItemsOf(s)' = ItemsOf(s) /\ \A i \in ItemsOf(s) : item'[i] = item[i]  BY DEF SameItems
<1>3. /\ \A k : ItemsOfKind(s, k)' = ItemsOfKind(s, k) /\ NumOf(s, k)' = NumOf(s, k)
      /\ Num(s)' = Num(s)
  BY <1>1, SameCounts
<1>4. /\ Each(s)' = Each(s) /\ Over(s)' = Over(s) /\ OverKind(s)' = OverKind(s)
      /\ SharesOf(s)' = SharesOf(s)
      /\ ShareSave(p, s)' = ShareSave(p, s) /\ OverSave(p, s)' = OverSave(p, s)
      /\ \A i : ItemSave(p, s, i)' = ItemSave(p, s, i)
  BY <1>1, SameShares
<1>5. SharesSent(p, s)' <=> SharesSent(p, s)  BY <1>3, <1>4 DEF SharesSent
<1>6. \A ks : SpreadOver(s, ks)' <=> SpreadOver(s, ks)  BY <1>1, <1>4 DEF SpreadOver
<1>7. PointsSent(p, s)' <=> PointsSent(p, s)
  <2>1. \A i \in ItemsOfKind(s, OverKind(s)) : i \in ItemsOf(s)  BY DEF ItemsOfKind
  <2>2. \A i \in ItemsOfKind(s, OverKind(s)) : item'[i] = item[i]  BY <1>1, <2>1
  <2> QED  BY <1>1, <1>3, <1>4, <1>6, <2>2 DEF PointsSent
<1>8. \A held, ks : HoldsLesson(s, held, ks)' <=> HoldsLesson(s, held, ks)
  BY <1>3 DEF HoldsLesson
<1> QED  BY <1>5, <1>6, <1>7, <1>8

\* So it stays where the request sends and lands no save.
LEMMA StaysDone ==
    ASSUME NEW p, NEW s, lesson'[s] = lesson[s], SameItems(s), SameSaves(p)
    PROVE  /\ LessonSaves(p, s)' = LessonSaves(p, s) /\ ItemSaves(p, s)' = ItemSaves(p, s)
           /\ SharesSent(p, s)' <=> SharesSent(p, s)
           /\ \A ks : SpreadOver(s, ks)' <=> SpreadOver(s, ks)
           /\ PointsSent(p, s)' <=> PointsSent(p, s)
           /\ \A held, ks : HoldsLesson(s, held, ks)' <=> HoldsLesson(s, held, ks)
<1>1. LessonSaves(p, s)' = LessonSaves(p, s) /\ ItemSaves(p, s)' = ItemSaves(p, s)
  BY DEF LessonSaves, ItemSaves, SameSaves, SameItems
<1> QED  BY <1>1, SameDone

\* A level's lessons and quiz are summed the same.
LEMMA StaysSummed ==
    ASSUME NEW l, SameTotals(l)
    PROVE  /\ Totals(l)' = Totals(l)
           /\ level'[l] = level[l] => /\ QuizWorth(l)' = QuizWorth(l)
                                      /\ RightLevel(l)' <=> RightLevel(l)
<1>1. LiveLessons(l)' = LiveLessons(l) /\ \A s \in LiveLessons(l) : lesson'[s].total = lesson[s].total
  BY DEF SameTotals
<1>2. [s \in LiveLessons(l)' |-> lesson'[s].total] = [s \in LiveLessons(l) |-> lesson[s].total]
  BY <1>1
<1>3. Totals(l)' = Totals(l)  BY <1>2 DEF Totals
<1>4. RightLevel(l) <=> level[l].points = Totals(l) + QuizWorth(l)
  BY DEF RightLevel, Totals, QuizWorth
<1>5. RightLevel(l)' <=> level'[l].points = Totals(l)' + QuizWorth(l)'
  BY DEF RightLevel, Totals, QuizWorth
<1>6. ASSUME level'[l] = level[l] PROVE QuizWorth(l)' = QuizWorth(l)
  BY <1>6 DEF QuizWorth, SameTotals
<1> QED  BY <1>3, <1>4, <1>5, <1>6

\* A grade's levels are summed the same.
LEMMA StaysWorth ==
    ASSUME NEW g, SamePoints(g)
    PROVE  /\ LevelSum(g)' = LevelSum(g) /\ LiveLevels(g)' = LiveLevels(g)
           /\ grade'[g] = grade[g] => (RightGrade(g)' <=> RightGrade(g))
<1>1. LiveLevels(g)' = LiveLevels(g) /\ \A l \in LiveLevels(g) : level'[l].points = level[l].points
  BY DEF SamePoints
<1>2. [l \in LiveLevels(g)' |-> level'[l].points] = [l \in LiveLevels(g) |-> level[l].points]
  BY <1>1
<1>3. LevelSum(g)' = LevelSum(g)  BY <1>2 DEF LevelSum
<1>4. (RightGrade(g) <=> grade[g] = LevelSum(g)) /\ (RightGrade(g)' <=> grade'[g] = LevelSum(g)')
  BY DEF RightGrade, LevelSum
<1> QED  BY <1>1, <1>3, <1>4

(***************************************************************************)
(* A step of one request leaves a clean one what it counts                 *)
(***************************************************************************)

\* Everything a request on branch b counts is as it was.
Still(p, b) ==
    /\ \A s \in Lessons \cap b : lesson'[s] = lesson[s] /\ SameItems(s)
    /\ \A l \in Levels \cap b : level'[l] = level[l] /\ SameTotals(l)
    /\ \A g \in Grades \cap b : grade'[g] = grade[g] /\ SamePoints(g)
    /\ SameSaves(p)

\* A step of one request changes nothing on the branch of a clean other one.
LEMMA OthersStill ==
    ASSUME IInv, TInv, TInv', BInv, BInv', NEW p \in Requests, Acts(p),
           NEW q \in Requests \ {p}, clean'[q], status[q] # "idle"
    PROVE  /\ clean[q] /\ reach'[q] = reach[q] /\ reach[p] \cap reach[q] = {}
           /\ Still(q, reach[q])
<1>1. clean[q] /\ ~Settled(p)  BY DEF Acts, OthersStay
<1>2. reach[p] \cap reach[q] = {}  BY <1>1 DEF BInv, Alone, Apart
<1>3. reach'[q] = reach[q] /\ reach'[p] = reach[p]  BY <1>2 DEF Acts, Grows
<1>4. Closed(reach[p]) /\ Closed(reach[p])'  BY DEF BInv, Branches
<1>5. /\ There(lesson) = { s \in Lessons : lesson[s] # None }
      /\ There(lesson)' = { s \in Lessons : lesson'[s] # None }
      /\ There(level) = { l \in Levels : level[l] # None }
      /\ There(level)' = { l \in Levels : level'[l] # None }
      /\ DOMAIN lesson = Lessons /\ DOMAIN lesson' = Lessons
      /\ DOMAIN level = Levels /\ DOMAIN level' = Levels
  BY DEF TInv, Tabled, There
<1>6. /\ \A s \in Lessons : lesson'[s] # lesson[s] =>
            /\ s \in reach[p]
            /\ lesson[s] # None => lesson[s].level \in reach[p]
            /\ lesson'[s] # None => lesson'[s].level \in reach[p]
      /\ \A l \in Levels : level'[l] # level[l] =>
            /\ l \in reach[p]
            /\ level[l] # None => level[l].grade \in reach[p]
            /\ level'[l] # None => level'[l].grade \in reach[p]
  <2>1. /\ \A s \in Lessons : lesson'[s] # lesson[s] => s \in reach[p]
        /\ \A l \in Levels : level'[l] # level[l] => l \in reach[p]
    BY DEF Acts, Moves
  <2> QED  BY <1>3, <1>4, <1>5, <2>1 DEF Closed
<1>7. ASSUME NEW s \in Lessons \cap reach[q] PROVE lesson'[s] = lesson[s] /\ SameItems(s)
  <2>1. lesson'[s] = lesson[s]  BY <1>2, <1>6
  <2>2. \A i \in Items : item'[i] # item[i] => /\ item[i] # None => item[i].lesson # s
                                               /\ item'[i] # None => item'[i].lesson # s
    BY <1>2 DEF Acts, Moves
  <2> QED  BY <2>1, <2>2 DEF SameItems, ItemsOf
<1>8. ASSUME NEW l \in Levels \cap reach[q] PROVE level'[l] = level[l] /\ SameTotals(l)
  <2>1. level'[l] = level[l]  BY <1>2, <1>6
  <2>2. \A s \in Lessons : lesson'[s] # lesson[s] => /\ lesson[s] # None => lesson[s].level # l
                                                     /\ lesson'[s] # None => lesson'[s].level # l
    BY <1>2, <1>6
  <2>3. LiveLessons(l) \subseteq Lessons /\ LiveLessons(l)' = LiveLessons(l)
    BY <1>5, <2>2 DEF LiveLessons, Live
  <2>4. \A s \in LiveLessons(l) : lesson[s] # None /\ lesson[s].level = l  BY DEF LiveLessons, Live
  <2>5. \A s \in LiveLessons(l) : lesson'[s] = lesson[s]  BY <2>2, <2>3, <2>4
  <2>6. \A x \in Questions : question'[x] # question[x] =>
           /\ question[x] # None => question[x].level # l
           /\ question'[x] # None => question'[x].level # l
    BY <1>2 DEF Acts, Moves
  <2>7. HasQuiz(l)' <=> HasQuiz(l)  BY <2>6 DEF HasQuiz
  <2> QED  BY <2>1, <2>3, <2>5, <2>7 DEF SameTotals
<1>9. ASSUME NEW g \in Grades \cap reach[q] PROVE grade'[g] = grade[g] /\ SamePoints(g)
  <2>1. grade'[g] = grade[g]  BY <1>2 DEF Acts, Moves
  <2>2. \A l \in Levels : level'[l] # level[l] => /\ level[l] # None => level[l].grade # g
                                                  /\ level'[l] # None => level'[l].grade # g
    BY <1>2, <1>6
  <2>3. LiveLevels(g) \subseteq Levels /\ LiveLevels(g)' = LiveLevels(g)
    BY <1>5, <2>2 DEF LiveLevels, Live
  <2>4. \A l \in LiveLevels(g) : level[l] # None /\ level[l].grade = g  BY DEF LiveLevels, Live
  <2>5. \A l \in LiveLevels(g) : level'[l] = level[l]  BY <2>2, <2>3, <2>4
  <2> QED  BY <2>1, <2>3, <2>5 DEF SamePoints
<1>10. SameSaves(q)
  <2>1. \A w : w \in unsaved' /\ w.by = q <=> w \in unsaved /\ w.by = q  BY DEF Acts, Sends
  <2> QED  BY <2>1 DEF SameSaves
<1> QED  BY <1>1, <1>2, <1>3, <1>7, <1>8, <1>9, <1>10 DEF Still

\* What it asks for is the same row, and names the same rows.
LEMMA OthersAsk ==
    ASSUME Given, IInv, TInv, TInv', BInv, BInv', NEW p \in Requests, Acts(p),
           NEW q \in Requests \ {p}, todo[q] # <<>>, reach[p] \cap reach[q] = {},
           Still(q, reach[q])
    PROVE  /\ Named(ask[q])' = Named(ask[q])
           /\ ask[q].do \in OfItem \cup OfLesson \cup OfLevel \cup OfQuestion
                => Target(ask[q])' = Target(ask[q])
<1> DEFINE a == ask[q]
<1>1. a \in AskRow /\ a # None /\ ask' = ask  BY AskedFor DEF Acts
<1>2. AskOn(a, reach[q])  BY DEF BInv, Branches, Inside
<1>3. /\ a.item \in Items \cup {None} /\ a.lesson \in Lessons \cup {None}
      /\ a.level \in Levels \cup {None} /\ a.question \in Questions \cup {None}
  BY <1>1 DEF AskRow
<1>4. a.item # None => item'[a.item] = item[a.item]
  <2>1. ASSUME a.item # None, item[a.item] # None PROVE item'[a.item] = item[a.item]
    <3>1. item[a.item].lesson \in reach[q]  BY <1>2, <2>1 DEF AskOn
    <3> QED  BY <1>3, <2>1, <3>1 DEF Acts, Moves
  <2>2. ASSUME a.item # None, item[a.item] = None, item'[a.item] # None PROVE FALSE
    <3>1. todo[p] # <<>> /\ ask[p].do = "addItem" /\ ask[p].item = a.item
      BY <1>3, <2>2 DEF Acts, Appears, Adding, Does
    <3>2. ask[p] # None  BY <3>1, AskedFor
    <3> QED  BY <1>1, <3>1, <3>2, MakesAlone
  <2> QED  BY <2>1, <2>2
<1>5. a.question # None => question'[a.question] = question[a.question]
  <2>1. ASSUME a.question # None, question[a.question] # None
        PROVE  question'[a.question] = question[a.question]
    <3>1. question[a.question].level \in reach[q]  BY <1>2, <2>1 DEF AskOn
    <3> QED  BY <1>3, <2>1, <3>1 DEF Acts, Moves
  <2>2. ASSUME a.question # None, question[a.question] = None, question'[a.question] # None PROVE FALSE
    <3>1. todo[p] # <<>> /\ ask[p].do = "addQuestion" /\ ask[p].question = a.question
      BY <1>3, <2>2 DEF Acts, Appears, Adding, Does
    <3>2. ask[p] # None  BY <3>1, AskedFor
    <3> QED  BY <1>1, <3>1, <3>2, MakesAlone
  <2> QED  BY <2>1, <2>2
<1>6. /\ a.lesson # None => lesson'[a.lesson] = lesson[a.lesson]
      /\ a.level # None => level'[a.level] = level[a.level]
  BY <1>2, <1>3 DEF AskOn, Still
<1>7. /\ \A s \in Lessons \cap reach[q] : lesson'[s] = lesson[s]
      /\ \A l \in Levels \cap reach[q] : level'[l] = level[l]
  BY DEF Still
<1>8. Named(a)' = Named(a)
  <2> DEFINE ss == ({a.lesson} \ {None})
                     \cup { item[i].lesson : i \in { j \in {a.item} \ {None} : item[j] # None } }
             ls == ({a.level} \ {None})
                     \cup { question[x].level : x \in { y \in {a.question} \ {None} : question[y] # None } }
             gs == {a.grade} \ {None}
  <2>1. CASE a.do \in Bulk
    <3>1. status[q] = "running"  BY DEF TInv, Going, Running
    <3>2. reach[q] = Rows  BY <2>1, <3>1 DEF BInv, Branches, Wide
    <3>3. \A s \in Lessons : lesson'[s] = lesson[s]  BY <1>7, <3>2 DEF Rows
    <3>4. \A l \in Levels : level'[l] = level[l]  BY <1>7, <3>2 DEF Rows
    <3>5. lesson' = lesson /\ level' = level  BY <3>3, <3>4 DEF TInv, Tabled
    <3> QED  BY <1>1, <2>1, <3>5 DEF Named, Upward
  <2>2. CASE a.do \notin Bulk
    <3>1. ss' = ss /\ ls' = ls /\ gs' = gs
      <4>1. { item[i].lesson : i \in { j \in {a.item} \ {None} : item[j] # None } }'
              = { item[i].lesson : i \in { j \in {a.item} \ {None} : item[j] # None } }
        BY <1>1, <1>4
      <4>2. { question[x].level : x \in { y \in {a.question} \ {None} : question[y] # None } }'
              = { question[x].level : x \in { y \in {a.question} \ {None} : question[y] # None } }
        BY <1>1, <1>5
      <4> QED  BY <1>1, <4>1, <4>2
    <3>2. ss \subseteq Lessons \cap reach[q] /\ ls \subseteq Levels \cap reach[q]
      <4>1. \A i \in Items : item[i] # None => item[i].lesson \in Lessons
        BY DEF TInv, Tabled, ItemRow
      <4>2. \A x \in Questions : question[x] # None => question[x].level \in Levels
        BY DEF TInv, Tabled, QuestionRow
      <4> QED  BY <1>2, <1>3, <4>1, <4>2 DEF AskOn
    <3> HIDE DEF ss, ls, gs
    <3>3. Named(a) = Upward(ss, ls, gs) /\ Named(a)' = Upward(ss, ls, gs)'
      BY <1>1, <2>2 DEF Named, ss, ls, gs
    <3> DEFINE ms == ls \cup { lesson[s].level : s \in { t \in ss : lesson[t] # None } }
    <3>4. ms' = ms
      <4>1. \A t \in ss : lesson'[t] = lesson[t]  BY <1>7, <3>2
      <4> QED  BY <3>1, <4>1
    <3>5. ms \subseteq Levels \cap reach[q]
      <4>1. \A t \in ss : lesson[t] # None => t \in There(lesson) /\ lesson[t] \in LessonRow
        BY <3>2 DEF There, TInv, Tabled
      <4>2. Closed(reach[q])  BY DEF BInv, Branches
      <4> QED  BY <3>2, <4>1, <4>2 DEF Closed, LessonRow
    <3>6. Upward(ss, ls, gs) = ss \cup ms \cup gs \cup { level[l].grade : l \in { m \in ms : level[m] # None } }
      BY DEF Upward
    <3>7. Upward(ss, ls, gs)' = ss' \cup ms' \cup gs' \cup { level'[l].grade : l \in { m \in ms' : level'[m] # None } }
      BY DEF Upward
    <3> HIDE DEF ms
    <3>8. \A m \in ms : level'[m] = level[m]  BY <1>7, <3>5
    <3> QED  BY <3>1, <3>3, <3>4, <3>6, <3>7, <3>8
  <2> QED  BY <2>1, <2>2
<1>9. ASSUME a.do \in OfItem \cup OfLesson \cup OfLevel \cup OfQuestion
      PROVE  Target(a)' = Target(a)
  <2>1. /\ a.do \in OfItem => a.item \in Items
        /\ a.do \in OfLesson => a.lesson \in Lessons
        /\ a.do \in OfLevel => a.level \in Levels
        /\ a.do \in OfQuestion => a.question \in Questions
    BY <1>1, AskedRows DEF Given
  <2>2. None \notin Items \cup Lessons \cup Levels \cup Questions
    BY CurriculumTreeAssumed DEF CurriculumTreeAssumption
  <2>3. /\ a.do \in OfItem => item'[a.item] = item[a.item]
        /\ a.do \in OfLesson => lesson'[a.lesson] = lesson[a.lesson]
        /\ a.do \in OfLevel => level'[a.level] = level[a.level]
        /\ a.do \in OfQuestion => question'[a.question] = question[a.question]
    BY <1>4, <1>5, <1>6, <2>1, <2>2
  <2> QED  BY <1>1, <1>9, <2>3 DEF Target, OfItem, OfLesson, OfLevel, OfQuestion
<1> QED  BY <1>8, <1>9

\* What it owes it still owes.
LEMMA OthersOwe ==
    ASSUME TInv, TInv', BInv, NEW q \in Requests, todo'[q] = todo[q], Still(q, reach[q])
    PROVE  /\ \A s : OwesLesson(q, s)' <=> OwesLesson(q, s)
           /\ \A l : OwesLevel(q, l) => OwesLevel(q, l)'
           /\ \A g : OwesGrade(q, g) => OwesGrade(q, g)'
<1>1. \A s : OwesLesson(q, s)' <=> OwesLesson(q, s)  BY DEF OwesLesson
<1>2. /\ \A step \in ToSet(todo[q]) : StepOn(step, reach[q])
      /\ \A step \in ToSet(todo[q]) : Apt(ask[q], step, There(lesson), There(level))
      /\ Closed(reach[q])
  <2>1. Closed(reach[q]) /\ (todo[q] # <<>> => \A step \in ToSet(todo[q]) : StepOn(step, reach[q]))
    BY DEF BInv, Branches, Inside
  <2>2. \A n \in DOMAIN todo[q] : Apt(ask[q], todo[q][n], There(lesson), There(level))
    BY DEF TInv, Going, Steps, Sound
  <2>3. todo[q] = <<>> => ToSet(todo[q]) = {}  BY Elements
  <2> QED  BY <2>1, <2>2, <2>3 DEF ToSet
<1>3. /\ \A s \in There(lesson) : s \in Lessons /\ lesson[s].level \in There(level)
      /\ \A l \in There(level) : l \in Levels /\ level[l] # None
      /\ DOMAIN level' = Levels
  BY ThereIs DEF TInv, Tabled, There, Rooted
<1>4. \A step \in ToSet(todo[q]) : step.at \in {"lesson", "refresh"} =>
         /\ step.of \in There(lesson) \cap reach[q] /\ lesson[step.of].level \in There(level) \cap reach[q]
         /\ lesson'[step.of] = lesson[step.of]
  <2> SUFFICES ASSUME NEW step \in ToSet(todo[q]), step.at \in {"lesson", "refresh"}
               PROVE  /\ step.of \in There(lesson) \cap reach[q]
                      /\ lesson[step.of].level \in There(level) \cap reach[q]
                      /\ lesson'[step.of] = lesson[step.of]
    OBVIOUS
  <2>1. step.of \in There(lesson)  BY <1>2 DEF Apt
  <2>2. step.of \in reach[q]  BY <1>2 DEF StepOn, LessonOf, ForLesson
  <2>3. lesson[step.of].level \in There(level) \cap reach[q]  BY <1>2, <1>3, <2>1, <2>2 DEF Closed
  <2>4. step.of \in Lessons  BY <1>3, <2>1
  <2>5. lesson'[step.of] = lesson[step.of]  BY <2>2, <2>4 DEF Still
  <2> QED  BY <2>1, <2>2, <2>3, <2>5
<1>5. ASSUME NEW l, OwesLevel(q, l) PROVE OwesLevel(q, l)' /\ l \in reach[q]
  <2>1. PICK step \in ToSet(todo[q]) : \/ step.at \in {"lesson", "refresh"} /\ lesson[step.of].level = l
                                       \/ step.at \in {"saveLevel", "worth"} /\ LevelOf(step) = l
    BY <1>5 DEF OwesLevel
  <2>2. CASE step.at \in {"lesson", "refresh"} /\ lesson[step.of].level = l
    <3>1. lesson'[step.of].level = l /\ l \in reach[q]  BY <1>4, <2>2
    <3> QED  BY <2>2, <3>1 DEF OwesLevel
  <2>3. CASE step.at \in {"saveLevel", "worth"} /\ LevelOf(step) = l
    <3>1. l \in reach[q]  BY <1>2, <2>3 DEF StepOn, ForLevel
    <3> QED  BY <2>3, <3>1 DEF OwesLevel
  <2> QED  BY <2>1, <2>2, <2>3
<1>6. ASSUME NEW g, OwesGrade(q, g) PROVE OwesGrade(q, g)'
  <2>1. CASE At("saveGrade", g) \in ToSet(todo[q])  BY <2>1 DEF OwesGrade
  <2>2. ASSUME NEW l \in There(level), OwesLevel(q, l), level[l].grade = g PROVE OwesGrade(q, g)'
    <3>1. OwesLevel(q, l)' /\ l \in reach[q] /\ l \in Levels /\ level[l] # None  BY <1>3, <1>5, <2>2
    <3>2. level'[l] = level[l]  BY <3>1 DEF Still
    <3>3. l \in There(level)'  BY <1>3, <3>1, <3>2 DEF There
    <3> QED  BY <2>2, <3>1, <3>2, <3>3 DEF OwesGrade
  <2> QED  BY <1>6, <2>1, <2>2 DEF OwesGrade
<1> QED  BY <1>1, <1>5, <1>6

\* What it knows of the row of a step it knows still.
LEMMA StillKnows ==
    ASSUME TInv, NEW q \in Requests, NEW b, Still(q, b), NEW a, NEW step, NEW held, StepOn(step, b),
           Apt(a, step, There(lesson), There(level))
    PROVE  /\ KnowsLesson(q, step.at, step.of, held) => KnowsLesson(q, step.at, step.of, held)'
           /\ KnowsLevel(step.at, step.of, held) => KnowsLevel(step.at, step.of, held)'
           /\ KnowsGrade(step.at, step.of, held) => KnowsGrade(step.at, step.of, held)'
           /\ Ahead(q, step) => Ahead(q, step)'
<1>1. There(lesson) \subseteq Lessons /\ There(level) \subseteq Levels  BY ThereIs DEF TInv
<1>2. ASSUME NEW s \in Lessons \cap b
      PROVE  /\ lesson'[s] = lesson[s]
             /\ LessonSaves(q, s)' = LessonSaves(q, s) /\ ItemSaves(q, s)' = ItemSaves(q, s)
             /\ SharesSent(q, s)' <=> SharesSent(q, s)
             /\ \A ks : SpreadOver(s, ks)' <=> SpreadOver(s, ks)
             /\ \A h, ks : HoldsLesson(s, h, ks)' <=> HoldsLesson(s, h, ks)
  <2>1. lesson'[s] = lesson[s] /\ SameItems(s) /\ SameSaves(q)  BY DEF Still
  <2> QED  BY <2>1, StaysDone
<1>3. KnowsLesson(q, step.at, step.of, held) => KnowsLesson(q, step.at, step.of, held)'
  <2>1. CASE step.at = "last"
    <3>1. step.of \in Lessons \cap b  BY <1>1, <2>1 DEF StepOn, Apt, LessonOf, ForLesson
    <3> QED  BY <1>2, <2>1, <3>1 DEF KnowsLesson
  <2>2. CASE step.at \in {"count", "spread"}
    <3>1. step.of[1] \in Lessons \cap b  BY <1>1, <2>2 DEF StepOn, Apt, LessonOf, ForLesson
    <3> QED  BY <1>2, <2>2, <3>1 DEF KnowsLesson, NoSaves
  <2> QED  BY <2>1, <2>2 DEF KnowsLesson
<1>4. KnowsLevel(step.at, step.of, held) => KnowsLevel(step.at, step.of, held)'
  <2>1. CASE step.at \in {"sum", "quiz", "saveLevel"}
    <3>1. step.of \in Levels \cap b  BY <1>1, <2>1 DEF StepOn, Apt, LevelOf, ForLevel
    <3>2. level'[step.of] = level[step.of] /\ SameTotals(step.of)  BY <3>1 DEF Still
    <3>3. Totals(step.of)' = Totals(step.of) /\ QuizWorth(step.of)' = QuizWorth(step.of)
      BY <3>2, StaysSummed
    <3> QED  BY <3>2, <3>3 DEF KnowsLevel
  <2> QED  BY <2>1 DEF KnowsLevel
<1>5. KnowsGrade(step.at, step.of, held) => KnowsGrade(step.at, step.of, held)'
  <2>1. CASE step.at \in {"sumGrade", "saveGrade"}
    <3>1. step.of \in Grades \cap b  BY <2>1 DEF StepOn, Apt, ForGrade
    <3>2. grade'[step.of] = grade[step.of] /\ SamePoints(step.of)  BY <3>1 DEF Still
    <3>3. LevelSum(step.of)' = LevelSum(step.of) /\ LiveLevels(step.of)' = LiveLevels(step.of)
      BY <3>2, StaysWorth
    <3> QED  BY <3>2, <3>3 DEF KnowsGrade
  <2> QED  BY <2>1 DEF KnowsGrade
<1>6. Ahead(q, step) => Ahead(q, step)'
  <2>1. CASE step.at \in {"lesson", "refresh"}
    <3>1. step.of \in Lessons \cap b  BY <1>1, <2>1 DEF StepOn, Apt, LessonOf, ForLesson
    <3>2. NoSaves(q, step.of)' <=> NoSaves(q, step.of)  BY <1>2, <3>1 DEF NoSaves
    <3> QED  BY <1>2, <2>1, <3>1, <3>2 DEF Ahead
  <2>2. CASE step.at = "worth"
    <3>1. step.of[1] \in Levels \cap b  BY <1>1, <2>2 DEF StepOn, Apt, LevelOf, ForLevel
    <3>2. level'[step.of[1]] = level[step.of[1]]  BY <3>1 DEF Still
    <3> QED  BY <2>2, <3>2 DEF Ahead
  <2> QED  BY <2>1, <2>2 DEF Ahead
<1> QED  BY <1>3, <1>4, <1>5, <1>6

\* What a request counts is on its branch.
LEMMA CountedOn ==
    ASSUME TInv, BInv, NEW p \in Requests, status[p] # "idle"
    PROVE  Counted(p) \subseteq reach[p] /\ reach[p] \subseteq Rows
<1>1. Closed(reach[p]) /\ Wide(p)  BY DEF BInv, Branches
<1>2. CASE ask[p].do \in Bulk
  <2>1. reach[p] = Rows  BY <1>1, <1>2 DEF Wide
  <2>2. Live(lesson) \subseteq Lessons /\ Live(level) \subseteq Levels  BY DEF Live, TInv, Tabled
  <2>3. Closed(Upward(Live(lesson), {}, {})) /\ Closed(Upward({}, Live(level), {}))
    BY <2>2, UpwardClosed
  <2> QED  BY <1>2, <2>1, <2>3 DEF Counted, Closed, Bulk
<1>3. CASE ask[p].do \notin Bulk
  BY <1>1, <1>3 DEF Counted, Closed, Bulk
<1> QED  BY <1>2, <1>3

\* A clean request whose steps and branch stay, and all it counts, stays clean.
LEMMA OthersClean ==
    ASSUME Given, IInv, TInv, TInv', BInv, BInv', Cleans, NEW p \in Requests, Acts(p),
           NEW q \in Requests \ {p}
    PROVE  Clean(q)'
<1> SUFFICES ASSUME clean'[q], status'[q] # "idle"
             PROVE  /\ todo'[q] # <<>> => Knows(q, Head(todo[q]), mem[q])'
                    /\ \A step \in ToSet(todo'[q]) : Ahead(q, step)'
                    /\ Owing(q)'
  BY DEF Clean
<1>1. /\ todo'[q] = todo[q] /\ mem'[q] = mem[q] /\ status'[q] = status[q] /\ clean[q]
      /\ ask' = ask
  BY DEF Acts, OthersStay
<1>2. reach'[q] = reach[q] /\ reach[p] \cap reach[q] = {} /\ Still(q, reach[q])
  BY <1>1, OthersStill
<1>3. /\ todo[q] # <<>> => Knows(q, Head(todo[q]), mem[q])
      /\ \A step \in ToSet(todo[q]) : Ahead(q, step)
      /\ Owing(q)
  BY <1>1 DEF Cleans, Clean
<1>4. /\ \A step \in ToSet(todo[q]) : StepOn(step, reach[q])
      /\ \A step \in ToSet(todo[q]) : Apt(ask[q], step, There(lesson), There(level))
      /\ todo[q] # <<>> => Head(todo[q]) \in ToSet(todo[q])
  <2>1. todo[q] # <<>> => \A step \in ToSet(todo[q]) : StepOn(step, reach[q])
    BY DEF BInv, Branches, Inside
  <2>2. \A n \in DOMAIN todo[q] : Apt(ask[q], todo[q][n], There(lesson), There(level))
    BY DEF TInv, Going, Steps, Sound
  <2>3. todo[q] = <<>> => ToSet(todo[q]) = {}  BY Elements
  <2>4. todo[q] # <<>> => Head(todo[q]) \in ToSet(todo[q])  BY HeadShape DEF BInv
  <2> QED  BY <2>1, <2>2, <2>3, <2>4 DEF ToSet
<1>5. \A step \in ToSet(todo[q]) : Ahead(q, step)'
  BY <1>2, <1>3, <1>4, StillKnows
<1>6. ASSUME todo[q] # <<>> PROVE Knows(q, Head(todo[q]), mem[q])'
  <2> DEFINE step == Head(todo[q])
  <2>1. /\ KnowsLesson(q, step.at, step.of, mem[q])'
        /\ KnowsLevel(step.at, step.of, mem[q])'
        /\ KnowsGrade(step.at, step.of, mem[q])'
    <3>1. StepOn(step, reach[q]) /\ Apt(ask[q], step, There(lesson), There(level))
      BY <1>4, <1>6
    <3>2. /\ KnowsLesson(q, step.at, step.of, mem[q]) /\ KnowsLevel(step.at, step.of, mem[q])
          /\ KnowsGrade(step.at, step.of, mem[q])
      BY <1>3, <1>6 DEF Knows
    <3> HIDE DEF step
    <3>3. /\ KnowsLesson(q, step.at, step.of, mem[q]) => KnowsLesson(q, step.at, step.of, mem[q])'
          /\ KnowsLevel(step.at, step.of, mem[q]) => KnowsLevel(step.at, step.of, mem[q])'
          /\ KnowsGrade(step.at, step.of, mem[q]) => KnowsGrade(step.at, step.of, mem[q])'
      BY <1>1, <1>2, <3>1, StillKnows DEF step
    <3> QED  BY <3>2, <3>3
  <2>2. KnowsRow(q, step.at, mem[q])'
    <3>1. /\ Named(ask[q])' = Named(ask[q])
          /\ ask[q].do \in OfItem \cup OfLesson \cup OfLevel \cup OfQuestion
               => Target(ask[q])' = Target(ask[q])
      BY <1>2, <1>6, OthersAsk
    <3>2. KnowsRow(q, step.at, mem[q])  BY <1>3, <1>6 DEF Knows
    <3> QED  BY <1>1, <1>2, <3>1, <3>2 DEF KnowsRow
  <2> QED  BY <1>1, <2>1, <2>2 DEF Knows
<1>7. Owing(q)'
  <2> SUFFICES ASSUME status[q] \in {"running", "done"}, todo[q] \notin Beginnings,
                      NEW x \in Counted(q)'
               PROVE  Counts(q, x)'
    BY <1>1 DEF Owing
  <2>1. Counted(q) \subseteq reach[q] /\ reach[q] \subseteq Rows  BY <1>1, CountedOn
  <2>2. Counted(q)' = Counted(q)
    <3>1. CASE ask[q].do \in Bulk
      <4>1. reach[q] = Rows  BY <1>1, <3>1 DEF BInv, Branches, Wide
      <4>2. \A s \in Lessons : lesson'[s] = lesson[s]  BY <1>2, <4>1 DEF Still, Rows
      <4>3. \A l \in Levels : level'[l] = level[l]  BY <1>2, <4>1 DEF Still, Rows
      <4>4. lesson' = lesson /\ level' = level  BY <4>2, <4>3 DEF TInv, Tabled
      <4> QED  BY <1>1, <1>2, <4>4 DEF Counted, Upward, Live
    <3>2. CASE ask[q].do \notin Bulk  BY <1>1, <1>2, <3>2 DEF Counted, Bulk
    <3> QED  BY <3>1, <3>2
  <2>3. Counts(q, x) /\ x \in reach[q]  BY <1>3, <2>1, <2>2 DEF Owing
  <2>4. /\ \A s : OwesLesson(q, s) => OwesLesson(q, s)'
        /\ \A l : OwesLevel(q, l) => OwesLevel(q, l)'
        /\ \A g : OwesGrade(q, g) => OwesGrade(q, g)'
    BY <1>1, <1>2, OthersOwe
  <2>5. x \in Lessons => (Done(q, x) => Done(q, x)')
    <3>1. x \in Lessons => lesson'[x] = lesson[x] /\ SameItems(x) /\ SameSaves(q)
      BY <1>2, <2>3 DEF Still
    <3> QED  BY <3>1, StaysDone DEF Done
  <2>6. x \in Levels => (RightLevel(x) => RightLevel(x)')
    <3>1. x \in Levels => level'[x] = level[x] /\ SameTotals(x)  BY <1>2, <2>3 DEF Still
    <3> QED  BY <3>1, StaysSummed
  <2>7. x \in Grades => (RightGrade(x) => RightGrade(x)')
    <3>1. x \in Grades => grade'[x] = grade[x] /\ SamePoints(x)  BY <1>2, <2>3 DEF Still
    <3> QED  BY <3>1, StaysWorth
  <2> QED  BY <2>3, <2>4, <2>5, <2>6, <2>7 DEF Counts
<1> QED  BY <1>1, <1>5, <1>6, <1>7

(***************************************************************************)
(* A clean request's own steps: what it knows, what it owes                *)
(***************************************************************************)

\* No row appears, goes, is moved, switched or deleted.
Kept ==
    /\ \A s \in Lessons : lesson'[s] = lesson[s] \/
          /\ lesson[s] # None /\ lesson'[s] # None
          /\ \A f \in {"level", "on", "deleted"} : lesson'[s][f] = lesson[s][f]
    /\ \A l \in Levels : level'[l] = level[l] \/
          /\ level[l] # None /\ level'[l] # None
          /\ \A f \in {"grade", "on", "deleted"} : level'[l][f] = level[l][f]

\* The level whose points a step sees to.
SeesTo(step, l) ==
    \/ step.at \in {"lesson", "refresh"} /\ lesson[step.of].level = l
    \/ step.at \in {"saveLevel", "worth"} /\ LevelOf(step) = l

\* What lessons and levels hang from is kept.
LEMMA KeptRows ==
    ASSUME TInv, TInv', Kept
    PROVE  /\ There(lesson)' = There(lesson) /\ There(level)' = There(level)
           /\ Live(lesson)' = Live(lesson) /\ Live(level)' = Live(level)
           /\ \A s \in There(lesson) : lesson'[s].level = lesson[s].level
           /\ \A l \in There(level) : level'[l].grade = level[l].grade
<1>1. /\ DOMAIN lesson = Lessons /\ DOMAIN lesson' = Lessons
      /\ DOMAIN level = Levels /\ DOMAIN level' = Levels
  BY DEF TInv, Tabled
<1>2. \A s \in Lessons : /\ lesson'[s] # None <=> lesson[s] # None
                         /\ lesson[s] # None => /\ lesson'[s].level = lesson[s].level
                                                /\ lesson'[s].on = lesson[s].on
                                                /\ lesson'[s].deleted = lesson[s].deleted
  BY DEF Kept
<1>3. \A l \in Levels : /\ level'[l] # None <=> level[l] # None
                        /\ level[l] # None => /\ level'[l].grade = level[l].grade
                                              /\ level'[l].on = level[l].on
                                              /\ level'[l].deleted = level[l].deleted
  BY DEF Kept
<1> QED  BY <1>1, <1>2, <1>3 DEF There, Live

\* What it counts is the same.
LEMMA KeptCounted ==
    ASSUME TInv, TInv', Kept, NEW p \in Requests, ask' = ask, reach'[p] = reach[p]
    PROVE  Counted(p)' = Counted(p)
<1>1. /\ There(lesson)' = There(lesson) /\ There(level)' = There(level)
      /\ Live(lesson)' = Live(lesson) /\ Live(level)' = Live(level)
      /\ \A s \in There(lesson) : lesson'[s].level = lesson[s].level
      /\ \A l \in There(level) : level'[l].grade = level[l].grade
  BY KeptRows
<1>2. /\ Live(lesson) \subseteq There(lesson) /\ Live(level) \subseteq There(level)
      /\ \A s \in There(lesson) : lesson[s] # None /\ lesson'[s] # None
      /\ \A l \in There(level) : level[l] # None /\ level'[l] # None
  BY <1>1 DEF Live, There
<1>3. ASSUME NEW ss, ss \subseteq There(lesson), NEW ls, ls \subseteq There(level)
      PROVE  Upward(ss, ls, {})' = Upward(ss, ls, {})
  <2> DEFINE ms == ls \cup { lesson[s].level : s \in { t \in ss : lesson[t] # None } }
  <2>1. ms' = ms  BY <1>1, <1>2, <1>3
  <2>2. ms \subseteq There(level)
    <3>1. \A s \in There(lesson) : lesson[s].level \in There(level)  BY DEF TInv, Rooted
    <3> QED  BY <1>3, <3>1
  <2>3. Upward(ss, ls, {}) = ss \cup ms \cup {} \cup { level[l].grade : l \in { m \in ms : level[m] # None } }
    BY DEF Upward
  <2>4. Upward(ss, ls, {})' = ss \cup ms' \cup {} \cup { level'[l].grade : l \in { m \in ms' : level'[m] # None } }
    BY DEF Upward
  <2> HIDE DEF ms
  <2>5. { level'[l].grade : l \in { m \in ms : level'[m] # None } }
          = { level[l].grade : l \in { m \in ms : level[m] # None } }
    BY <1>1, <1>2, <2>2
  <2> QED  BY <2>1, <2>3, <2>4, <2>5
<1>4. Upward(Live(lesson), {}, {})' = Upward(Live(lesson), {}, {})
  BY <1>1, <1>2, <1>3
<1>5. Upward({}, Live(level), {})' = Upward({}, Live(level), {})
  BY <1>1, <1>2, <1>3
<1> QED  BY <1>4, <1>5 DEF Counted

\* What it owed it owes, but for what the step that is done was to see to.
LEMMA OwesOn ==
    ASSUME TInv, TInv', Kept, NEW p \in Requests, NEW h,
           \A step \in ToSet(todo[p]) : step \in ToSet(todo'[p]) \/ step = h
    PROVE  /\ \A s : OwesLesson(p, s) => OwesLesson(p, s)' \/ (h.at \in ForLesson /\ LessonOf(h) = s)
           /\ \A l : OwesLevel(p, l) => OwesLevel(p, l)' \/ SeesTo(h, l)
<1>1. ASSUME NEW s, OwesLesson(p, s)
      PROVE  OwesLesson(p, s)' \/ (h.at \in ForLesson /\ LessonOf(h) = s)
  BY <1>1 DEF OwesLesson
<1>2. ASSUME NEW l, OwesLevel(p, l) PROVE OwesLevel(p, l)' \/ SeesTo(h, l)
  <2>1. PICK step \in ToSet(todo[p]) : \/ step.at \in {"lesson", "refresh"} /\ lesson[step.of].level = l
                                       \/ step.at \in {"saveLevel", "worth"} /\ LevelOf(step) = l
    BY <1>2 DEF OwesLevel
  <2>2. step.at \in {"lesson", "refresh"} => lesson'[step.of].level = lesson[step.of].level
    <3>1. \A n \in DOMAIN todo[p] : Apt(ask[p], todo[p][n], There(lesson), There(level))
      BY DEF TInv, Going, Steps, Sound
    <3>2. Apt(ask[p], step, There(lesson), There(level))  BY <3>1 DEF ToSet
    <3>3. step.at \in {"lesson", "refresh"} => step.of \in There(lesson)  BY <3>2 DEF Apt
    <3> QED  BY <3>3, KeptRows
  <2>3. CASE step = h  BY <2>1, <2>3 DEF SeesTo
  <2>4. CASE step \in ToSet(todo'[p])  BY <2>1, <2>2, <2>4 DEF OwesLevel
  <2> QED  BY <2>3, <2>4
<1> QED  BY <1>1, <1>2

\* What a step h leaves right or sees to, it does not leave undone.
SeesToAll(p, h) ==
    /\ \A s \in Lessons : Done(p, s) \/ (h.at \in ForLesson /\ LessonOf(h) = s)
                            => Done(p, s)' \/ OwesLesson(p, s)'
    /\ \A l \in Levels : RightLevel(l) => RightLevel(l)' \/ OwesLevel(p, l)'
    /\ \A l \in Levels : SeesTo(h, l) =>
          OwesLevel(p, l)' \/ (RightLevel(l)' /\ \A g : level[l].grade = g => OwesGrade(p, g)')
    /\ \A g \in Grades : RightGrade(g) \/ h = At("saveGrade", g)
                            => RightGrade(g)' \/ OwesGrade(p, g)'

\* A step that sees to what it was to count leaves nothing else to count.
LEMMA OwingOn ==
    ASSUME TInv, TInv', Kept, NEW p \in Requests, NEW h,
           \A step \in ToSet(todo[p]) : step \in ToSet(todo'[p]) \/ step = h,
           SeesToAll(p, h), Owing(p), status[p] \in {"running", "done"}, todo[p] \notin Beginnings,
           ask' = ask, reach'[p] = reach[p]
    PROVE  Owing(p)'
<1>1. Counted(p)' = Counted(p)  BY KeptCounted
<1>2. /\ \A s : OwesLesson(p, s) => OwesLesson(p, s)' \/ (h.at \in ForLesson /\ LessonOf(h) = s)
      /\ \A l : OwesLevel(p, l) => OwesLevel(p, l)' \/ SeesTo(h, l)
  BY OwesOn
<1>3. ASSUME NEW x \in Counted(p) PROVE Counts(p, x)'
  <2>1. Counts(p, x)  BY <1>3 DEF Owing
  <2>2. x \in Lessons => Done(p, x)' \/ OwesLesson(p, x)'
    BY <1>2, <2>1 DEF Counts, SeesToAll
  <2>3. x \in Levels => RightLevel(x)' \/ OwesLevel(p, x)'
    BY <1>2, <2>1 DEF Counts, SeesToAll
  <2>4. ASSUME x \in Grades PROVE RightGrade(x)' \/ OwesGrade(p, x)'
    <3>1. CASE RightGrade(x) \/ h = At("saveGrade", x)  BY <2>4, <3>1 DEF SeesToAll
    <3>2. CASE At("saveGrade", x) \in ToSet(todo[p]) /\ h # At("saveGrade", x)
      <4>1. At("saveGrade", x) \in ToSet(todo'[p])  BY <3>2
      <4> QED  BY <4>1 DEF OwesGrade
    <3>3. ASSUME NEW l \in There(level), OwesLevel(p, l), level[l].grade = x
          PROVE  RightGrade(x)' \/ OwesGrade(p, x)'
      <4>1. l \in There(level)' /\ level'[l].grade = x /\ l \in Levels
        BY <3>3, KeptRows, ThereIs DEF TInv
      <4>2. CASE OwesLevel(p, l)'  BY <4>1, <4>2 DEF OwesGrade
      <4>3. CASE ~OwesLevel(p, l)'
        <5>1. SeesTo(h, l)  BY <1>2, <3>3, <4>3
        <5> QED  BY <3>3, <4>1, <4>3, <5>1 DEF SeesToAll
      <4> QED  BY <4>2, <4>3
    <3>4. RightGrade(x) \/ OwesGrade(p, x)  BY <2>1, <2>4 DEF Counts
    <3> QED  BY <3>1, <3>2, <3>3, <3>4 DEF OwesGrade
  <2> QED  BY <2>2, <2>3, <2>4 DEF Counts
<1> QED  BY <1>1, <1>3 DEF Owing

\* What a clean request knows at its next step.
LEMMA HeadKnown ==
    ASSUME IInv, TInv, BInv, Cleans, NEW p \in Requests, clean[p], todo[p] # <<>>
    PROVE  /\ Knows(p, Head(todo[p]), mem[p]) /\ Owing(p) /\ status[p] = "running"
           /\ \A step \in ToSet(todo[p]) :
                 /\ Ahead(p, step) /\ StepOn(step, reach[p])
                 /\ Apt(ask[p], step, There(lesson), There(level))
           /\ Head(todo[p]) \in ToSet(todo[p]) /\ ToSet(Tail(todo[p])) \subseteq ToSet(todo[p])
<1>1. status[p] = "running"  BY DEF TInv, Going, Running
<1>2. Knows(p, Head(todo[p]), mem[p]) /\ Owing(p) /\ \A step \in ToSet(todo[p]) : Ahead(p, step)
  BY <1>1 DEF Cleans, Clean
<1>3. ToSet(todo[p]) = {Head(todo[p])} \cup ToSet(Tail(todo[p]))  BY HeadShape DEF BInv
<1>4. \A step \in ToSet(todo[p]) : StepOn(step, reach[p])  BY DEF BInv, Branches, Inside
<1>5. \A n \in DOMAIN todo[p] : Apt(ask[p], todo[p][n], There(lesson), There(level))
  BY DEF TInv, Going, Steps, Sound
<1>6. \A step \in ToSet(todo[p]) : Apt(ask[p], step, There(lesson), There(level))
  BY <1>5 DEF ToSet
<1> QED  BY <1>1, <1>2, <1>3, <1>4, <1>6

\* An open step needs nothing known.
LEMMA OpenKnown ==
    ASSUME NEW p, NEW step, NEW held, Open(step)
    PROVE  Knows(p, step, held)'
<1>1. step.at \notin {"write", "sum", "quiz", "saveLevel", "sumGrade", "saveGrade",
                      "count", "spread", "last", "read", "scan"}
  BY DEF Open, Prior
<1> QED  BY <1>1 DEF Knows, KnowsRow, KnowsLesson, KnowsLevel, KnowsGrade, Early

\* What is known of the next step is known of that step, whatever it is called.
NextKnown ==
    \A p, step, held : step = Head(todo[p]) /\ held = mem[p] /\ Knows(p, step, held)
                        => Knows(p, Head(todo[p]), mem[p])

\* What a step knows, by the step.
LEMMA StepKnown == NextKnown
BY DEF NextKnown

\* The same of the next state.
LEMMA NextStepKnown == NextKnown'
BY StepKnown, PTL

\* A clean request that goes on, past its beginning.
LEMMA OwnClean ==
    ASSUME IInv, TInv, TInv', BInv, Cleans, NEW p \in Requests, Acts(p), clean[p],
           todo[p] # <<>>, Head(todo[p]).at \notin Early, Kept,
           NEW steps, NEW held, Continue(p, steps, held), IsSeq(steps),
           steps # <<>> => \A b : b = steps[1] => Knows(p, b, held)',
           steps = <<>> => \A b : Follows(Head(todo[p]), b) => Knows(p, b, held)',
           \A b \in ToSet(steps) : Ahead(p, b)',
           \A s \in Lessons : /\ Head(todo[p]).at \in ForLesson => s # LessonOf(Head(todo[p]))
                              /\ NoSaves(p, s)
                              => NoSaves(p, s)',
           \A l \in Levels : (Head(todo[p]).at \in ForLevel => l # LevelOf(Head(todo[p])))
                              => level'[l] = level[l],
           SeesToAll(p, Head(todo[p]))
    PROVE  Clean(p)'
<1> DEFINE h == Head(todo[p])  rest == steps \o Tail(todo[p])
<1>1. /\ IsSeq(Tail(todo[p])) /\ ToSet(todo[p]) = {h} \cup ToSet(Tail(todo[p]))
      /\ \A b \in ToSet(Tail(todo[p])) : Distinct(h, b)
      /\ todo[p] \notin Beginnings
  BY HeadShape DEF BInv
<1>2. IsSeq(rest) /\ ToSet(rest) = ToSet(steps) \cup ToSet(Tail(todo[p]))  BY <1>1, Elements
<1>3. /\ todo'[p] = rest /\ mem'[p] = (IF rest = <<>> THEN NoMem ELSE held)
      /\ ask' = ask /\ reach'[p] = reach[p]
  <2>1. \A q \in Requests : clean'[q] => clean[q]  BY DEF Acts, OthersStay
  <2>2. todo'[p] = rest /\ mem'[p] = (IF todo'[p] = <<>> THEN NoMem ELSE held)
    BY <2>1, Goings
  <2> HIDE DEF rest
  <2>3. reach'[p] = reach[p]  BY DEF Acts, Grows
  <2> QED  BY <2>2, <2>3 DEF Acts
<1>4. /\ Owing(p) /\ status[p] = "running"
      /\ \A step \in ToSet(todo[p]) : /\ Ahead(p, step)
                                      /\ Apt(ask[p], step, There(lesson), There(level))
  BY HeadKnown
<1>5. ASSUME rest # <<>>, NEW b, b = Head(rest) PROVE Knows(p, b, held)'
  <2>1. CASE steps = <<>>
    <3>1. rest = Tail(todo[p])  BY <1>1, <2>1, NothingBefore
    <3>2. IsSeq(todo[p]) /\ Chain(todo[p])  BY DEF TInv, Going, Steps, Sound
    <3>3. Head(rest) = Tail(todo[p])[1] /\ Follows(h, Tail(todo[p])[1])
      BY <1>5, <3>1, <3>2, RestChain
    <3>4. Follows(h, b)  BY <1>5, <3>3
    <3> QED  BY <2>1, <3>4
  <2>2. CASE steps # <<>>
    <3>1. b = steps[1]  BY <1>1, <1>5, <2>2, HeadOfJoin
    <3> QED  BY <2>2, <3>1
  <2> QED  BY <2>1, <2>2
<1>6. ASSUME NEW b \in ToSet(Tail(todo[p])) PROVE Ahead(p, b)'
  <2>1. Ahead(p, b) /\ Distinct(h, b) /\ Apt(ask[p], b, There(lesson), There(level))
    BY <1>1, <1>4
  <2>2. There(lesson) \subseteq Lessons /\ There(level) \subseteq Levels  BY ThereIs DEF TInv
  <2>3. CASE b.at \in {"lesson", "refresh"}
    <3>1. b.of \in There(lesson) /\ b.of \in Lessons  BY <2>1, <2>2, <2>3 DEF Apt
    <3>2. h.at \in ForLesson => b.of # LessonOf(h)  BY <2>1, <2>3 DEF Distinct
    <3>3. NoSaves(p, b.of)'  BY <2>1, <2>3, <3>1, <3>2 DEF Ahead
    <3>4. b.at = "refresh" => ~lesson'[b.of].deleted
      BY <2>1, <3>1 DEF Ahead, Kept
    <3> QED  BY <2>3, <3>3, <3>4 DEF Ahead
  <2>4. CASE b.at = "worth"
    <3>1. b.of[1] \in Levels  BY <2>1, <2>2, <2>4 DEF Apt
    <3>2. h.at \in ForLevel => b.of[1] # LevelOf(h)  BY <2>1, <2>4 DEF Distinct
    <3>3. level'[b.of[1]] = level[b.of[1]]  BY <3>1, <3>2
    <3> QED  BY <2>1, <2>4, <3>3 DEF Ahead
  <2> QED  BY <2>3, <2>4 DEF Ahead
<1>7. Owing(p)'
  <2>1. \A step \in ToSet(todo[p]) : step \in ToSet(todo'[p]) \/ step = h  BY <1>1, <1>2, <1>3
  <2> HIDE DEF h
  <2> QED  BY <1>1, <1>3, <1>4, <2>1, OwingOn DEF h
<1>8. \A step \in ToSet(todo'[p]) : Ahead(p, step)'  BY <1>2, <1>3, <1>6
<1>9. todo'[p] # <<>> => Knows(p, Head(todo[p]), mem[p])'
  <2> SUFFICES ASSUME todo'[p] # <<>> PROVE Knows(p, Head(todo[p]), mem[p])'
    OBVIOUS
  <2> HIDE DEF rest
  <2>1. PICK b : b = Head(rest)  OBVIOUS
  <2>2. Knows(p, b, held)'  BY <1>3, <1>5, <2>1
  <2>3. b = Head(todo'[p]) /\ held = mem'[p]  BY <1>3, <2>1
  <2> QED  BY <2>2, <2>3, NextStepKnown DEF NextKnown
<1> QED  BY <1>7, <1>8, <1>9 DEF Clean

\* Where no row changes and nothing is sent, all that is counted stays.
LEMMA AllStill ==
    ASSUME UNCHANGED <<tables, unsaved>>
    PROVE  /\ Kept
           /\ \A p, s : /\ Done(p, s)' <=> Done(p, s)
                        /\ NoSaves(p, s)' <=> NoSaves(p, s)
                        /\ SharesSent(p, s)' <=> SharesSent(p, s)
                        /\ ItemSaves(p, s)' = ItemSaves(p, s)
           /\ \A s : /\ \A ks : SpreadOver(s, ks)' <=> SpreadOver(s, ks)
                     /\ \A held, ks : HoldsLesson(s, held, ks)' <=> HoldsLesson(s, held, ks)
                     /\ \A k : NumOf(s, k)' = NumOf(s, k)
           /\ \A l : /\ RightLevel(l)' <=> RightLevel(l)
                     /\ Totals(l)' = Totals(l) /\ QuizWorth(l)' = QuizWorth(l)
           /\ \A g : /\ RightGrade(g)' <=> RightGrade(g)
                     /\ LevelSum(g)' = LevelSum(g) /\ LiveLevels(g)' = LiveLevels(g)
<1>1. UNCHANGED <<grade, level, lesson, item, question, unsaved>>  BY DEF tables
<1>2. Kept  BY <1>1 DEF Kept
<1>3. ASSUME NEW p, NEW s
      PROVE  /\ Done(p, s)' <=> Done(p, s)
             /\ NoSaves(p, s)' <=> NoSaves(p, s)
             /\ SharesSent(p, s)' <=> SharesSent(p, s)
             /\ ItemSaves(p, s)' = ItemSaves(p, s)
             /\ \A ks : SpreadOver(s, ks)' <=> SpreadOver(s, ks)
             /\ \A held, ks : HoldsLesson(s, held, ks)' <=> HoldsLesson(s, held, ks)
             /\ \A k : NumOf(s, k)' = NumOf(s, k)
  <2>1. SameItems(s) /\ SameSaves(p) /\ lesson'[s] = lesson[s]
    BY <1>1 DEF SameItems, SameSaves, ItemsOf
  <2>2. \A k : NumOf(s, k)' = NumOf(s, k)  BY <2>1, SameCounts DEF SameItems
  <2> QED  BY <2>1, <2>2, StaysDone DEF Done, NoSaves
<1>4. ASSUME NEW l
      PROVE  /\ RightLevel(l)' <=> RightLevel(l)
             /\ Totals(l)' = Totals(l) /\ QuizWorth(l)' = QuizWorth(l)
  <2>1. SameTotals(l) /\ level'[l] = level[l]
    BY <1>1 DEF SameTotals, LiveLessons, Live, HasQuiz
  <2> QED  BY <2>1, StaysSummed
<1>5. ASSUME NEW g
      PROVE  /\ RightGrade(g)' <=> RightGrade(g)
             /\ LevelSum(g)' = LevelSum(g) /\ LiveLevels(g)' = LiveLevels(g)
  <2>1. SamePoints(g) /\ grade'[g] = grade[g]  BY <1>1 DEF SamePoints, LiveLevels, Live
  <2> QED  BY <2>1, StaysWorth
<1> QED  BY <1>2, <1>3, <1>4, <1>5

\* Reads that see to nothing.
LEMMA OwnReads ==
    ASSUME IInv, TInv, TInv', BInv, Cleans, NEW p \in Requests, Acts(p), clean[p],
           todo[p] # <<>>, UNCHANGED <<tables, unsaved>>,
           Head(todo[p]).at \in {"level", "sum", "quiz", "grade", "sumGrade", "check", "list", "place"},
           NEW steps, NEW held, Continue(p, steps, held), IsSeq(steps),
           steps # <<>> => \A b : b = steps[1] => Knows(p, b, held)',
           steps = <<>> => \A b : Follows(Head(todo[p]), b) => Knows(p, b, held)',
           \A b \in ToSet(steps) : Ahead(p, b)'
    PROVE  Clean(p)'
<1> DEFINE h == Head(todo[p])
<1>1. Kept  BY AllStill
<1>2. h.at \notin Early  BY DEF Early
<1>3. \A s \in Lessons : /\ h.at \in ForLesson => s # LessonOf(h)
                         /\ NoSaves(p, s)
                         => NoSaves(p, s)'
  BY AllStill
<1>4. \A l \in Levels : (h.at \in ForLevel => l # LevelOf(h)) => level'[l] = level[l]
  BY DEF tables
<1>5. SeesToAll(p, h)
  <2>1. h.at \notin ForLesson /\ h.at \notin {"lesson", "refresh", "saveLevel", "worth", "saveGrade"}
    BY DEF ForLesson
  <2>2. (\A l : ~SeesTo(h, l)) /\ \A g : h # At("saveGrade", g)  BY <2>1 DEF SeesTo, At
  <2>3. /\ \A s : Done(p, s)' <=> Done(p, s)
        /\ \A l : RightLevel(l)' <=> RightLevel(l)
        /\ \A g : RightGrade(g)' <=> RightGrade(g)
    BY AllStill
  <2> HIDE DEF h
  <2> QED  BY <2>1, <2>2, <2>3 DEF SeesToAll
<1> QED  BY <1>1, <1>2, <1>3, <1>4, <1>5, OwnClean

\* The step that comes after this one, of the same row.
LEMMA FollowsWhat ==
    ASSUME NEW a, NEW b, Follows(a, b)
    PROVE  \/ Open(b)
           \/ b.of = a.of /\ <<a.at, b.at>> \in {<<"read", "write">>, <<"level", "sum">>,
                 <<"sum", "quiz">>, <<"quiz", "saveLevel">>, <<"grade", "sumGrade">>,
                 <<"sumGrade", "saveGrade">>}
           \/ b.at \in {"count", "spread", "last"} /\ a.at \in {"count", "spread"}
<1>1. CASE b.at \in {"count", "spread", "last"}  BY <1>1, FollowsAt
<1>2. CASE b.at \in DOMAIN Prior
  <2>1. a.at = Prior[b.at] /\ a.of = b.of  BY <1>2 DEF Follows, At
  <2> QED  BY <1>2, <2>1 DEF Prior
<1>3. CASE b.at \notin DOMAIN Prior \cup {"count", "spread", "last"}
  <2>1. b.at \notin {"read", "scan"}  BY DEF Follows
  <2> QED  BY <1>3, <2>1 DEF Open
<1> QED  BY <1>1, <1>2, <1>3

\* A level is read and summed: what is held is what the level is to be.
LEMMA LevelReadsClean ==
    ASSUME IInv, TInv, TInv', BInv, Cleans, NEW p \in Requests, Acts(p), clean[p],
           ReadLevel(p) \/ SumLessons(p) \/ CountQuiz(p)
    PROVE  Clean(p)'
<1>1. PICK step, held :
        /\ step \in {"level", "sum", "quiz"} /\ Does(p, step) /\ Continue(p, <<>>, held)
        /\ step = "level" => held = Hold(p, "level", level[Row(p)])
        /\ step = "sum" => held = Hold(p, "sum", Totals(Row(p)))
        /\ step = "quiz" => held = Hold(p, "sum", mem[p].sum
                                        + (IF HasQuiz(Row(p)) THEN mem[p].level.worth ELSE 0))
  <2>1. CASE ReadLevel(p)  BY <2>1 DEF ReadLevel
  <2>2. CASE SumLessons(p)  BY <2>2 DEF SumLessons, Totals
  <2>3. CASE CountQuiz(p)  BY <2>3 DEF CountQuiz
  <2> QED  BY <2>1, <2>2, <2>3
<1>2. UNCHANGED <<tables, unsaved>>  BY DEF ReadLevel, SumLessons, CountQuiz
<1>3. PICK l : l = Row(p)  OBVIOUS
<1>4. /\ todo[p] # <<>> /\ Head(todo[p]).at = step /\ Head(todo[p]).of = l
      /\ mem[p] \in MemRow
  BY <1>1, <1>3, HeadStep DEF IInv, TInv
<1>5. Knows(p, Head(todo[p]), mem[p])  BY <1>4, HeadKnown
<1>6. KnowsLevel(step, l, mem[p])  BY <1>4, <1>5 DEF Knows
<1>7. /\ step = "level" => held.level = level[l]
      /\ step = "sum" => held.level = mem[p].level /\ held.sum = Totals(l)
      /\ step = "quiz" => held.level = mem[p].level /\ held.sum = Totals(l) + QuizWorth(l)
  <2>1. step = "level" => held.level = level[l]  BY <1>1, <1>3, <1>4 DEF Hold, MemRow
  <2>2. step = "sum" => held.level = mem[p].level /\ held.sum = Totals(l)
    BY <1>1, <1>3, <1>4 DEF Hold, MemRow
  <2>3. step = "quiz" => mem[p].sum = Totals(l) /\ mem[p].level.worth = level[l].worth
    BY <1>6 DEF KnowsLevel
  <2>4. step = "quiz" => held.level = mem[p].level /\ held.sum = Totals(l) + QuizWorth(l)
    BY <1>1, <1>3, <1>4, <2>3 DEF Hold, MemRow, QuizWorth
  <2> QED  BY <2>1, <2>2, <2>4
<1>8. ASSUME NEW b, Follows(Head(todo[p]), b) PROVE Knows(p, b, held)'
  <2>1. CASE Open(b)  BY <2>1, OpenKnown
  <2>2. CASE ~Open(b)
    <3>1. b.of = l /\ <<step, b.at>> \in {<<"level", "sum">>, <<"sum", "quiz">>, <<"quiz", "saveLevel">>}
      BY <1>1, <1>4, <1>8, <2>2, FollowsWhat
    <3>2. UNCHANGED <<level, ask>> /\ Totals(l)' = Totals(l) /\ QuizWorth(l)' = QuizWorth(l)
      BY <1>2, AllStill DEF tables, Acts
    <3>3. KnowsLevel(b.at, l, held)'
      <4>1. /\ held.level.grade = level[l].grade /\ held.level.worth = level[l].worth
            /\ held.level.points \in {level[l].points, None}
        BY <1>1, <1>6, <1>7 DEF KnowsLevel
      <4>2. b.at = "quiz" => held.sum = Totals(l)  BY <1>7, <3>1
      <4>3. b.at = "saveLevel" => held.sum = Totals(l) + QuizWorth(l)  BY <1>7, <3>1
      <4> QED  BY <3>2, <4>1, <4>2, <4>3 DEF KnowsLevel
    <3>4. KnowsLevel(b.at, b.of, held)'  BY <3>1, <3>3
    <3>5. b.at \in {"sum", "quiz", "saveLevel"}  BY <3>1
    <3> QED  BY <3>4, <3>5 DEF Knows, KnowsRow, KnowsLesson, KnowsGrade, Early
  <2> QED  BY <2>1, <2>2
<1>9. IsSeq(<<>>) /\ ToSet(<<>>) = {}  BY Elements DEF IsSeq
<1> QED  BY <1>1, <1>2, <1>4, <1>8, <1>9, OwnReads

\* A grade is read and summed: of no levels the sum is null.
LEMMA GradeReadsClean ==
    ASSUME IInv, TInv, TInv', BInv, Cleans, NEW p \in Requests, Acts(p), clean[p],
           ReadGrade(p) \/ SumLevels(p)
    PROVE  Clean(p)'
<1>1. PICK step, held :
        /\ step \in {"grade", "sumGrade"} /\ Does(p, step) /\ Continue(p, <<>>, held)
        /\ step = "grade" => held = Hold(p, "grade", grade[Row(p)])
        /\ step = "sumGrade" => held = Hold(p, "sum", IF LiveLevels(Row(p)) = {} THEN None
                                                      ELSE LevelSum(Row(p)))
  <2>1. CASE ReadGrade(p)  BY <2>1 DEF ReadGrade
  <2>2. CASE SumLevels(p)  BY <2>2 DEF SumLevels, LevelSum
  <2> QED  BY <2>1, <2>2
<1>2. UNCHANGED <<tables, unsaved>>  BY DEF ReadGrade, SumLevels
<1>3. PICK g : g = Row(p)  OBVIOUS
<1>4. /\ todo[p] # <<>> /\ Head(todo[p]).at = step /\ Head(todo[p]).of = g
      /\ mem[p] \in MemRow
  BY <1>1, <1>3, HeadStep DEF IInv, TInv
<1>5. Knows(p, Head(todo[p]), mem[p])  BY <1>4, HeadKnown
<1>6. step = "sumGrade" => mem[p].grade = grade[g]  BY <1>4, <1>5 DEF Knows, KnowsGrade
<1>7. /\ held.grade = grade[g]
      /\ step = "sumGrade" => held.sum = IF LiveLevels(g) = {} THEN None ELSE LevelSum(g)
  <2>1. step = "grade" => held.grade = grade[g]  BY <1>1, <1>3, <1>4 DEF Hold, MemRow
  <2>2. step = "sumGrade" => /\ held.grade = mem[p].grade
                             /\ held.sum = IF LiveLevels(g) = {} THEN None ELSE LevelSum(g)
    BY <1>1, <1>3, <1>4 DEF Hold, MemRow
  <2> QED  BY <1>1, <1>6, <2>1, <2>2
<1>8. ASSUME NEW b, Follows(Head(todo[p]), b) PROVE Knows(p, b, held)'
  <2>1. CASE Open(b)  BY <2>1, OpenKnown
  <2>2. CASE ~Open(b)
    <3>1. b.of = g /\ <<step, b.at>> \in {<<"grade", "sumGrade">>, <<"sumGrade", "saveGrade">>}
      BY <1>1, <1>4, <1>8, <2>2, FollowsWhat
    <3>2. grade' = grade /\ LevelSum(g)' = LevelSum(g) /\ LiveLevels(g)' = LiveLevels(g)
      BY <1>2, AllStill DEF tables
    <3>3. KnowsGrade(b.at, g, held)'  BY <1>7, <3>1, <3>2 DEF KnowsGrade
    <3>4. KnowsGrade(b.at, b.of, held)'  BY <3>1, <3>3
    <3>5. b.at \in {"sumGrade", "saveGrade"}  BY <3>1
    <3> QED  BY <3>4, <3>5 DEF Knows, KnowsRow, KnowsLesson, KnowsLevel, Early
  <2> QED  BY <2>1, <2>2
<1>9. IsSeq(<<>>) /\ ToSet(<<>>) = {}  BY Elements DEF IsSeq
<1> QED  BY <1>1, <1>2, <1>4, <1>8, <1>9, OwnReads

\* A reorder counts nothing, and nothing need be known for it.
OrdersClean == IInv => \A p \in Requests : ask[p].do = "reorder" => Clean(p)

\* A reorder counts nothing.
LEMMA ReorderClean == OrdersClean
<1> SUFFICES ASSUME IInv, NEW p \in Requests, ask[p].do = "reorder" PROVE Clean(p)
  BY DEF OrdersClean
<1>1. IsSeq(todo[p]) /\ \A n \in DOMAIN todo[p] : todo[p][n].at \in OrderSteps
  BY DEF IInv, Todos, AllFit, Fits
<1>2. \A step \in ToSet(todo[p]) : step.at \in OrderSteps  BY <1>1 DEF ToSet
<1>3. todo[p] # <<>> => Head(todo[p]) \in ToSet(todo[p])  BY <1>1, Elements
<1>4. todo[p] # <<>> => Knows(p, Head(todo[p]), mem[p])
  BY <1>2, <1>3 DEF Knows, KnowsRow, KnowsLesson, KnowsLevel, KnowsGrade, Early, OrderSteps,
                    OfItem, OfLesson, OfLevel, OfQuestion
<1>5. \A step \in ToSet(todo[p]) : Ahead(p, step)  BY <1>2 DEF Ahead, OrderSteps
<1>6. Owing(p)  BY DEF Owing, Counted
<1> QED  BY <1>4, <1>5, <1>6 DEF Clean

\* The same of the next state.
LEMMA NextReorderClean == OrdersClean'
BY ReorderClean, PTL

\* A request that has stopped owes nothing any more.
LEMMA StoppedClean ==
    ASSUME NEW p, todo'[p] = <<>>, status'[p] \in {"refused", "failed"}
    PROVE  Clean(p)'
<1>1. ToSet(<<>>) = {}  BY Elements
<1> QED  BY <1>1 DEF Clean, Owing

\* A request that is idle counts nothing.
LEMMA IdleClean == \A p : status[p] = "idle" => Clean(p)
BY DEF Clean

(***************************************************************************)
(* A clean request's saves of points                                       *)
(***************************************************************************)

\* Where only points change, what is done and what is to be summed stays.
LEMMA PartsStill ==
    /\ UNCHANGED <<lesson, item, unsaved>> =>
          \A p, s : (Done(p, s)' <=> Done(p, s)) /\ (NoSaves(p, s)' <=> NoSaves(p, s))
    /\ UNCHANGED <<lesson, question>> => \A l : SameTotals(l)
    /\ UNCHANGED level => \A g : SamePoints(g)
<1>1. ASSUME UNCHANGED <<lesson, item, unsaved>>, NEW p, NEW s
      PROVE  (Done(p, s)' <=> Done(p, s)) /\ (NoSaves(p, s)' <=> NoSaves(p, s))
  <2>1. SameItems(s) /\ SameSaves(p) /\ lesson'[s] = lesson[s]
    BY <1>1 DEF SameItems, SameSaves, ItemsOf
  <2> QED  BY <2>1, StaysDone DEF Done, NoSaves
<1>2. UNCHANGED <<lesson, question>> => \A l : SameTotals(l)
  BY DEF SameTotals, LiveLessons, Live, HasQuiz
<1>3. UNCHANGED level => \A g : SamePoints(g)  BY DEF SamePoints, LiveLevels, Live
<1> QED  BY <1>1, <1>2, <1>3

\* The steps that count a grade, a level, a lesson again.
LEMMA StepsIn ==
    /\ \A g : At("saveGrade", g) \in ToSet(Regrade(g))
    /\ \A l : At("saveLevel", l) \in ToSet(Resum(l)) /\ At("saveLevel", l) \in ToSet(Reload(l))
    /\ \A s : At("lesson", s) \in ToSet(Recount(s)) /\ At("last", s) \in ToSet(Respread(s))
<1>1. ASSUME NEW g PROVE At("saveGrade", g) \in ToSet(Regrade(g))
  <2>1. 3 \in DOMAIN Regrade(g) /\ Regrade(g)[3] = At("saveGrade", g)  BY DEF Regrade
  <2> QED  BY <2>1 DEF ToSet
<1>2. ASSUME NEW l PROVE At("saveLevel", l) \in ToSet(Resum(l))
  <2>1. 3 \in DOMAIN Resum(l) /\ Resum(l)[3] = At("saveLevel", l)  BY DEF Resum
  <2> QED  BY <2>1 DEF ToSet
<1>3. ASSUME NEW l PROVE At("saveLevel", l) \in ToSet(Reload(l))
  <2>1. 4 \in DOMAIN Reload(l) /\ Reload(l)[4] = At("saveLevel", l)  BY ReloadIs
  <2> QED  BY <2>1 DEF ToSet
<1>4. ASSUME NEW s PROVE At("last", s) \in ToSet(Respread(s))
  <2>1. DOMAIN Respread(s) = 1 .. 7 /\ Respread(s)[7] = At("last", s)  BY RespreadIs
  <2>2. 7 \in DOMAIN Respread(s)  BY <2>1
  <2> QED  BY <2>1, <2>2 DEF ToSet
<1>5. \A s : At("lesson", s) \in ToSet(Recount(s))  BY ListsInOrder
<1> QED  BY <1>1, <1>2, <1>3, <1>4, <1>5

\* What a request goes on with is among what it has left.
LEMMA GoesWith ==
    ASSUME IInv, TInv, BInv, NEW p \in Requests, Acts(p), todo[p] # <<>>,
           NEW steps, NEW held, Continue(p, steps, held), IsSeq(steps)
    PROVE  ToSet(todo'[p]) = ToSet(steps) \cup ToSet(Tail(todo[p]))
<1>1. \A q \in Requests : clean'[q] => clean[q]  BY DEF Acts, OthersStay
<1>2. todo'[p] = steps \o Tail(todo[p])  BY <1>1, Goings
<1>3. IsSeq(Tail(todo[p]))  BY HeadShape DEF BInv
<1> QED  BY <1>2, <1>3, Elements

\* After a closing step comes one that needs nothing known.
LEMMA ClosingKnown ==
    ASSUME NEW p, NEW a, NEW held, a.at \in Closing
    PROVE  \A b : Follows(a, b) => Knows(p, b, held)'
BY OpenFollows, OpenKnown

\* The sum of no levels is 0.
LEMMA NoLevels == \A g : LiveLevels(g) = {} => LevelSum(g) = 0
<1> SUFFICES ASSUME NEW g, LiveLevels(g) = {} PROVE LevelSum(g) = 0
  OBVIOUS
<1> DEFINE f == [l \in LiveLevels(g) |-> level[l].points]
<1>1. DOMAIN f = {} /\ LevelSum(g) = SumFunction(f)  BY DEF LevelSum
<1> HIDE DEF f
<1>2. SumFunction(f) = Part(f, {})  BY <1>1 DEF SumFunction, Part
<1>3. IsFiniteSet({})  BY FS_EmptySet
<1> QED  BY <1>1, <1>2, <1>3, PartUnfolds

\* A grade is saved as the sum of its levels, of none as 0.
LEMMA SaveGradeClean ==
    ASSUME IInv, TInv, TInv', BInv, Cleans, NEW p \in Requests, Acts(p), clean[p], SaveGrade(p)
    PROVE  Clean(p)'
<1>1. PICK g : g = Row(p)  OBVIOUS
<1>2. /\ Does(p, "saveGrade") /\ Continue(p, <<>>, mem[p])
      /\ UNCHANGED <<level, lesson, item, question, unsaved>>
      /\ grade' = CASE mem[p].sum # None -> [grade EXCEPT ![g] = mem[p].sum]
                    [] mem[p].sum = None /\ mem[p].grade # 0 -> [grade EXCEPT ![g] = 0]
                    [] OTHER -> grade
  BY <1>1 DEF SaveGrade
<1> DEFINE h == Head(todo[p])
<1>3. /\ todo[p] # <<>> /\ h.at = "saveGrade" /\ h.of = g
      /\ Apt(ask[p], h, There(lesson), There(level))
  BY <1>1, <1>2, HeadStep DEF IInv, TInv
<1>4. KnowsGrade("saveGrade", g, mem[p])  BY <1>3, HeadKnown DEF Knows
<1>5. g \in Grades /\ DOMAIN grade = Grades  BY <1>3 DEF Apt, TInv, Tabled
<1>6. /\ mem[p].grade = grade[g]
      /\ mem[p].sum = IF LiveLevels(g) = {} THEN None ELSE LevelSum(g)
  BY <1>4 DEF KnowsGrade
<1>7. LevelSum(g) \in Nat /\ None \notin Nat
  BY SumsNat, CurriculumTreeAssumed DEF CurriculumTreeAssumption, LevelSum
<1>8. grade'[g] = LevelSum(g)
  <2>1. CASE LiveLevels(g) = {}
    <3>1. LevelSum(g) = 0  BY <2>1, NoLevels
    <3> QED  BY <1>2, <1>5, <1>6, <2>1, <3>1
  <2>2. CASE LiveLevels(g) # {}
    <3>1. mem[p].sum = LevelSum(g) /\ mem[p].sum # None  BY <1>6, <1>7, <2>2
    <3> QED  BY <1>2, <1>5, <3>1
  <2> QED  BY <2>1, <2>2
<1>9. \A x \in Grades \ {g} : grade'[x] = grade[x]  BY <1>2, <1>5
<1>10. \A x : SamePoints(x)  BY <1>2, PartsStill
<1>11. /\ \A x : LevelSum(x)' = LevelSum(x)
       /\ \A x \in Grades \ {g} : RightGrade(x)' <=> RightGrade(x)
  BY <1>9, <1>10, StaysWorth
<1>12. RightGrade(g)'
  <2>1. RightGrade(g)' <=> grade'[g] = LevelSum(g)'  BY DEF RightGrade, LevelSum
  <2> QED  BY <1>8, <1>11, <2>1
<1>13. /\ \A s : (Done(p, s)' <=> Done(p, s)) /\ (NoSaves(p, s)' <=> NoSaves(p, s))
       /\ \A l : RightLevel(l)' <=> RightLevel(l)
  <2>1. \A l : SameTotals(l) /\ level'[l] = level[l]  BY <1>2, PartsStill
  <2> QED  BY <1>2, <2>1, PartsStill, StaysSummed
<1>14. SeesToAll(p, h)
  <2>1. h.at \notin ForLesson  BY <1>3 DEF ForLesson
  <2>2. \A l : ~SeesTo(h, l)  BY <1>3 DEF SeesTo
  <2>3. \A x : h = At("saveGrade", x) => x = g  BY <1>3 DEF At
  <2> HIDE DEF h
  <2> QED  BY <1>11, <1>12, <1>13, <2>1, <2>2, <2>3 DEF SeesToAll
<1>15. Kept  BY <1>2 DEF Kept
<1>16. h.at \notin Early /\ h.at \in Closing  BY <1>3 DEF Early, Closing
<1>17. IsSeq(<<>>) /\ ToSet(<<>>) = {}  BY Elements DEF IsSeq
<1>18. PICK held : held = mem[p]  OBVIOUS
<1>19. Continue(p, <<>>, held) /\ \A b : Follows(h, b) => Knows(p, b, held)'
  BY <1>2, <1>16, <1>18, ClosingKnown
<1>20. \A l \in Levels : level'[l] = level[l]  BY <1>2
<1> QED  BY <1>3, <1>13, <1>14, <1>15, <1>16, <1>17, <1>19, <1>20, OwnClean

\* Where no row appears, goes, moves or is switched, the same rows are summed.
LEMMA KeptSums ==
    ASSUME TInv, TInv', Kept
    PROVE  /\ \A l : LiveLessons(l)' = LiveLessons(l)
           /\ \A g : LiveLevels(g)' = LiveLevels(g)
<1>1. /\ Live(lesson)' = Live(lesson) /\ Live(level)' = Live(level)
      /\ \A s \in There(lesson) : lesson'[s].level = lesson[s].level
      /\ \A l \in There(level) : level'[l].grade = level[l].grade
  BY KeptRows
<1>2. Live(lesson) \subseteq There(lesson) /\ Live(level) \subseteq There(level)
  BY DEF Live, There
<1>3. /\ \A l : LiveLessons(l) = { s \in Live(lesson) : lesson[s].level = l }
      /\ \A l : LiveLessons(l)' = { s \in Live(lesson)' : lesson'[s].level = l }
      /\ \A g : LiveLevels(g) = { l \in Live(level) : level[l].grade = g }
      /\ \A g : LiveLevels(g)' = { l \in Live(level)' : level'[l].grade = g }
  BY DEF LiveLessons, LiveLevels
<1> QED  BY <1>1, <1>2, <1>3

\* A level is saved as the sum of its lessons and its quiz, and its grade is
\* counted next; a level that has these points already is not saved.
LEMMA SaveLevelClean ==
    ASSUME IInv, TInv, TInv', BInv, Cleans, NEW p \in Requests, Acts(p), clean[p], SaveLevel(p)
    PROVE  Clean(p)'
<1>1. PICK l, g, held : l = Row(p) /\ g = mem[p].level.grade /\ held = mem[p]  OBVIOUS
<1>2. /\ Does(p, "saveLevel") /\ Continue(p, Regrade(g), held)
      /\ UNCHANGED <<grade, lesson, item, question, unsaved>>
      /\ level' = IF held.level.points = held.sum THEN level
                  ELSE [level EXCEPT ![l].points = held.sum]
  BY <1>1 DEF SaveLevel
<1> DEFINE h == Head(todo[p])
<1>3. /\ todo[p] # <<>> /\ h.at = "saveLevel" /\ h.of = l
      /\ Apt(ask[p], h, There(lesson), There(level))
  BY <1>1, <1>2, HeadStep DEF IInv, TInv
<1>4. KnowsLevel("saveLevel", l, held)  BY <1>1, <1>3, HeadKnown DEF Knows
<1>5. l \in There(level) /\ l \in Levels /\ level[l] \in LevelRow /\ DOMAIN level = Levels
  BY <1>3, ThereIs DEF Apt, TInv, Tabled
<1>6. /\ g = level[l].grade /\ held.level.points \in {level[l].points, None}
      /\ held.sum = Totals(l) + QuizWorth(l)
  BY <1>1, <1>4 DEF KnowsLevel
<1>7. held.sum \in Nat /\ None \notin Nat
  <2>1. Totals(l) \in Nat  BY SumsNat DEF Totals
  <2>2. QuizWorth(l) \in Nat  BY <1>5 DEF QuizWorth, LevelRow
  <2> QED  BY <1>6, <2>1, <2>2, CurriculumTreeAssumed DEF CurriculumTreeAssumption
<1>8. /\ level'[l].points = held.sum /\ level'[l].worth = level[l].worth
      /\ level'[l].grade = level[l].grade /\ level'[l].on = level[l].on
      /\ level'[l].deleted = level[l].deleted
      /\ \A m \in Levels \ {l} : level'[m] = level[m]
  <2>1. CASE held.level.points = held.sum
    <3>1. level' = level /\ level[l].points = held.sum  BY <1>2, <1>6, <1>7, <2>1
    <3> QED  BY <3>1
  <2>2. CASE held.level.points # held.sum
    <3>1. level' = [level EXCEPT ![l].points = held.sum]  BY <1>2, <2>2
    <3> QED  BY <1>5, <3>1 DEF LevelRow
  <2> QED  BY <2>1, <2>2
<1>9. Kept
  <2>1. level[l] # None /\ level'[l] # None
    <3>1. level'[l] \in LevelRow
      <4>1. level' = level \/ level' = [level EXCEPT ![l].points = held.sum]  BY <1>2
      <4> QED  BY <1>5, <1>7, <4>1 DEF LevelRow
    <3> QED  BY <1>5, <3>1, CurriculumTreeAssumed DEF CurriculumTreeAssumption
  <2> QED  BY <1>2, <1>8, <2>1 DEF Kept
<1>10. /\ \A m : SameTotals(m)
       /\ \A s : (Done(p, s)' <=> Done(p, s)) /\ (NoSaves(p, s)' <=> NoSaves(p, s))
  BY <1>2, PartsStill
<1>11. RightLevel(l)' /\ \A m \in Levels \ {l} : RightLevel(m)' <=> RightLevel(m)
  <2>1. \A m \in Levels \ {l} : RightLevel(m)' <=> RightLevel(m)  BY <1>8, <1>10, StaysSummed
  <2>2. Totals(l)' = Totals(l)  BY <1>10, StaysSummed
  <2>3. QuizWorth(l)' = QuizWorth(l)  BY <1>8, <1>10 DEF QuizWorth, SameTotals
  <2>4. RightLevel(l)' <=> level'[l].points = Totals(l)' + QuizWorth(l)'
    BY DEF RightLevel, Totals, QuizWorth
  <2> QED  BY <1>6, <1>8, <2>1, <2>2, <2>3, <2>4
<1>12. ASSUME NEW x \in Grades, x # g PROVE RightGrade(x)' <=> RightGrade(x)
  <2>1. LiveLevels(x)' = LiveLevels(x)  BY <1>9, KeptSums
  <2>2. \A m \in LiveLevels(x) : m \in Levels /\ m # l
    BY <1>5, <1>6, <1>12 DEF LiveLevels, Live
  <2>3. SamePoints(x)  BY <1>8, <2>1, <2>2 DEF SamePoints
  <2> QED  BY <1>2, <2>3, StaysWorth
<1>13. IsSeq(Regrade(g)) /\ Regrade(g) # <<>> /\ \A b \in ToSet(Regrade(g)) : b.at \in ForGrade
  BY ListsInOrder
<1>14. OwesGrade(p, g)'
  <2>1. At("saveGrade", g) \in ToSet(todo'[p])  BY <1>2, <1>3, <1>13, GoesWith, StepsIn
  <2> QED  BY <2>1 DEF OwesGrade
<1>15. SeesToAll(p, h)
  <2>1. h.at \notin ForLesson  BY <1>3 DEF ForLesson
  <2>2. \A m : SeesTo(h, m) => m = l  BY <1>3 DEF SeesTo, LevelOf
  <2>3. \A x : h # At("saveGrade", x)  BY <1>3 DEF At
  <2> HIDE DEF h
  <2> QED  BY <1>6, <1>10, <1>11, <1>12, <1>14, <2>1, <2>2, <2>3 DEF SeesToAll
<1>16. h.at \notin Early /\ LevelOf(h) = l /\ h.at \in ForLevel
  BY <1>3 DEF Early, LevelOf, ForLevel
<1>17. \A b \in ToSet(Regrade(g)) : Ahead(p, b)'
  <2>1. \A b : b.at \in ForGrade => Ahead(p, b)'  BY DEF Ahead, ForGrade
  <2> QED  BY <1>13, <2>1
<1>18. \A b : b = Regrade(g)[1] => Knows(p, b, held)'
  <2>1. Regrade(g)[1] = At("grade", g)  BY DEF Regrade
  <2>2. Open(At("grade", g))  BY OpenSteps
  <2>3. \A b : Open(b) => Knows(p, b, held)'  BY OpenKnown
  <2> QED  BY <2>1, <2>2, <2>3
<1>19. PICK steps : steps = Regrade(g)  OBVIOUS
<1>20. /\ Continue(p, steps, held) /\ IsSeq(steps) /\ steps # <<>>
       /\ \A b : b = steps[1] => Knows(p, b, held)'
       /\ \A b \in ToSet(steps) : Ahead(p, b)'
  BY <1>2, <1>13, <1>17, <1>18, <1>19
<1> QED  BY <1>3, <1>8, <1>9, <1>10, <1>15, <1>16, <1>20, OwnClean

\* A level's quiz points are set, and it is to be summed.
LEMMA SetWorthClean ==
    ASSUME IInv, TInv, TInv', BInv, Cleans, NEW p \in Requests, Acts(p), clean[p], SetWorth(p)
    PROVE  Clean(p)'
<1>1. PICK l, old, held, steps :
        /\ l = Row(p)[1] /\ old = Row(p)[2]
        /\ held = Hold(p, "level", [old EXCEPT !.worth = BulkWorth]) /\ steps = Resum(l)
  OBVIOUS
<1>2. /\ Does(p, "worth") /\ Continue(p, steps, held)
      /\ UNCHANGED <<grade, lesson, item, question, unsaved>>
      /\ level' = [level EXCEPT ![l].worth = BulkWorth]
  BY <1>1 DEF SetWorth
<1> DEFINE h == Head(todo[p])
<1>3. /\ todo[p] # <<>> /\ h.at = "worth" /\ h.of = Row(p)
      /\ Apt(ask[p], h, There(lesson), There(level)) /\ mem[p] \in MemRow
  BY <1>2, HeadStep DEF IInv, TInv
<1>4. l \in There(level) /\ l \in Levels /\ level[l] \in LevelRow /\ DOMAIN level = Levels
  <2>1. l \in There(level)  BY <1>1, <1>3 DEF Apt
  <2> QED  BY <2>1, ThereIs DEF TInv, Tabled
<1>5. old = level[l]
  <2>1. Ahead(p, h)  BY <1>3, HeadKnown
  <2> QED  BY <1>1, <1>3, <2>1 DEF Ahead
<1>6. /\ level'[l].worth = BulkWorth /\ level'[l].points = level[l].points
      /\ level'[l].grade = level[l].grade /\ level'[l].on = level[l].on
      /\ level'[l].deleted = level[l].deleted
      /\ \A m \in Levels \ {l} : level'[m] = level[m]
  BY <1>2, <1>4 DEF LevelRow
<1>7. Kept
  <2>1. level[l] # None /\ level'[l] # None
    <3>1. level'[l] \in LevelRow
      BY <1>2, <1>4, CurriculumTreeAssumed DEF LevelRow, CurriculumTreeAssumption
    <3> QED  BY <1>4, <3>1, CurriculumTreeAssumed DEF CurriculumTreeAssumption
  <2> QED  BY <1>2, <1>6, <2>1 DEF Kept
<1>8. /\ \A m : SameTotals(m)
      /\ \A s : (Done(p, s)' <=> Done(p, s)) /\ (NoSaves(p, s)' <=> NoSaves(p, s))
  BY <1>2, PartsStill
<1>9. \A m \in Levels \ {l} : RightLevel(m)' <=> RightLevel(m)  BY <1>6, <1>8, StaysSummed
<1>10. ASSUME NEW x \in Grades PROVE RightGrade(x)' <=> RightGrade(x)
  <2>1. LiveLevels(x)' = LiveLevels(x)  BY <1>7, KeptSums
  <2>2. \A m \in LiveLevels(x) : m \in Levels  BY <1>4 DEF LiveLevels, Live
  <2>3. SamePoints(x)  BY <1>6, <2>1, <2>2 DEF SamePoints
  <2> QED  BY <1>2, <2>3, StaysWorth
<1>11. /\ IsSeq(steps) /\ steps # <<>> /\ steps[1] = At("sum", l)
       /\ \A b \in ToSet(steps) : b.at \in {"sum", "quiz", "saveLevel"}
  BY <1>1, ListsInOrder
<1>12. OwesLevel(p, l)'
  <2>1. At("saveLevel", l) \in ToSet(todo'[p])  BY <1>1, <1>2, <1>3, <1>11, GoesWith, StepsIn
  <2>2. At("saveLevel", l).at = "saveLevel" /\ LevelOf(At("saveLevel", l)) = l  BY DEF At, LevelOf
  <2> QED  BY <2>1, <2>2 DEF OwesLevel
<1>13. h.at \notin Early /\ LevelOf(h) = l /\ h.at \in ForLevel
  BY <1>1, <1>3 DEF Early, LevelOf, ForLevel
<1>14. SeesToAll(p, h)
  <2>1. h.at \notin ForLesson  BY <1>3 DEF ForLesson
  <2>2. \A m : SeesTo(h, m) => m = l  BY <1>3, <1>13 DEF SeesTo
  <2>3. \A x : h # At("saveGrade", x)  BY <1>3 DEF At
  <2> HIDE DEF h
  <2> QED  BY <1>8, <1>9, <1>10, <1>12, <2>1, <2>2, <2>3 DEF SeesToAll
<1>15. \A b \in ToSet(steps) : Ahead(p, b)'
  <2>1. \A b : b.at \in {"sum", "quiz", "saveLevel"} => Ahead(p, b)'  BY DEF Ahead
  <2> QED  BY <1>11, <2>1
<1>16. \A b : b = steps[1] => Knows(p, b, held)'
  <2>1. held.level = [level[l] EXCEPT !.worth = BulkWorth]  BY <1>1, <1>3, <1>5 DEF Hold, MemRow
  <2>2. /\ held.level.grade = level'[l].grade /\ held.level.worth = level'[l].worth
        /\ held.level.points = level'[l].points
    BY <1>4, <1>6, <2>1 DEF LevelRow
  <2>3. KnowsLevel("sum", l, held)'  BY <2>2 DEF KnowsLevel
  <2>4. \A b : b.at = "sum" /\ b.of = l => Knows(p, b, held)'
    BY <2>3 DEF Knows, KnowsRow, KnowsLesson, KnowsGrade, Early
  <2> QED  BY <1>11, <2>4 DEF At
<1> QED  BY <1>2, <1>3, <1>6, <1>7, <1>8, <1>11, <1>13, <1>14, <1>15, <1>16, OwnClean

\* A lesson's total is set, and it is to be counted and spread over again.
LEMMA RefreshClean ==
    ASSUME IInv, TInv, TInv', BInv, Cleans, NEW p \in Requests, Acts(p), clean[p], Refresh(p)
    PROVE  Clean(p)'
<1>1. PICK s, l, held, steps :
        s = Row(p) /\ l = lesson[s].level /\ held = mem[p] /\ steps = Recount(s)
  OBVIOUS
<1> DEFINE h == Head(todo[p])
<1>2. Does(p, "refresh")  BY DEF Refresh
<1>3. /\ todo[p] # <<>> /\ h.at = "refresh" /\ h.of = s
      /\ Apt(ask[p], h, There(lesson), There(level))
  BY <1>1, <1>2, HeadStep DEF IInv, TInv
<1>4. NoSaves(p, s) /\ ~lesson[s].deleted
  <2>1. Ahead(p, h)  BY <1>3, HeadKnown
  <2> QED  BY <1>3, <2>1 DEF Ahead
<1>5. /\ Continue(p, steps, held) /\ UNCHANGED <<grade, level, item, question, unsaved>>
      /\ lesson' = [lesson EXCEPT ![s].total = Total]
  BY <1>1, <1>4 DEF Refresh
<1>6. s \in There(lesson) /\ s \in Lessons /\ lesson[s] \in LessonRow /\ DOMAIN lesson = Lessons
  <2>1. s \in There(lesson)  BY <1>3 DEF Apt
  <2> QED  BY <2>1, ThereIs DEF TInv, Tabled
<1>7. /\ lesson'[s].level = lesson[s].level /\ lesson'[s].on = lesson[s].on
      /\ lesson'[s].deleted = lesson[s].deleted
      /\ \A t \in Lessons \ {s} : lesson'[t] = lesson[t]
  BY <1>5, <1>6 DEF LessonRow
<1>8. Kept
  <2>1. lesson[s] # None /\ lesson'[s] # None
    <3>1. lesson'[s] \in LessonRow
      BY <1>5, <1>6, CurriculumTreeAssumed DEF LessonRow, CurriculumTreeAssumption
    <3> QED  BY <1>6, <3>1, CurriculumTreeAssumed DEF CurriculumTreeAssumption
  <2> QED  BY <1>5, <1>7, <2>1 DEF Kept
<1>9. /\ \A t : SameItems(t) /\ SameSaves(p)
      /\ \A t : NoSaves(p, t)' <=> NoSaves(p, t)
  BY <1>5 DEF SameItems, SameSaves, ItemsOf, NoSaves, LessonSaves, ItemSaves
<1>10. \A t \in Lessons \ {s} : Done(p, t)' <=> Done(p, t)
  BY <1>7, <1>9, StaysDone DEF Done
<1>11. \A x : RightGrade(x)' <=> RightGrade(x)
  <2>1. \A x : SamePoints(x) /\ grade'[x] = grade[x]  BY <1>5, PartsStill
  <2> QED  BY <2>1, StaysWorth
<1>12. ASSUME NEW m \in Levels, m # l PROVE RightLevel(m)' <=> RightLevel(m)
  <2>1. LiveLessons(m)' = LiveLessons(m)  BY <1>8, KeptSums
  <2>2. \A t \in LiveLessons(m) : t \in Lessons /\ t # s
    BY <1>1, <1>6, <1>12 DEF LiveLessons, Live
  <2>3. SameTotals(m)  BY <1>5, <1>7, <2>1, <2>2 DEF SameTotals, HasQuiz
  <2> QED  BY <1>5, <2>3, StaysSummed
<1>13. IsSeq(steps) /\ steps # <<>> /\ steps[1] = At("lesson", s) /\ ToSet(steps) = {At("lesson", s)}
  BY <1>1, ListsInOrder
<1>14. OwesLesson(p, s)' /\ OwesLevel(p, l)'
  <2>1. At("lesson", s) \in ToSet(todo'[p])  BY <1>3, <1>5, <1>13, GoesWith
  <2>2. At("lesson", s).at = "lesson" /\ At("lesson", s).of = s /\ LessonOf(At("lesson", s)) = s
    BY DEF At, LessonOf
  <2>3. OwesLesson(p, s)'  BY <2>1, <2>2 DEF OwesLesson, ForLesson
  <2>4. OwesLevel(p, l)'  BY <1>1, <1>7, <2>1, <2>2 DEF OwesLevel
  <2> QED  BY <2>3, <2>4
<1>15. h.at \notin Early /\ LessonOf(h) = s /\ h.at \in ForLesson /\ h.at \notin ForLevel
  BY <1>3 DEF Early, LessonOf, ForLesson, ForLevel
<1>16. SeesToAll(p, h)
  <2>1. \A m : SeesTo(h, m) => m = l  BY <1>1, <1>3 DEF SeesTo
  <2>2. \A x : h # At("saveGrade", x)  BY <1>3 DEF At
  <2>3. \A m \in Levels : OwesLevel(p, m)' \/ (RightLevel(m)' <=> RightLevel(m))
    BY <1>12, <1>14
  <2> HIDE DEF h
  <2> QED  BY <1>10, <1>11, <1>14, <1>15, <2>1, <2>2, <2>3 DEF SeesToAll
<1>17. \A b \in ToSet(steps) : Ahead(p, b)'
  <2>1. \A b : b.at = "lesson" /\ b.of = s => Ahead(p, b)'  BY <1>4, <1>9 DEF Ahead
  <2> QED  BY <1>13, <2>1 DEF At
<1>18. \A b : b = steps[1] => Knows(p, b, held)'
  <2>1. Open(At("lesson", s))  BY OpenSteps
  <2>2. \A b : Open(b) => Knows(p, b, held)'  BY OpenKnown
  <2> QED  BY <1>13, <2>1, <2>2
<1>19. \A m \in Levels : level'[m] = level[m]  BY <1>5
<1> QED  BY <1>3, <1>5, <1>8, <1>9, <1>13, <1>15, <1>16, <1>17, <1>18, <1>19, OwnClean

\* A lesson is read, and is to be counted, spread over, and its level summed.
LEMMA ReadLessonClean ==
    ASSUME IInv, TInv, TInv', BInv, Cleans, NEW p \in Requests, Acts(p), clean[p], ReadLesson(p)
    PROVE  Clean(p)'
<1>1. PICK s, l, held, steps :
        /\ s = Row(p) /\ l = lesson[s].level /\ held = Hold(p, "lesson", lesson[s])
        /\ steps = Respread(s) \o Reload(l)
  OBVIOUS
<1> DEFINE h == Head(todo[p])
<1>2. Does(p, "lesson") /\ UNCHANGED <<tables, unsaved>>  BY DEF ReadLesson
<1>3. /\ todo[p] # <<>> /\ h.at = "lesson" /\ h.of = s
      /\ Apt(ask[p], h, There(lesson), There(level)) /\ mem[p] \in MemRow
  BY <1>1, <1>2, HeadStep DEF IInv, TInv
<1>4. s \in There(lesson) /\ s \in Lessons /\ lesson[s] \in LessonRow
  <2>1. s \in There(lesson)  BY <1>3 DEF Apt
  <2> QED  BY <2>1, ThereIs DEF TInv
<1>5. NoSaves(p, s)
  <2>1. Ahead(p, h)  BY <1>3, HeadKnown
  <2> QED  BY <1>3, <2>1 DEF Ahead
<1>6. CASE Stop(p, "refused")
  <2>1. \A q \in Requests : clean'[q] => clean[q]  BY DEF Acts, OthersStay
  <2>2. todo'[p] = <<>> /\ status'[p] = "refused"  BY <1>3, <1>6, <2>1, Goings
  <2> QED  BY <2>2, StoppedClean
<1>7. CASE Continue(p, steps, held)
  <2>1. /\ IsSeq(Respread(s)) /\ Respread(s) # <<>> /\ Respread(s)[1] = At("count", <<s, "learning">>)
        /\ \A b \in ToSet(Respread(s)) : b.at \in {"count", "spread", "last"}
    <3>1. /\ DOMAIN Respread(s) = 1 .. 7 /\ IsSeq(Respread(s)) /\ Respread(s) # <<>>
          /\ Respread(s)[1] = At("count", <<s, "learning">>)
          /\ \A n \in 1 .. 7 : Respread(s)[n].at \in {"count", "spread", "last"}
      BY ListsInOrder
    <3> QED  BY <3>1 DEF ToSet
  <2>2. IsSeq(Reload(l)) /\ \A b \in ToSet(Reload(l)) : b.at \in {"level", "sum", "quiz", "saveLevel"}
    BY ListsInOrder
  <2>3. /\ IsSeq(steps) /\ ToSet(steps) = ToSet(Respread(s)) \cup ToSet(Reload(l))
        /\ steps # <<>> /\ steps[1] = At("count", <<s, "learning">>)
    BY <1>1, <2>1, <2>2, Elements, HeadOfJoin
  <2>4. /\ Kept
        /\ \A t : (Done(p, t)' <=> Done(p, t)) /\ (NoSaves(p, t)' <=> NoSaves(p, t))
        /\ \A m : RightLevel(m)' <=> RightLevel(m)
        /\ \A g : RightGrade(g)' <=> RightGrade(g)
    BY <1>2, AllStill
  <2>5. ToSet(steps) \subseteq ToSet(todo'[p])  BY <1>3, <1>7, <2>3, GoesWith
  <2>6. OwesLesson(p, s)'
    <3>1. At("last", s) \in ToSet(todo'[p])  BY <2>3, <2>5, StepsIn
    <3>2. At("last", s).at \in ForLesson /\ LessonOf(At("last", s)) = s  BY DEF At, LessonOf, ForLesson
    <3> QED  BY <3>1, <3>2 DEF OwesLesson
  <2>7. OwesLevel(p, l)'
    <3>1. At("saveLevel", l) \in ToSet(todo'[p])  BY <2>3, <2>5, StepsIn
    <3>2. At("saveLevel", l).at = "saveLevel" /\ LevelOf(At("saveLevel", l)) = l  BY DEF At, LevelOf
    <3> QED  BY <3>1, <3>2 DEF OwesLevel
  <2>8. h.at \notin Early /\ LessonOf(h) = s /\ h.at \in ForLesson
    BY <1>3 DEF Early, LessonOf, ForLesson
  <2>9. SeesToAll(p, h)
    <3>1. \A m : SeesTo(h, m) => m = l  BY <1>1, <1>3 DEF SeesTo
    <3>2. \A x : h # At("saveGrade", x)  BY <1>3 DEF At
    <3> HIDE DEF h
    <3> QED  BY <2>4, <2>6, <2>7, <2>8, <3>1, <3>2 DEF SeesToAll
  <2>10. \A b \in ToSet(steps) : Ahead(p, b)'
    <3>1. \A b : b.at \notin {"lesson", "refresh", "worth"} => Ahead(p, b)'  BY DEF Ahead
    <3> QED  BY <2>1, <2>2, <2>3, <3>1
  <2>11. \A b : b = steps[1] => Knows(p, b, held)'
    <3>1. held.lesson = lesson[s] /\ lesson'[s] = lesson[s]
      BY <1>1, <1>2, <1>3 DEF Hold, MemRow, tables
    <3>2. HoldsLesson(s, held, {})' /\ held.lesson.shares = lesson'[s].shares /\ NoSaves(p, s)'
      BY <1>5, <2>4, <3>1 DEF HoldsLesson
    <3>3. PICK of : of = <<s, "learning">>  OBVIOUS
    <3>4. of[1] = s /\ of[2] = "learning" /\ Before("learning") = {}  BY <3>3 DEF Before
    <3>5. KnowsLesson(p, "count", of, held)'  BY <3>2, <3>4 DEF KnowsLesson
    <3>6. \A b : b.at = "count" /\ b.of = of => Knows(p, b, held)'
      BY <3>5 DEF Knows, KnowsRow, KnowsLevel, KnowsGrade, Early
    <3>7. At("count", of).at = "count" /\ At("count", of).of = of  BY DEF At
    <3> QED  BY <2>3, <3>3, <3>6, <3>7
  <2>12. \A m \in Levels : level'[m] = level[m]  BY <1>2 DEF tables
  <2> QED  BY <1>3, <1>7, <2>3, <2>4, <2>8, <2>9, <2>10, <2>11, <2>12, OwnClean
<1> QED  BY <1>1, <1>6, <1>7 DEF ReadLesson

(***************************************************************************)
(* A clean request spreads a lesson's points over its items                *)
(***************************************************************************)

\* The three kinds together.
LEMMA ThreeKinds ==
    ASSUME NEW f \in [KindSet -> Nat]
    PROVE  SumFunction(f) = f["learning"] + f["practice"] + f["quiz"]
<1>1. SumFunction(f) = Part(f, KindSet)
  <2>1. DOMAIN f = KindSet  OBVIOUS
  <2> QED  BY <2>1 DEF SumFunction, Part
<1> DEFINE S1 == {"practice", "quiz"}  S2 == {"quiz"}
<1>2. /\ IsFiniteSet(KindSet) /\ IsFiniteSet(S1) /\ IsFiniteSet(S2) /\ IsFiniteSet({})
  <2>1. S1 \subseteq KindSet /\ S2 \subseteq KindSet /\ {} \subseteq KindSet  BY DEF KindSet
  <2> QED  BY <2>1, KindsFinite, FS_Subset
<1>3. /\ "learning" \in KindSet /\ "practice" \in S1 /\ "quiz" \in S2
      /\ KindSet \ {"learning"} = S1 /\ S1 \ {"practice"} = S2 /\ S2 \ {"quiz"} = {}
  BY DEF KindSet
<1>4. (\A k \in KindSet : f[k] \in Nat) /\ (\A k \in S1 : f[k] \in Nat) /\ \A k \in S2 : f[k] \in Nat
  BY DEF KindSet
<1> HIDE DEF S1, S2
<1>5. Part(f, KindSet) = f["learning"] + Part(f, S1)  BY <1>2, <1>3, <1>4, PartWithout
<1>6. Part(f, S1) = f["practice"] + Part(f, S2)  BY <1>2, <1>3, <1>4, PartWithout
<1>7. Part(f, S2) = f["quiz"] + Part(f, {})  BY <1>2, <1>3, <1>4, PartWithout
<1>8. Part(f, {}) = 0  BY <1>2, PartUnfolds
<1>9. f["learning"] \in Nat /\ f["practice"] \in Nat /\ f["quiz"] \in Nat  BY DEF KindSet
<1> QED  BY <1>1, <1>5, <1>6, <1>7, <1>8, <1>9

\* Sets of items are finite, their numbers numbers.
LEMMA NumsNat ==
    /\ \A s : IsFiniteSet(ItemsOf(s)) /\ Num(s) \in Nat
    /\ \A s, k : IsFiniteSet(ItemsOfKind(s, k)) /\ NumOf(s, k) \in Nat
<1>1. IsFiniteSet(Items)  BY CurriculumTreeAssumed DEF CurriculumTreeAssumption
<1>2. \A s : IsFiniteSet(ItemsOf(s))
  <2>1. \A s : ItemsOf(s) \subseteq Items  BY DEF ItemsOf
  <2> QED  BY <1>1, <2>1, FS_Subset
<1>3. \A s, k : IsFiniteSet(ItemsOfKind(s, k))
  <2>1. \A s, k : ItemsOfKind(s, k) \subseteq ItemsOf(s)  BY DEF ItemsOfKind
  <2> QED  BY <1>2, <2>1, FS_Subset
<1>4. \A s, k : NumOf(s, k) \in Nat  BY <1>3, FS_CardinalityType DEF NumOf
<1> QED  BY <1>2, <1>3, <1>4 DEF Num

\* Who holds a lesson as it is, with its items counted, has its shares.
LEMMA AllCounted ==
    ASSUME NEW s, NEW held \in MemRow, HoldsLesson(s, held, KindSet)
    PROVE  /\ ItemCount(held) = Num(s) /\ Points(held) = Each(s) /\ Left(held) = Over(s)
           /\ Shares(held) = SharesOf(s)
<1>1. held.count \in [KindSet -> Nat] /\ held.lesson.total = lesson[s].total
      /\ \A k \in KindSet : held.count[k] = NumOf(s, k)
  BY DEF MemRow, HoldsLesson
<1>2. ItemCount(held) = Num(s)
  <2>1. SumFunction(held.count) = held.count["learning"] + held.count["practice"] + held.count["quiz"]
    BY <1>1, ThreeKinds
  <2>2. /\ held.count["learning"] = NumOf(s, "learning")
        /\ held.count["practice"] = NumOf(s, "practice")
        /\ held.count["quiz"] = NumOf(s, "quiz")
    BY <1>1 DEF KindSet
  <2> QED  BY <2>1, <2>2 DEF ItemCount, Num
<1>3. Points(held) = Each(s)  BY <1>1, <1>2 DEF Points, Each
<1>4. Left(held) = Over(s)  BY <1>1, <1>2, <1>3 DEF Left, Over
<1>5. Shares(held) = SharesOf(s)
  <2>1. \A c \in Columns : c # "brick" => held.count[c] = NumOf(s, c)  BY <1>1 DEF Columns
  <2> QED  BY <1>3, <2>1 DEF Shares, SharesOf
<1> QED  BY <1>2, <1>3, <1>4, <1>5

\* After a count or a spread it still has a step for the lesson.
LEMMA LeadsOwe ==
    ASSUME IInv, TInv, BInv, NEW p \in Requests, Acts(p), todo[p] # <<>>,
           Head(todo[p]).at \in {"count", "spread"}, NEW s, s = LessonOf(Head(todo[p])),
           NEW held, Continue(p, <<>>, held)
    PROVE  OwesLesson(p, s)'
<1>1. IsSeq(todo[p]) /\ Leads(todo[p]) /\ IsSeq(Tail(todo[p]))  BY HeadShape DEF BInv, Shapes
<1>2. /\ Tail(todo[p]) # <<>> /\ Head(Tail(todo[p])).at \in {"count", "spread", "last"}
      /\ LessonOf(Head(Tail(todo[p]))) = s
  BY <1>1, LeadsGo
<1>3. ToSet(todo'[p]) = ToSet(<<>>) \cup ToSet(Tail(todo[p]))
  <2>1. IsSeq(<<>>)  BY DEF IsSeq
  <2> QED  BY <2>1, GoesWith
<1>4. Head(Tail(todo[p])) \in ToSet(Tail(todo[p]))  BY <1>1, <1>2, Elements
<1> QED  BY <1>2, <1>3, <1>4 DEF OwesLesson, ForLesson

\* Only one lesson's saves change: the others are as done as they were.
LEMMA OthersDone ==
    ASSUME NEW p, NEW s, UNCHANGED <<lesson, item>>,
           \A w \in (unsaved' \ unsaved) \cup (unsaved \ unsaved') :
              w.by = p => \/ w.at = "lesson" /\ w.of = s
                          \/ w.at = "item" /\ w.of \in ItemsOf(s)
    PROVE  \A t : t # s => (Done(p, t)' <=> Done(p, t)) /\ (NoSaves(p, t)' <=> NoSaves(p, t))
<1> SUFFICES ASSUME NEW t, t # s
             PROVE  (Done(p, t)' <=> Done(p, t)) /\ (NoSaves(p, t)' <=> NoSaves(p, t))
  OBVIOUS
<1>1. SameItems(t) /\ lesson'[t] = lesson[t]  BY DEF SameItems, ItemsOf
<1>2. LessonSaves(p, t)' = LessonSaves(p, t)  BY DEF LessonSaves
<1>3. ItemSaves(p, t)' = ItemSaves(p, t)
  <2>1. \A i : ~(i \in ItemsOf(s) /\ i \in ItemsOf(t))  BY DEF ItemsOf
  <2>2. ItemsOf(t)' = ItemsOf(t)  BY <1>1 DEF SameItems
  <2> QED  BY <2>1, <2>2 DEF ItemSaves
<1> QED  BY <1>1, <1>2, <1>3, SameDone DEF Done, NoSaves

\* Items of a kind are counted; after the last, the lesson's shares are sent.
LEMMA CountKindClean ==
    ASSUME IInv, TInv, TInv', BInv, Cleans, NEW p \in Requests, Acts(p), clean[p], CountKind(p)
    PROVE  Clean(p)'
<1>1. PICK s, k, held, h :
        /\ s = Row(p)[1] /\ k = Row(p)[2] /\ h = Head(todo[p])
        /\ held = [mem[p] EXCEPT !.count[k] = NumOf(s, k)]
  OBVIOUS
<1>2. /\ Does(p, "count") /\ Continue(p, <<>>, held) /\ UNCHANGED tables
      /\ unsaved' = unsaved \cup (IF k = "quiz" THEN ShareSaves(p, s, held) ELSE {})
  BY <1>1 DEF CountKind, NumOf, Kinds
<1>3. /\ todo[p] # <<>> /\ h.at = "count" /\ h.of = Row(p)
      /\ Apt(ask[p], h, There(lesson), There(level)) /\ mem[p] \in MemRow
  BY <1>1, <1>2, HeadStep DEF IInv, TInv
<1>4. s \in There(lesson) /\ s \in Lessons /\ k \in KindSet /\ h.of = <<s, k>>
  <2>1. s \in There(lesson) /\ k \in KindSet /\ h.of = <<s, k>>  BY <1>1, <1>3 DEF Apt
  <2> QED  BY <2>1, ThereIs DEF TInv
<1>5. UNCHANGED <<grade, level, lesson, item, question>>  BY <1>2 DEF tables
<1>6. HoldsLesson(s, mem[p], Before(k)) /\ NoSaves(p, s) /\ mem[p].lesson.shares = lesson[s].shares
  <2>1. KnowsLesson(p, "count", h.of, mem[p])  BY <1>1, <1>3, HeadKnown DEF Knows
  <2> QED  BY <1>1, <1>3, <2>1 DEF KnowsLesson
<1>7. /\ held \in MemRow /\ held.lesson = mem[p].lesson
      /\ HoldsLesson(s, held, Before(k) \cup {k})
  <2>1. NumOf(s, k) \in Nat  BY NumsNat
  <2>2. /\ held \in MemRow /\ held.lesson = mem[p].lesson /\ held.count[k] = NumOf(s, k)
        /\ \A c \in KindSet \ {k} : held.count[c] = mem[p].count[c]
    BY <1>1, <1>3, <1>4, <2>1 DEF MemRow
  <2>3. Before(k) \subseteq KindSet \ {k}  BY <1>4 DEF Before, KindSet
  <2> QED  BY <1>6, <2>2, <2>3 DEF HoldsLesson
<1>8. h.at \notin Early /\ LessonOf(h) = s /\ h.at \in ForLesson /\ h.at \notin ForLevel
  BY <1>3, <1>4 DEF Early, LessonOf, ForLesson, ForLevel
<1>9. \A t : (t # s => (Done(p, t)' <=> Done(p, t)) /\ (NoSaves(p, t)' <=> NoSaves(p, t)))
  <2>1. \A w \in (unsaved' \ unsaved) \cup (unsaved \ unsaved') : w.at = "lesson" /\ w.of = s
    BY <1>2 DEF ShareSaves
  <2> QED  BY <1>5, <2>1, OthersDone
<1>10. OwesLesson(p, s)'  BY <1>1, <1>2, <1>3, <1>8, LeadsOwe
<1>11. SeesToAll(p, h)
  <2>1. \A m : ~SeesTo(h, m)  BY <1>3 DEF SeesTo
  <2>2. \A x : h # At("saveGrade", x)  BY <1>3 DEF At
  <2>3. (\A m : SameTotals(m)) /\ (\A g : SamePoints(g))  BY <1>5, PartsStill
  <2>4. (\A m : RightLevel(m)' <=> RightLevel(m)) /\ \A g : RightGrade(g)' <=> RightGrade(g)
    BY <1>5, <2>3, StaysSummed, StaysWorth
  <2> QED  BY <1>8, <1>9, <1>10, <2>1, <2>2, <2>4 DEF SeesToAll
<1>12. Kept  BY <1>5 DEF Kept
<1>13. SameItems(s)  BY <1>5 DEF SameItems, ItemsOf
<1>14. /\ \A kk : NumOf(s, kk)' = NumOf(s, kk)
       /\ SharesOf(s)' = SharesOf(s) /\ ShareSave(p, s)' = ShareSave(p, s)
  BY <1>5, <1>13, SameCounts, SameShares DEF SameItems
<1>15. HoldsLesson(s, held, Before(k) \cup {k})'
  <2> DEFINE ks == Before(k) \cup {k}
  <2>1. HoldsLesson(s, held, ks) /\ lesson'[s] = lesson[s]  BY <1>5, <1>7
  <2> HIDE DEF ks
  <2>2. PICK kk : kk = ks  OBVIOUS
  <2>3. HoldsLesson(s, held, kk)'  BY <1>14, <2>1, <2>2 DEF HoldsLesson
  <2>4. ks' = ks  BY DEF ks, Before
  <2> QED  BY <2>2, <2>3, <2>4 DEF ks
<1>16. \A b : Follows(h, b) => Knows(p, b, held)'
  <2>1. CASE k # "quiz"
    <3>1. unsaved' = unsaved  BY <1>2, <2>1
    <3>2. NoSaves(p, s)'  BY <1>2, <1>6, <3>1, AllStill
    <3>3. ASSUME NEW b, Follows(h, b), ~Open(b)
          PROVE  b.at = "count" /\ b.of[1] = s /\ Before(b.of[2]) = Before(k) \cup {k}
      <4>1. b.at \in {"count", "spread", "last"}  BY <1>3, <3>3, FollowsWhat
      <4>2. b.at = "count"  BY <1>3, <1>4, <2>1, <3>3, <4>1 DEF Follows, At, Kinds
      <4>3. \E n \in 1 .. 2 : h = At("count", <<b.of[1], Kinds[n]>>) /\ b.of[2] = Kinds[n + 1]
        BY <3>3, <4>2 DEF Follows
      <4>4. b.of[1] = s /\ <<k, b.of[2]>> \in {<<"learning", "practice">>, <<"practice", "quiz">>}
        BY <1>4, <4>3 DEF At, Kinds
      <4> QED  BY <4>2, <4>4 DEF Before
    <3>4. ASSUME NEW b, Follows(h, b), ~Open(b) PROVE Knows(p, b, held)'
      <4>1. b.at = "count" /\ b.of[1] = s /\ Before(b.of[2]) = Before(k) \cup {k}  BY <3>3, <3>4
      <4>2. HoldsLesson(b.of[1], held, Before(b.of[2]))'  BY <1>15, <4>1
      <4>3. KnowsLesson(p, b.at, b.of, held)'
        BY <1>5, <1>6, <1>7, <3>2, <4>1, <4>2 DEF KnowsLesson
      <4> QED  BY <4>1, <4>3 DEF Knows, KnowsRow, KnowsLevel, KnowsGrade, Early
    <3> QED  BY <3>4, OpenKnown
  <2>2. CASE k = "quiz"
    <3>1. Before(k) \cup {k} = KindSet  BY <2>2 DEF Before, KindSet
    <3>2. HoldsLesson(s, held, KindSet) /\ HoldsLesson(s, held, KindSet)'  BY <1>7, <1>15, <3>1
    <3>3. Shares(held) = SharesOf(s)  BY <1>7, <3>2, AllCounted
    <3>4. unsaved' = unsaved \cup (IF lesson[s].shares = SharesOf(s) THEN {} ELSE {ShareSave(p, s)})
      BY <1>2, <1>6, <1>7, <2>2, <3>3 DEF ShareSaves, ShareSave
    <3>5. LessonSaves(p, s) = {} /\ ItemSaves(p, s) = {}  BY <1>6 DEF NoSaves
    <3>6. ItemSaves(p, s)' = {}
      <4>1. ItemsOf(s)' = ItemsOf(s)  BY <1>13 DEF SameItems
      <4>2. \A w \in unsaved' \ unsaved : w.at = "lesson"  BY <3>4 DEF ShareSave
      <4> QED  BY <3>5, <4>1, <4>2 DEF ItemSaves
    <3>7. SharesSent(p, s)'
      <4>1. CASE lesson[s].shares = SharesOf(s)
        <5>1. LessonSaves(p, s)' = {}  BY <3>4, <3>5, <4>1 DEF LessonSaves
        <5>2. \A c \in Columns : lesson'[s].shares[c] = SharesOf(s)'[c]  BY <1>5, <1>14, <4>1
        <5> QED  BY <5>1, <5>2 DEF SharesSent
      <4>2. CASE lesson[s].shares # SharesOf(s)
        <5>1. LessonSaves(p, s)' = {ShareSave(p, s)}
          <6>1. /\ ShareSave(p, s).by = p /\ ShareSave(p, s).at = "lesson" /\ ShareSave(p, s).of = s
            BY DEF ShareSave
          <6>2. \A w : w \in unsaved' <=> w \in unsaved \/ w = ShareSave(p, s)  BY <3>4, <4>2
          <6> QED  BY <3>5, <6>1, <6>2 DEF LessonSaves
        <5> QED  BY <1>14, <5>1 DEF SharesSent
      <4> QED  BY <4>1, <4>2
    <3>8. ASSUME NEW b, Follows(h, b), ~Open(b) PROVE Knows(p, b, held)'
      <4>1. b.at \in {"count", "spread", "last"}  BY <1>3, <3>8, FollowsWhat
      <4>2. b.at = "spread"  BY <1>3, <1>4, <2>2, <3>8, <4>1 DEF Follows, At, Kinds
      <4>3. b.of[1] = s /\ b.of[2] = "learning"
        BY <1>3, <1>4, <3>8, <4>2 DEF Follows, At, Kinds
      <4>4. Before(b.of[2]) = {}  BY <4>3 DEF Before
      <4>5. SpreadOver(s, {})'  BY DEF SpreadOver
      <4>6. SpreadOver(b.of[1], Before(b.of[2]))'  BY <4>3, <4>4, <4>5
      <4>7. KnowsLesson(p, b.at, b.of, held)'
        BY <3>2, <3>6, <3>7, <4>2, <4>3, <4>6 DEF KnowsLesson
      <4> QED  BY <4>2, <4>7 DEF Knows, KnowsRow, KnowsLevel, KnowsGrade, Early
    <3> QED  BY <3>8, OpenKnown
  <2> QED  BY <2>1, <2>2
<1>17. IsSeq(<<>>) /\ ToSet(<<>>) = {}  BY Elements DEF IsSeq
<1>18. \A m \in Levels : level'[m] = level[m]  BY <1>5
<1> QED  BY <1>1, <1>2, <1>3, <1>8, <1>9, <1>11, <1>12, <1>16, <1>17, <1>18, OwnClean

\* The items of a kind get their points.
LEMMA SpreadClean ==
    ASSUME IInv, TInv, TInv', BInv, Cleans, NEW p \in Requests, Acts(p), clean[p], Spread(p)
    PROVE  Clean(p)'
<1>1. PICK s, k, held, h :
        s = Row(p)[1] /\ k = Row(p)[2] /\ h = Head(todo[p]) /\ held = mem[p]
  OBVIOUS
<1>2. /\ Does(p, "spread") /\ Continue(p, <<>>, held)
      /\ UNCHANGED <<grade, level, lesson, question, unsaved>>
      /\ item' = [i \in Items |-> IF i \in ItemsOfKind(s, k)
                                  THEN [item[i] EXCEPT !.points = Points(held)] ELSE item[i]]
  BY <1>1 DEF Spread
<1>3. /\ todo[p] # <<>> /\ h.at = "spread" /\ h.of = Row(p)
      /\ Apt(ask[p], h, There(lesson), There(level)) /\ held \in MemRow
  BY <1>1, <1>2, HeadStep DEF IInv, TInv
<1>4. s \in There(lesson) /\ s \in Lessons /\ k \in KindSet /\ h.of = <<s, k>>
  <2>1. s \in There(lesson) /\ k \in KindSet /\ h.of = <<s, k>>  BY <1>1, <1>3 DEF Apt
  <2> QED  BY <2>1, ThereIs DEF TInv
<1>5. /\ HoldsLesson(s, held, KindSet) /\ SharesSent(p, s) /\ ItemSaves(p, s) = {}
      /\ SpreadOver(s, Before(k))
  <2>1. KnowsLesson(p, "spread", h.of, held)  BY <1>1, <1>3, HeadKnown DEF Knows
  <2> QED  BY <1>1, <1>3, <2>1 DEF KnowsLesson
<1>6. Points(held) = Each(s)  BY <1>3, <1>5, AllCounted
<1>7. \A i \in Items : item[i] # None => item[i] \in ItemRow  BY DEF TInv, Tabled
<1>8. /\ \A i \in Items : i \notin ItemsOfKind(s, k) => item'[i] = item[i]
      /\ \A i \in ItemsOfKind(s, k) :
            /\ item[i] # None /\ item'[i] # None
            /\ item'[i].lesson = item[i].lesson /\ item'[i].points = Each(s)
  <2>1. ASSUME NEW i \in ItemsOfKind(s, k)
        PROVE  /\ item[i] # None /\ item'[i] # None
               /\ item'[i].lesson = item[i].lesson /\ item'[i].points = Each(s)
    <3>1. i \in Items /\ item[i] # None /\ item[i] \in ItemRow
      BY <1>7 DEF ItemsOfKind, ItemsOf
    <3>2. item'[i] = [item[i] EXCEPT !.points = Points(held)]  BY <1>2, <3>1
    <3>3. Points(held) \in Nat
      <4>1. held.lesson \in LessonRow
        BY <1>1, <1>2, HeadStep DEF IInv, TInv, HoldsAt
      <4> QED  BY <1>3, <4>1, PointsNat
    <3>4. item'[i] \in ItemRow  BY <3>1, <3>2, <3>3 DEF ItemRow
    <3>5. item'[i].lesson = item[i].lesson /\ item'[i].points = Points(held)
      BY <3>1, <3>2 DEF ItemRow
    <3> QED  BY <1>6, <3>1, <3>4, <3>5, CurriculumTreeAssumed DEF CurriculumTreeAssumption
  <2> QED  BY <1>2, <2>1
<1>9. \A t : ItemsOf(t)' = ItemsOf(t)
  <2>1. \A i \in Items : (item'[i] # None <=> item[i] # None)
                          /\ (item[i] # None => item'[i].lesson = item[i].lesson)
    BY <1>8
  <2> QED  BY <2>1 DEF ItemsOf
<1>10. SameSaves(p) /\ \A t : t # s => SameItems(t)
  <2>1. \A t : t # s => \A i \in ItemsOf(t) : i \in Items /\ i \notin ItemsOfKind(s, k)
    BY DEF ItemsOfKind, ItemsOf
  <2> QED  BY <1>2, <1>8, <1>9, <2>1 DEF SameItems, SameSaves
<1>11. \A t : t # s => (Done(p, t)' <=> Done(p, t)) /\ (NoSaves(p, t)' <=> NoSaves(p, t))
  BY <1>2, <1>10, StaysDone DEF Done, NoSaves
<1>12. h.at \notin Early /\ LessonOf(h) = s /\ h.at \in ForLesson /\ h.at \notin ForLevel
  BY <1>3, <1>4 DEF Early, LessonOf, ForLesson, ForLevel
<1>13. OwesLesson(p, s)'  BY <1>1, <1>2, <1>3, <1>12, LeadsOwe
<1>14. SeesToAll(p, h)
  <2>1. \A m : ~SeesTo(h, m)  BY <1>3 DEF SeesTo
  <2>2. \A x : h # At("saveGrade", x)  BY <1>3 DEF At
  <2>3. (\A m : SameTotals(m)) /\ (\A g : SamePoints(g))  BY <1>2, PartsStill
  <2>4. (\A m : RightLevel(m)' <=> RightLevel(m)) /\ \A g : RightGrade(g)' <=> RightGrade(g)
    BY <1>2, <2>3, StaysSummed, StaysWorth
  <2> QED  BY <1>11, <1>12, <1>13, <2>1, <2>2, <2>4 DEF SeesToAll
<1>15. Kept  BY <1>2 DEF Kept
<1>16. /\ Num(s)' = Num(s) /\ \A kk : NumOf(s, kk)' = NumOf(s, kk)
       /\ Each(s)' = Each(s) /\ Over(s)' = Over(s) /\ OverKind(s)' = OverKind(s)
       /\ SharesOf(s)' = SharesOf(s)
       /\ ShareSave(p, s)' = ShareSave(p, s) /\ OverSave(p, s)' = OverSave(p, s)
  BY <1>2, <1>9, SameCounts, SameShares
<1>17. /\ HoldsLesson(s, held, KindSet)' /\ SharesSent(p, s)' /\ ItemSaves(p, s)' = {}
  <2>1. HoldsLesson(s, held, KindSet)'  BY <1>2, <1>5, <1>16 DEF HoldsLesson
  <2>2. LessonSaves(p, s)' = LessonSaves(p, s)  BY <1>2 DEF LessonSaves
  <2>3. SharesSent(p, s)'  BY <1>2, <1>5, <1>16, <2>2 DEF SharesSent
  <2>4. ItemSaves(p, s)' = {}  BY <1>2, <1>5, <1>9 DEF ItemSaves
  <2> QED  BY <2>1, <2>3, <2>4
<1>18. SpreadOver(s, Before(k) \cup {k})'
  <2>1. ASSUME NEW i \in ItemsOf(s), KindOf[i] \in Before(k) \cup {k}
        PROVE  item'[i].points = Each(s)
    <3>1. i \in Items  BY DEF ItemsOf
    <3>2. CASE KindOf[i] = k  BY <1>8, <3>2 DEF ItemsOfKind
    <3>3. CASE KindOf[i] # k
      <4>1. item'[i] = item[i]  BY <1>8, <3>1, <3>3 DEF ItemsOfKind
      <4>2. item[i].points = Each(s)  BY <1>5, <2>1, <3>3 DEF SpreadOver
      <4> QED  BY <4>1, <4>2
    <3> QED  BY <3>2, <3>3
  <2>2. PICK kk : kk = Before(k) \cup {k}  OBVIOUS
  <2>3. SpreadOver(s, kk)'  BY <1>9, <1>16, <2>1, <2>2 DEF SpreadOver
  <2>4. (Before(k) \cup {k})' = Before(k) \cup {k}  BY DEF Before
  <2> QED  BY <2>2, <2>3, <2>4
<1>19. ASSUME NEW b, Follows(h, b), ~Open(b) PROVE Knows(p, b, held)'
  <2>1. b.at \in {"count", "spread", "last"}  BY <1>3, <1>19, FollowsWhat
  <2>2. CASE b.at = "count"  BY <1>3, <1>19, <2>2, FollowsAt
  <2>3. CASE b.at = "spread"
    <3>1. \E n \in 1 .. 2 : h = At("spread", <<b.of[1], Kinds[n]>>) /\ b.of[2] = Kinds[n + 1]
      BY <1>3, <1>19, <2>3 DEF Follows, At
    <3>2. b.of[1] = s /\ <<k, b.of[2]>> \in {<<"learning", "practice">>, <<"practice", "quiz">>}
      BY <1>4, <3>1 DEF At, Kinds
    <3>3. Before(b.of[2]) = Before(k) \cup {k}  BY <3>2 DEF Before
    <3>4. SpreadOver(b.of[1], Before(b.of[2]))'  BY <1>18, <3>2, <3>3
    <3>5. KnowsLesson(p, b.at, b.of, held)'  BY <1>17, <2>3, <3>2, <3>4 DEF KnowsLesson
    <3> QED  BY <2>3, <3>5 DEF Knows, KnowsRow, KnowsLevel, KnowsGrade, Early
  <2>4. CASE b.at = "last"
    <3>1. b.of = s /\ k = "quiz"  BY <1>4, <1>19, <2>4 DEF Follows, At, Kinds
    <3>2. Before(k) \cup {k} = KindSet  BY <3>1 DEF Before, KindSet
    <3>3. SpreadOver(b.of, KindSet)'  BY <1>18, <3>1, <3>2
    <3>4. KnowsLesson(p, b.at, b.of, held)'  BY <1>17, <2>4, <3>1, <3>3 DEF KnowsLesson
    <3> QED  BY <2>4, <3>4 DEF Knows, KnowsRow, KnowsLevel, KnowsGrade, Early
  <2> QED  BY <2>1, <2>2, <2>3, <2>4
<1>20. \A b : Follows(h, b) => Knows(p, b, held)'  BY <1>19, OpenKnown
<1>21. IsSeq(<<>>) /\ ToSet(<<>>) = {}  BY Elements DEF IsSeq
<1>22. \A m \in Levels : level'[m] = level[m]  BY <1>2
<1> QED  BY <1>1, <1>2, <1>3, <1>11, <1>12, <1>14, <1>15, <1>20, <1>21, <1>22, OwnClean

\* Some item comes last.
LEMMA SomeLast ==
    ASSUME TInv, NEW S, S \subseteq There(item), IsFiniteSet(S), S # {}
    PROVE  LastOf(S) # {}
<1> DEFINE Lasts(T) == { i \in T : \A j \in T : item[j].order <= item[i].order }
           B == { T \in SUBSET S : T # {} /\ Lasts(T) = {} }
<1>1. \A i \in S : item[i].order \in Nat
  <2>1. \A i \in S : i \in Items /\ item[i] # None  BY DEF There, TInv, Tabled
  <2> QED  BY <2>1 DEF TInv, Tabled, ItemRow
<1>2. ASSUME B # {} PROVE FALSE
  <2>1. PICK T \in B : \A U \in B : U \subseteq T => U = T
    <3>1. B \subseteq SUBSET S  OBVIOUS
    <3> HIDE DEF B
    <3> QED  BY <1>2, <3>1, SmallestSet
  <2>2. PICK x \in T : TRUE  OBVIOUS
  <2> DEFINE R == T \ {x}
  <2>3. R \notin B  BY <2>1, <2>2
  <2>4. CASE R = {}
    <3>1. \A j \in T : j = x  BY <2>4
    <3>2. x \in Lasts(T)  BY <1>1, <2>2, <3>1
    <3> QED  BY <2>1, <3>2
  <2>5. CASE R # {}
    <3>1. Lasts(R) # {}  BY <2>3, <2>5
    <3>2. PICK m \in R : \A j \in R : item[j].order <= item[m].order  BY <3>1
    <3>3. item[m].order \in Nat /\ item[x].order \in Nat /\ \A j \in R : item[j].order \in Nat
      BY <1>1, <2>2
    <3>4. CASE item[x].order <= item[m].order
      <4>1. \A j \in T : item[j].order <= item[m].order  BY <3>2, <3>4
      <4>2. m \in Lasts(T)  BY <3>2, <4>1
      <4> QED  BY <2>1, <4>2
    <3>5. CASE item[m].order < item[x].order
      <4>1. \A j \in R : item[j].order <= item[x].order  BY <3>2, <3>3, <3>5
      <4>2. \A j \in T : item[j].order <= item[x].order  BY <3>3, <4>1
      <4>3. x \in Lasts(T)  BY <2>2, <4>2
      <4> QED  BY <2>1, <4>3
    <3> QED  BY <3>3, <3>4, <3>5
  <2> QED  BY <2>4, <2>5
<1>3. S \notin B  BY <1>2
<1> QED  BY <1>3 DEF LastOf

\* Where a lesson has items there are some of the kind that gets what is left.
LEMMA OverKindHas ==
    \A s : OverKind(s) \in KindSet /\ (Num(s) # 0 => ItemsOfKind(s, OverKind(s)) # {})
<1> SUFFICES ASSUME NEW s
             PROVE  OverKind(s) \in KindSet /\ (Num(s) # 0 => ItemsOfKind(s, OverKind(s)) # {})
  OBVIOUS
<1>1. /\ NumOf(s, "learning") \in Nat /\ NumOf(s, "practice") \in Nat /\ NumOf(s, "quiz") \in Nat
  BY NumsNat
<1>2. Num(s) # 0 => NumOf(s, OverKind(s)) # 0  BY <1>1 DEF Num, OverKind
<1>3. \A k : ItemsOfKind(s, k) = {} => NumOf(s, k) = 0  BY FS_EmptySet DEF NumOf
<1>4. OverKind(s) \in KindSet  BY DEF OverKind, KindSet
<1> QED  BY <1>2, <1>3, <1>4

\* What is left goes to the last item, and to its lesson's shares.
LEMMA SpreadRestClean ==
    ASSUME IInv, TInv, TInv', BInv, Cleans, NEW p \in Requests, Acts(p), clean[p], SpreadRest(p)
    PROVE  Clean(p)'
<1>1. PICK s, k, held, h :
        s = Row(p) /\ k = LastKind(p) /\ h = Head(todo[p]) /\ held = mem[p]
  OBVIOUS
<1> DEFINE owed == IF Left(held) = 0 \/ ItemCount(held) = 0 THEN {} ELSE LastOf(ItemsOfKind(s, k))
           one(i) == [by |-> p, at |-> "item", of |-> i, set |-> item[i].points + Left(held)]
           other == [by |-> p, at |-> "lesson", of |-> s,
                     set |-> [c \in {k} |-> Points(held) * held.count[k] + Left(held)]]
<1>2. /\ Does(p, "last") /\ Continue(p, <<>>, held) /\ UNCHANGED tables
      /\ \/ owed = {} /\ unsaved' = unsaved
         \/ \E i \in owed : unsaved' = unsaved \cup {one(i), other}
  BY <1>1 DEF SpreadRest
<1>3. /\ todo[p] # <<>> /\ h.at = "last" /\ h.of = s
      /\ Apt(ask[p], h, There(lesson), There(level)) /\ held \in MemRow
  BY <1>1, <1>2, HeadStep DEF IInv, TInv
<1>4. s \in There(lesson) /\ s \in Lessons
  <2>1. s \in There(lesson)  BY <1>3 DEF Apt
  <2> QED  BY <2>1, ThereIs DEF TInv
<1>5. UNCHANGED <<grade, level, lesson, item, question>>  BY <1>2 DEF tables
<1>6. /\ HoldsLesson(s, held, KindSet) /\ SharesSent(p, s) /\ ItemSaves(p, s) = {}
      /\ SpreadOver(s, KindSet)
  <2>1. KnowsLesson(p, "last", h.of, held)  BY <1>1, <1>3, HeadKnown DEF Knows
  <2> QED  BY <1>3, <2>1 DEF KnowsLesson
<1>7. /\ ItemCount(held) = Num(s) /\ Points(held) = Each(s) /\ Left(held) = Over(s)
  BY <1>3, <1>6, AllCounted
<1>8. k = OverKind(s) /\ held.count[k] = NumOf(s, k) /\ k \in KindSet
  <2>1. \A c \in KindSet : held.count[c] = NumOf(s, c)  BY <1>6 DEF HoldsLesson
  <2>2. held.count["quiz"] = NumOf(s, "quiz") /\ held.count["practice"] = NumOf(s, "practice")
    BY <2>1 DEF KindSet
  <2>3. k = OverKind(s)  BY <1>1, <2>2 DEF LastKind, OverKind
  <2> QED  BY <2>1, <2>3, OverKindHas
<1>9. owed = IF Over(s) = 0 \/ Num(s) = 0 THEN {} ELSE LastOf(ItemsOfKind(s, OverKind(s)))
  BY <1>7, <1>8
<1>10. other = OverSave(p, s)
  <2>1. k # "brick" /\ k \in Columns  BY <1>8 DEF KindSet, Columns
  <2>2. SharesOf(s)[k] = Each(s) * NumOf(s, k)  BY <2>1 DEF SharesOf
  <2> QED  BY <1>7, <1>8, <2>2 DEF OverSave
<1>11. \A i \in ItemsOfKind(s, OverKind(s)) : i \in ItemsOf(s) /\ one(i) = ItemSave(p, s, i)
  <2>1. KindOf \in [Items -> KindSet]  BY CurriculumTreeAssumed DEF CurriculumTreeAssumption
  <2>2. \A i \in ItemsOf(s) : item[i].points = Each(s)  BY <1>6, <2>1 DEF SpreadOver, ItemsOf
  <2> QED  BY <1>7, <2>2 DEF ItemsOfKind, ItemSave
<1> HIDE DEF owed, one, other
<1>12. SameItems(s) /\ ItemsOf(s)' = ItemsOf(s)  BY <1>5 DEF SameItems, ItemsOf
<1>13. /\ Num(s)' = Num(s) /\ \A kk : NumOf(s, kk)' = NumOf(s, kk) /\ ItemsOfKind(s, kk)' = ItemsOfKind(s, kk)
       /\ Each(s)' = Each(s) /\ Over(s)' = Over(s) /\ OverKind(s)' = OverKind(s)
       /\ SharesOf(s)' = SharesOf(s)
       /\ ShareSave(p, s)' = ShareSave(p, s) /\ OverSave(p, s)' = OverSave(p, s)
       /\ \A i : ItemSave(p, s, i)' = ItemSave(p, s, i)
  BY <1>5, <1>12, SameCounts, SameShares
<1>14. ASSUME owed = {}, unsaved' = unsaved PROVE Done(p, s)'
  <2>1. Over(s) = 0 \/ Num(s) = 0
    <3>1. ASSUME Over(s) # 0, Num(s) # 0 PROVE FALSE
      <4> DEFINE S == ItemsOfKind(s, OverKind(s))
      <4>1. S # {}  BY <3>1, OverKindHas
      <4>2. S \subseteq There(item)  BY DEF ItemsOfKind, ItemsOf, There, TInv, Tabled
      <4>3. IsFiniteSet(S)  BY NumsNat
      <4> HIDE DEF S
      <4>4. LastOf(S) # {}  BY <4>1, <4>2, <4>3, SomeLast
      <4> QED  BY <1>9, <1>14, <3>1, <4>4 DEF S
    <3> QED  BY <3>1
  <2>2. Done(p, s)  BY <1>6, <2>1 DEF Done, PointsSent
  <2> QED  BY <1>2, <1>14, <2>2, AllStill
<1>15. ASSUME NEW i \in owed, unsaved' = unsaved \cup {one(i), other} PROVE Done(p, s)'
  <2>1. i \in ItemsOfKind(s, OverKind(s)) /\ Num(s) # 0
    BY <1>9, <1>15 DEF LastOf
  <2>2. i \in ItemsOf(s) /\ unsaved' = unsaved \cup {ItemSave(p, s, i), OverSave(p, s)}
    BY <1>10, <1>11, <1>15, <2>1
  <2>3. LessonSaves(p, s)' = LessonSaves(p, s) \cup {OverSave(p, s)}
    <3>1. ItemSave(p, s, i).at = "item"  BY DEF ItemSave
    <3>2. OverSave(p, s).by = p /\ OverSave(p, s).at = "lesson" /\ OverSave(p, s).of = s  BY DEF OverSave
    <3>3. \A w : w \in unsaved' <=> w \in unsaved \/ w = ItemSave(p, s, i) \/ w = OverSave(p, s)  BY <2>2
    <3> HIDE DEF one, other
    <3> QED  BY <3>1, <3>2, <3>3 DEF LessonSaves
  <2>4. ItemSaves(p, s)' = {ItemSave(p, s, i)}
    <3>1. ItemSave(p, s, i).at = "item" /\ ItemSave(p, s, i).by = p /\ ItemSave(p, s, i).of = i
      BY DEF ItemSave
    <3>2. OverSave(p, s).at = "lesson"  BY DEF OverSave
    <3>3. \A w : w \in unsaved' <=> w \in unsaved \/ w = ItemSave(p, s, i) \/ w = OverSave(p, s)  BY <2>2
    <3>4. ItemSaves(p, s) = {}  BY <1>6
    <3> QED  BY <1>12, <2>2, <3>1, <3>2, <3>3, <3>4 DEF ItemSaves
  <2>5. SharesSent(p, s)'
    <3>1. /\ LessonSaves(p, s) \subseteq {ShareSave(p, s), OverSave(p, s)}
          /\ \/ ShareSave(p, s) \in LessonSaves(p, s)
             \/ \A c \in Columns : \/ lesson[s].shares[c] = SharesOf(s)[c]
                                   \/ /\ c = OverKind(s) /\ Num(s) # 0
                                      /\ lesson[s].shares[c] = SharesOf(s)[c] + Over(s)
      BY <1>6 DEF SharesSent
    <3>2. LessonSaves(p, s)' \subseteq {ShareSave(p, s), OverSave(p, s)}  BY <2>3, <3>1
    <3>3. ShareSave(p, s) \in LessonSaves(p, s) => ShareSave(p, s) \in LessonSaves(p, s)'  BY <2>3
    <3>4. /\ LessonSaves(p, s)' \subseteq {ShareSave(p, s)', OverSave(p, s)'} /\ Num(s)' # 0
          /\ \/ ShareSave(p, s)' \in LessonSaves(p, s)'
             \/ \A c \in Columns : \/ lesson'[s].shares[c] = SharesOf(s)'[c]
                                   \/ /\ c = OverKind(s)' /\ Num(s)' # 0
                                      /\ lesson'[s].shares[c] = SharesOf(s)'[c] + Over(s)'
      BY <1>5, <1>13, <2>1, <3>1, <3>2, <3>3
    <3> QED  BY <3>4 DEF SharesSent
  <2>6. PointsSent(p, s)'
    <3>1. \A j \in ItemsOf(s) : item[j].points = Each(s)
      <4>1. KindOf \in [Items -> KindSet]  BY CurriculumTreeAssumed DEF CurriculumTreeAssumption
      <4> QED  BY <1>6, <4>1 DEF SpreadOver, ItemsOf
    <3>2. /\ i \in ItemsOfKind(s, OverKind(s)') /\ ItemSaves(p, s)' \subseteq {ItemSave(p, s, i)'}
          /\ \A j \in ItemsOf(s)' \ {i} : item'[j].points = Each(s)'
          /\ ItemSave(p, s, i)' \in ItemSaves(p, s)'
      BY <1>5, <1>12, <1>13, <2>1, <2>4, <3>1
    <3>3. PICK j : j = i  OBVIOUS
    <3>4. /\ j \in ItemsOfKind(s, OverKind(s))' /\ ItemSaves(p, s)' \subseteq {ItemSave(p, s, j)'}
          /\ \A jj \in ItemsOf(s)' \ {j} : item'[jj].points = Each(s)'
          /\ ItemSave(p, s, j)' \in ItemSaves(p, s)'
      <4>1. ItemsOfKind(s, OverKind(s))' = ItemsOfKind(s, OverKind(s))
        <5>1. PICK kk : kk = OverKind(s)  OBVIOUS
        <5>2. ItemsOfKind(s, kk)' = ItemsOfKind(s, kk) /\ OverKind(s)' = kk  BY <1>13, <5>1
        <5> QED  BY <5>1, <5>2
      <4> QED  BY <1>13, <2>1, <3>2, <3>3, <4>1
    <3> QED  BY <3>4 DEF PointsSent
  <2> QED  BY <2>5, <2>6 DEF Done
<1>16. Done(p, s)'  BY <1>2, <1>14, <1>15
<1>17. \A t : t # s => (Done(p, t)' <=> Done(p, t)) /\ (NoSaves(p, t)' <=> NoSaves(p, t))
  <2>1. ASSUME NEW w \in (unsaved' \ unsaved) \cup (unsaved \ unsaved')
        PROVE  \/ w.at = "lesson" /\ w.of = s
               \/ w.at = "item" /\ w.of \in ItemsOf(s)
    <3>1. PICK i \in owed : unsaved' = unsaved \cup {one(i), other}  BY <1>2, <2>1
    <3>2. i \in ItemsOf(s)  BY <1>9, <1>11, <3>1 DEF LastOf
    <3>3. w = one(i) \/ w = other  BY <2>1, <3>1
    <3> QED  BY <3>2, <3>3 DEF one, other
  <2> QED  BY <1>5, <2>1, OthersDone
<1>18. h.at \notin Early /\ LessonOf(h) = s /\ h.at \in ForLesson /\ h.at \in Closing
  BY <1>3 DEF Early, LessonOf, ForLesson, Closing
<1>19. SeesToAll(p, h)
  <2>1. \A m : ~SeesTo(h, m)  BY <1>3 DEF SeesTo
  <2>2. \A x : h # At("saveGrade", x)  BY <1>3 DEF At
  <2>3. (\A m : SameTotals(m)) /\ (\A g : SamePoints(g))  BY <1>5, PartsStill
  <2>4. (\A m : RightLevel(m)' <=> RightLevel(m)) /\ \A g : RightGrade(g)' <=> RightGrade(g)
    BY <1>5, <2>3, StaysSummed, StaysWorth
  <2> QED  BY <1>16, <1>17, <1>18, <2>1, <2>2, <2>4 DEF SeesToAll
<1>20. Kept  BY <1>5 DEF Kept
<1>21. \A b : Follows(h, b) => Knows(p, b, held)'  BY <1>18, ClosingKnown
<1>22. IsSeq(<<>>) /\ ToSet(<<>>) = {}  BY Elements DEF IsSeq
<1>23. \A m \in Levels : level'[m] = level[m]  BY <1>5
<1> QED  BY <1>1, <1>2, <1>3, <1>17, <1>18, <1>19, <1>20, <1>21, <1>22, <1>23, OwnClean

(***************************************************************************)
(* A clean request's saves land                                            *)
(***************************************************************************)

\* What a save that lands leaves as it was.
LEMMA LandLeaves ==
    ASSUME TInv, NEW w \in unsaved, Land(w)
    PROVE  /\ UNCHANGED <<grade, level, question>> /\ unsaved' = unsaved \ {w}
           /\ \A t \in Lessons :
                 \/ lesson'[t] = lesson[t]
                 \/ /\ w.at = "lesson" /\ w.of = t /\ lesson[t] \in LessonRow
                    /\ lesson'[t] = [lesson[t] EXCEPT !.shares =
                          [c \in Columns |-> IF c \in DOMAIN w.set THEN w.set[c] ELSE @[c]]]
           /\ \A i \in Items :
                 \/ item'[i] = item[i]
                 \/ /\ w.at = "item" /\ w.of = i /\ item[i] # None /\ item[i] \in ItemRow
                    /\ item'[i] = [item[i] EXCEPT !.points = w.set]
           /\ \A t : ItemsOf(t)' = ItemsOf(t)
           /\ w.at = "lesson" => lesson' = [lesson EXCEPT ![w.of].shares =
                 [c \in Columns |-> IF c \in DOMAIN w.set THEN w.set[c] ELSE @[c]]]
           /\ w.at = "item" /\ item[w.of] # None => item' = [item EXCEPT ![w.of].points = w.set]
<1>1. /\ DOMAIN lesson = Lessons /\ DOMAIN item = Items
      /\ \A t \in Lessons : lesson[t] # None => lesson[t] \in LessonRow
      /\ \A i \in Items : item[i] # None => item[i] \in ItemRow
  BY DEF TInv, Tabled
<1>2. /\ w.at = "lesson" => w.of \in Lessons /\ lesson[w.of] \in LessonRow
      /\ w.at = "item" => w.of \in Items /\ w.set \in Nat
  BY ThereIs DEF TInv, SavesTyped
<1>3. /\ UNCHANGED <<grade, level, question>> /\ unsaved' = unsaved \ {w}
      /\ \/ /\ w.at = "item" /\ lesson' = lesson
            /\ item' = IF item[w.of] = None THEN item ELSE [item EXCEPT ![w.of].points = w.set]
         \/ /\ w.at = "lesson" /\ item' = item
            /\ lesson' = [lesson EXCEPT ![w.of].shares =
                  [c \in Columns |-> IF c \in DOMAIN w.set THEN w.set[c] ELSE @[c]]]
  BY DEF Land
<1>4. \A t \in Lessons :
         \/ lesson'[t] = lesson[t]
         \/ /\ w.at = "lesson" /\ w.of = t /\ lesson[t] \in LessonRow
            /\ lesson'[t] = [lesson[t] EXCEPT !.shares =
                  [c \in Columns |-> IF c \in DOMAIN w.set THEN w.set[c] ELSE @[c]]]
  BY <1>1, <1>2, <1>3
<1>5. \A i \in Items :
         \/ item'[i] = item[i]
         \/ /\ w.at = "item" /\ w.of = i /\ item[i] # None /\ item[i] \in ItemRow
            /\ item'[i] = [item[i] EXCEPT !.points = w.set]
  BY <1>1, <1>2, <1>3
<1>6. \A i \in Items : /\ item'[i] # None <=> item[i] # None
                       /\ item[i] # None => item'[i].lesson = item[i].lesson
  <2>1. ASSUME NEW i \in Items, item[i] \in ItemRow, item[i] # None, w.at = "item",
               item'[i] = [item[i] EXCEPT !.points = w.set]
        PROVE  item'[i] # None /\ item'[i].lesson = item[i].lesson
    <3>1. item'[i] \in ItemRow /\ item'[i].lesson = item[i].lesson  BY <1>2, <2>1 DEF ItemRow
    <3> QED  BY <3>1, CurriculumTreeAssumed DEF CurriculumTreeAssumption
  <2> QED  BY <1>5, <2>1
<1>7. \A t : ItemsOf(t)' = ItemsOf(t)  BY <1>6 DEF ItemsOf
<1>8. /\ w.at = "lesson" => lesson' = [lesson EXCEPT ![w.of].shares =
            [c \in Columns |-> IF c \in DOMAIN w.set THEN w.set[c] ELSE @[c]]]
      /\ w.at = "item" /\ item[w.of] # None => item' = [item EXCEPT ![w.of].points = w.set]
  BY <1>3
<1> QED  BY <1>3, <1>4, <1>5, <1>7, <1>8

\* What was sent of a lesson is sent, and then saved.
LEMMA LandDone ==
    ASSUME TInv, NEW w \in unsaved, Land(w), NEW p, p = w.by, NEW t \in Lessons
    PROVE  /\ SharesSent(p, t) => SharesSent(p, t)'
           /\ PointsSent(p, t) => PointsSent(p, t)'
           /\ NoSaves(p, t) => NoSaves(p, t)' /\ lesson'[t].shares = lesson[t].shares
           /\ ItemSaves(p, t) = {} => /\ ItemSaves(p, t)' = {}
                                      /\ \A ks : SpreadOver(t, ks) => SpreadOver(t, ks)'
           /\ \A held, ks : HoldsLesson(t, held, ks)' <=> HoldsLesson(t, held, ks)
<1>1. ItemsOf(t)' = ItemsOf(t) /\ unsaved' = unsaved \ {w}  BY LandLeaves
<1>2. lesson'[t].total = lesson[t].total
  <2>1. ASSUME lesson[t] \in LessonRow, NEW x, lesson'[t] = [lesson[t] EXCEPT !.shares = x]
        PROVE  lesson'[t].total = lesson[t].total
    BY <2>1 DEF LessonRow
  <2> QED  BY <2>1, LandLeaves
<1>3. /\ Num(t)' = Num(t) /\ \A kk : NumOf(t, kk)' = NumOf(t, kk) /\ ItemsOfKind(t, kk)' = ItemsOfKind(t, kk)
      /\ Each(t)' = Each(t) /\ Over(t)' = Over(t) /\ OverKind(t)' = OverKind(t)
      /\ SharesOf(t)' = SharesOf(t)
      /\ ShareSave(p, t)' = ShareSave(p, t) /\ OverSave(p, t)' = OverSave(p, t)
      /\ \A i : ItemSave(p, t, i)' = ItemSave(p, t, i)
  BY <1>1, <1>2, SameCounts, SameShares
<1>4. LessonSaves(p, t)' = LessonSaves(p, t) \ {w} /\ ItemSaves(p, t)' = ItemSaves(p, t) \ {w}
  BY <1>1 DEF LessonSaves, ItemSaves
<1>5. /\ w \in LessonSaves(p, t) \/ lesson'[t] = lesson[t]
      /\ w \in ItemSaves(p, t) \/ \A i \in ItemsOf(t) : item'[i] = item[i]
  <2>1. w \in LessonSaves(p, t) \/ lesson'[t] = lesson[t]  BY LandLeaves DEF LessonSaves
  <2>2. \A i \in ItemsOf(t) : i \in Items  BY DEF ItemsOf
  <2>3. \A i \in ItemsOf(t) : item'[i] = item[i] \/ (w.at = "item" /\ w.of = i)  BY <2>2, LandLeaves
  <2> QED  BY <2>1, <2>3 DEF ItemSaves
<1>6. /\ OverKind(t) \in KindSet /\ "brick" \in Columns /\ KindSet \subseteq Columns
      /\ "brick" \notin KindSet
      /\ ShareSave(p, t) # OverSave(p, t)
  <2>1. OverKind(t) \in KindSet /\ "brick" \in Columns /\ "brick" \notin KindSet
    BY OverKindHas DEF Columns, KindSet
  <2>2. "brick" \in DOMAIN ShareSave(p, t).set  BY <2>1 DEF ShareSave, SharesOf
  <2>3. "brick" \notin DOMAIN OverSave(p, t).set  BY <2>1 DEF OverSave
  <2> QED  BY <2>1, <2>2, <2>3 DEF Columns
<1>7. ASSUME SharesSent(p, t) PROVE SharesSent(p, t)'
  <2> DEFINE Good(row) == \A c \in Columns :
                  \/ row.shares[c] = SharesOf(t)[c]
                  \/ c = OverKind(t) /\ Num(t) # 0 /\ row.shares[c] = SharesOf(t)[c] + Over(t)
  <2>1. /\ LessonSaves(p, t) \subseteq {ShareSave(p, t), OverSave(p, t)}
        /\ Num(t) = 0 => LessonSaves(p, t) \subseteq {ShareSave(p, t)}
        /\ ShareSave(p, t) \in LessonSaves(p, t) \/ Good(lesson[t])
    BY <1>7 DEF SharesSent
  <2>2. ShareSave(p, t) \in LessonSaves(p, t)' \/ Good(lesson'[t])
    <3>1. CASE w \notin LessonSaves(p, t)  BY <1>4, <1>5, <2>1, <3>1
    <3>2. CASE w \in LessonSaves(p, t)
      <4>1. w.at = "lesson" /\ w.of = t  BY <3>2 DEF LessonSaves
      <4>2. lesson[t] \in LessonRow /\ DOMAIN lesson = Lessons
        BY <4>1, ThereIs DEF TInv, SavesTyped, Tabled
      <4>3. lesson' = [lesson EXCEPT ![t].shares =
               [c \in Columns |-> IF c \in DOMAIN w.set THEN w.set[c] ELSE @[c]]]
        BY <4>1, LandLeaves
      <4>4. \A c \in Columns : lesson'[t].shares[c]
               = IF c \in DOMAIN w.set THEN w.set[c] ELSE lesson[t].shares[c]
        BY <4>2, <4>3 DEF LessonRow
      <4>5. CASE w = ShareSave(p, t)
        <5>1. w.set = SharesOf(t) /\ DOMAIN w.set = Columns  BY <4>5 DEF ShareSave, SharesOf
        <5> QED  BY <4>4, <5>1
      <4>6. CASE w # ShareSave(p, t)
        <5>1. w = OverSave(p, t) /\ Num(t) # 0  BY <2>1, <3>2, <4>6
        <5>2. CASE ShareSave(p, t) \in LessonSaves(p, t)  BY <1>4, <4>6, <5>2
        <5>3. CASE Good(lesson[t])
          <6>1. w.set = [c \in {OverKind(t)} |-> SharesOf(t)[OverKind(t)] + Over(t)]
            BY <5>1 DEF OverSave
          <6>2. ASSUME NEW c \in Columns
                PROVE  \/ lesson'[t].shares[c] = SharesOf(t)[c]
                       \/ c = OverKind(t) /\ lesson'[t].shares[c] = SharesOf(t)[c] + Over(t)
            <7>1. CASE c = OverKind(t)  BY <4>4, <6>1, <7>1
            <7>2. CASE c # OverKind(t)  BY <4>4, <5>3, <6>1, <7>2
            <7> QED  BY <7>1, <7>2
          <6> QED  BY <5>1, <6>2
        <5> QED  BY <2>1, <5>2, <5>3
      <4> QED  BY <4>5, <4>6
    <3> QED  BY <3>1, <3>2
  <2>3. LessonSaves(p, t)' \subseteq LessonSaves(p, t)  BY <1>4
  <2> QED  BY <1>3, <2>1, <2>2, <2>3 DEF SharesSent
<1>8. ASSUME PointsSent(p, t) PROVE PointsSent(p, t)'
  <2>1. CASE w \notin ItemSaves(p, t)
    <3>1. ItemSaves(p, t)' = ItemSaves(p, t) /\ \A i \in ItemsOf(t) : item'[i] = item[i]
      BY <1>4, <1>5, <2>1
    <3>2. CASE (Over(t) = 0 \/ Num(t) = 0) /\ ItemSaves(p, t) = {} /\ SpreadOver(t, KindSet)
      <4>1. (Over(t)' = 0 \/ Num(t)' = 0) /\ ItemSaves(p, t)' = {}  BY <1>3, <3>1, <3>2
      <4>2. SpreadOver(t, KindSet)'  BY <1>1, <1>3, <3>1, <3>2 DEF SpreadOver
      <4> QED  BY <4>1, <4>2 DEF PointsSent
    <3>3. ASSUME NEW i \in ItemsOfKind(t, OverKind(t)),
                 /\ ItemSaves(p, t) \subseteq {ItemSave(p, t, i)}
                 /\ \A j \in ItemsOf(t) \ {i} : item[j].points = Each(t)
                 /\ item[i].points = Each(t) + Over(t) \/ ItemSave(p, t, i) \in ItemSaves(p, t)
          PROVE  PointsSent(p, t)'
      <4>1. i \in ItemsOfKind(t, OverKind(t))' /\ i \in ItemsOf(t)
        <5>1. PICK kk : kk = OverKind(t)  OBVIOUS
        <5>2. ItemsOfKind(t, kk)' = ItemsOfKind(t, kk) /\ OverKind(t)' = kk  BY <1>3, <5>1
        <5>3. i \in ItemsOf(t)  BY DEF ItemsOfKind
        <5> QED  BY <5>1, <5>2, <5>3
      <4>2. /\ ItemSaves(p, t)' \subseteq {ItemSave(p, t, i)'}
            /\ \A j \in ItemsOf(t)' \ {i} : item'[j].points = Each(t)'
            /\ item'[i].points = Each(t)' + Over(t)' \/ ItemSave(p, t, i)' \in ItemSaves(p, t)'
        BY <1>1, <1>3, <3>1, <3>3, <4>1
      <4> QED  BY <4>1, <4>2 DEF PointsSent
    <3> QED  BY <1>8, <3>2, <3>3 DEF PointsSent
  <2>2. CASE w \in ItemSaves(p, t)
    <3>1. PICK i \in ItemsOfKind(t, OverKind(t)) :
             /\ ItemSaves(p, t) \subseteq {ItemSave(p, t, i)}
             /\ \A j \in ItemsOf(t) \ {i} : item[j].points = Each(t)
      BY <1>8, <2>2 DEF PointsSent
    <3>2. w = ItemSave(p, t, i) /\ w.of = i /\ w.set = Each(t) + Over(t) /\ w.at = "item"
      BY <2>2, <3>1 DEF ItemSave
    <3>3. i \in ItemsOf(t) /\ i \in Items /\ item[i] # None /\ item[i] \in ItemRow /\ DOMAIN item = Items
      BY DEF ItemsOfKind, ItemsOf, TInv, Tabled
    <3>4. item' = [item EXCEPT ![i].points = w.set]  BY <3>2, <3>3, LandLeaves
    <3>5. item'[i].points = Each(t) + Over(t) /\ \A j \in Items \ {i} : item'[j] = item[j]
      BY <3>2, <3>3, <3>4 DEF ItemRow
    <3>6. \A j \in ItemsOf(t) \ {i} : item'[j].points = Each(t)  BY <3>1, <3>5 DEF ItemsOf
    <3>7. i \in ItemsOfKind(t, OverKind(t))'
      <4>1. PICK kk : kk = OverKind(t)  OBVIOUS
      <4>2. ItemsOfKind(t, kk)' = ItemsOfKind(t, kk) /\ OverKind(t)' = kk  BY <1>3, <4>1
      <4> QED  BY <4>1, <4>2
    <3>8. /\ ItemSaves(p, t)' \subseteq {ItemSave(p, t, i)'}
          /\ \A j \in ItemsOf(t)' \ {i} : item'[j].points = Each(t)'
          /\ item'[i].points = Each(t)' + Over(t)'
      BY <1>1, <1>3, <1>4, <3>1, <3>5, <3>6
    <3> QED  BY <3>7, <3>8 DEF PointsSent
  <2> QED  BY <2>1, <2>2
<1>9. NoSaves(p, t) => NoSaves(p, t)' /\ lesson'[t].shares = lesson[t].shares
  BY <1>4, <1>5 DEF NoSaves
<1>10. ItemSaves(p, t) = {} => /\ ItemSaves(p, t)' = {}
                               /\ \A ks : SpreadOver(t, ks) => SpreadOver(t, ks)'
  BY <1>1, <1>3, <1>4, <1>5 DEF SpreadOver
<1>11. \A held, ks : HoldsLesson(t, held, ks)' <=> HoldsLesson(t, held, ks)
  BY <1>2, <1>3 DEF HoldsLesson
<1> QED  BY <1>7, <1>8, <1>9, <1>10, <1>11

\* A clean request's save lands: it has counted what it had counted, and knows
\* what it knew.
LEMMA LandClean ==
    ASSUME IInv, TInv, TInv', BInv, Cleans, NEW w \in unsaved, Land(w), NEW p \in Requests, p = w.by,
           Acts(p), clean[p]
    PROVE  Clean(p)'
<1>1. /\ UNCHANGED <<ask, status, todo, mem, reach, grade, level, question>>
      /\ unsaved' = unsaved \ {w}
  BY DEF Land, ghosts
<1>2. /\ status[p] # "idle" /\ todo[p] \notin Beginnings
      /\ \A b \in ToSet(todo[p]) : b.at \notin Early
  <2>1. status[p] # "idle"  BY DEF Acts
  <2>2. /\ todo[p] \in Beginnings \/ \A step \in ToSet(todo[p]) : step.at \notin Early
        /\ status[p] = "idle" \/ todo[p] \in Beginnings => \A v \in unsaved : v.by # p
    BY DEF BInv, Shapes, Ordered
  <2> QED  BY <2>1, <2>2
<1>3. /\ todo[p] # <<>> => Knows(p, Head(todo[p]), mem[p])
      /\ \A step \in ToSet(todo[p]) : Ahead(p, step)
      /\ Owing(p)
  BY <1>2 DEF Cleans, Clean
<1>4. ASSUME NEW t \in Lessons
      PROVE  lesson'[t] = lesson[t] \/
                /\ lesson[t] # None /\ lesson'[t] # None /\ lesson'[t].total = lesson[t].total
                /\ \A f \in {"level", "on", "deleted"} : lesson'[t][f] = lesson[t][f]
  <2>1. ASSUME lesson'[t] # lesson[t] PROVE
                /\ lesson[t] # None /\ lesson'[t] # None /\ lesson'[t].total = lesson[t].total
                /\ \A f \in {"level", "on", "deleted"} : lesson'[t][f] = lesson[t][f]
    <3>1. PICK x : lesson[t] \in LessonRow /\ lesson'[t] = [lesson[t] EXCEPT !.shares = x]
      BY <2>1, LandLeaves
    <3>2. /\ lesson'[t].total = lesson[t].total /\ lesson'[t].level = lesson[t].level
          /\ lesson'[t].on = lesson[t].on /\ lesson'[t].deleted = lesson[t].deleted
      BY <3>1 DEF LessonRow
    <3>3. DOMAIN lesson' = Lessons /\ lesson' \in [Lessons -> LessonRow \cup {None}]
      BY DEF TInv, Tabled
    <3>4. lesson[t] # None
      BY <3>1, CurriculumTreeAssumed DEF CurriculumTreeAssumption
    <3>5. lesson'[t] # None
      <4>1. w.at = "lesson" /\ w.of = t /\ lesson[t] \in LessonRow
        BY <2>1, LandLeaves
      <4>2. lesson'[t] = [lesson[t] EXCEPT !.shares =
                          [c \in Columns |-> IF c \in DOMAIN w.set THEN w.set[c] ELSE @[c]]]
        BY <2>1, LandLeaves
      <4>3. \A c \in DOMAIN w.set : w.set[c] \in Nat  BY <4>1 DEF TInv, SavesTyped
      <4>4. \A c \in Columns : lesson[t].shares[c] \in Nat  BY <4>1 DEF LessonRow
      <4>5. [c \in Columns |-> IF c \in DOMAIN w.set THEN w.set[c] ELSE lesson[t].shares[c]]
              \in [Columns -> Nat]
        BY <4>3, <4>4
      <4>6. lesson'[t] \in LessonRow  BY <4>1, <4>2, <4>5 DEF LessonRow
      <4> QED  BY <4>6, CurriculumTreeAssumed DEF CurriculumTreeAssumption
    <3> QED  BY <3>2, <3>4, <3>5
  <2> QED  BY <2>1
<1>5. Kept  BY <1>1, <1>4 DEF Kept
<1>6. /\ \A l : SameTotals(l) /\ Totals(l)' = Totals(l) /\ QuizWorth(l)' = QuizWorth(l)
      /\ \A l : RightLevel(l)' <=> RightLevel(l)
  <2>1. \A l : LiveLessons(l)' = LiveLessons(l)  BY <1>5, KeptSums
  <2>2. \A l : (HasQuiz(l)' <=> HasQuiz(l))  BY <1>1 DEF HasQuiz
  <2>3. \A l : \A s \in LiveLessons(l) : lesson'[s].total = lesson[s].total
    <3>1. \A l : \A s \in LiveLessons(l) : s \in Lessons  BY DEF LiveLessons, Live, TInv, Tabled
    <3> QED  BY <1>4, <3>1
  <2>4. \A l : SameTotals(l)  BY <2>1, <2>2, <2>3 DEF SameTotals
  <2> QED  BY <1>1, <2>4, StaysSummed
<1>7. \A g : /\ LevelSum(g)' = LevelSum(g) /\ LiveLevels(g)' = LiveLevels(g)
             /\ RightGrade(g)' <=> RightGrade(g)
  BY <1>1, PartsStill, StaysWorth
<1>8. \A t \in Lessons :
          /\ SharesSent(p, t) => SharesSent(p, t)'
          /\ PointsSent(p, t) => PointsSent(p, t)'
          /\ NoSaves(p, t) => NoSaves(p, t)' /\ lesson'[t].shares = lesson[t].shares
          /\ ItemSaves(p, t) = {} => /\ ItemSaves(p, t)' = {}
                                     /\ \A ks : SpreadOver(t, ks) => SpreadOver(t, ks)'
          /\ \A held, ks : HoldsLesson(t, held, ks)' <=> HoldsLesson(t, held, ks)
  BY LandDone
<1>9. \A b \in ToSet(todo[p]) : Apt(ask[p], b, There(lesson), There(level))
  <2>1. \A n \in DOMAIN todo[p] : Apt(ask[p], todo[p][n], There(lesson), There(level))
    BY DEF TInv, Going, Steps, Sound
  <2> QED  BY <2>1 DEF ToSet
<1>10. There(lesson) \subseteq Lessons /\ There(level) \subseteq Levels  BY ThereIs DEF TInv
<1>11. ASSUME todo[p] # <<>>, NEW b, b = Head(todo[p]), NEW held, held = mem[p]
       PROVE  Knows(p, b, held)'
  <2>1. b \in ToSet(todo[p]) /\ Knows(p, b, held)  BY <1>3, <1>11, HeadShape DEF BInv
  <2>2. b.at \notin Early /\ Apt(ask[p], b, There(lesson), There(level))  BY <1>2, <1>9, <2>1
  <2>3. KnowsRow(p, b.at, held)'  BY <2>2 DEF KnowsRow, Early
  <2>4. KnowsLesson(p, b.at, b.of, held)'
    <3>0. KnowsLesson(p, b.at, b.of, held)  BY <2>1 DEF Knows
    <3>1. ASSUME b.at = "count"
          PROVE  /\ HoldsLesson(b.of[1], held, Before(b.of[2]))' /\ NoSaves(p, b.of[1])'
                 /\ held.lesson.shares = lesson'[b.of[1]].shares
      <4>1. PICK t : t = b.of[1]  OBVIOUS
      <4>2. t \in Lessons  BY <1>10, <2>2, <3>1, <4>1 DEF Apt
      <4> QED  BY <1>8, <3>0, <3>1, <4>1, <4>2 DEF KnowsLesson
    <3>2. ASSUME b.at = "spread"
          PROVE  /\ HoldsLesson(b.of[1], held, KindSet)' /\ SharesSent(p, b.of[1])'
                 /\ ItemSaves(p, b.of[1])' = {} /\ SpreadOver(b.of[1], Before(b.of[2]))'
      <4>1. PICK t : t = b.of[1]  OBVIOUS
      <4>2. t \in Lessons  BY <1>10, <2>2, <3>2, <4>1 DEF Apt
      <4> QED  BY <1>8, <3>0, <3>2, <4>1, <4>2 DEF KnowsLesson
    <3>3. ASSUME b.at = "last"
          PROVE  /\ HoldsLesson(b.of, held, KindSet)' /\ SharesSent(p, b.of)'
                 /\ ItemSaves(p, b.of)' = {} /\ SpreadOver(b.of, KindSet)'
      <4>1. b.of \in Lessons  BY <1>10, <2>2, <3>3 DEF Apt
      <4> QED  BY <1>8, <3>0, <3>3, <4>1 DEF KnowsLesson
    <3> QED  BY <3>1, <3>2, <3>3 DEF KnowsLesson
  <2>5. KnowsLevel(b.at, b.of, held)'  BY <1>1, <1>6, <2>1 DEF Knows, KnowsLevel
  <2>6. KnowsGrade(b.at, b.of, held)'  BY <1>1, <1>7, <2>1 DEF Knows, KnowsGrade
  <2> QED  BY <2>3, <2>4, <2>5, <2>6 DEF Knows
<1>12. todo'[p] # <<>> => Knows(p, Head(todo[p]), mem[p])'
  <2> SUFFICES ASSUME todo'[p] # <<>> PROVE Knows(p, Head(todo[p]), mem[p])'
    OBVIOUS
  <2>1. PICK b, held : b = Head(todo[p]) /\ held = mem[p]  OBVIOUS
  <2>2. Knows(p, b, held)'  BY <1>1, <1>11, <2>1
  <2>3. b = Head(todo'[p]) /\ held = mem'[p]  BY <1>1, <2>1
  <2> QED  BY <2>2, <2>3, NextStepKnown DEF NextKnown
<1>13. ASSUME NEW b \in ToSet(todo[p]) PROVE Ahead(p, b)'
  <2>1. Ahead(p, b) /\ Apt(ask[p], b, There(lesson), There(level))  BY <1>3, <1>9
  <2>2. ASSUME b.at \in {"lesson", "refresh"}
        PROVE  NoSaves(p, b.of)' /\ (b.at = "refresh" => ~lesson'[b.of].deleted)
    <3>1. b.of \in Lessons  BY <1>10, <2>1, <2>2 DEF Apt
    <3>2. NoSaves(p, b.of)'  BY <1>8, <2>1, <2>2, <3>1 DEF Ahead
    <3> QED  BY <1>4, <2>1, <3>1, <3>2 DEF Ahead
  <2> QED  BY <1>1, <2>1, <2>2 DEF Ahead
<1>14. Owing(p)'
  <2>1. CASE status[p] \notin {"running", "done"}  BY <1>1, <2>1 DEF Owing
  <2>2. CASE status[p] \in {"running", "done"}
    <3>1. PICK h : h = At("check", None)  OBVIOUS
    <3>2. h.at = "check" /\ \A x : h # At("saveGrade", x)  BY <3>1 DEF At
    <3>3. h.at \notin ForLesson /\ \A l : ~SeesTo(h, l)  BY <3>2 DEF ForLesson, SeesTo
    <3>4. \A s \in Lessons : Done(p, s) => Done(p, s)'  BY <1>8 DEF Done
    <3>5. SeesToAll(p, h)  BY <1>6, <1>7, <3>2, <3>3, <3>4 DEF SeesToAll
    <3>6. \A step \in ToSet(todo[p]) : step \in ToSet(todo'[p]) \/ step = h  BY <1>1
    <3> QED  BY <1>1, <1>2, <1>3, <1>5, <2>2, <3>5, <3>6, OwingOn
  <2> QED  BY <2>1, <2>2
<1>15. \A b \in ToSet(todo'[p]) : Ahead(p, b)'  BY <1>1, <1>13
<1> QED  BY <1>12, <1>14, <1>15 DEF Clean

\* A request that loses a save is not clean.
LEMMA LoseSaveClean ==
    ASSUME TInv, NEW w \in unsaved, LoseSave(w), NEW p \in Requests, p = w.by
    PROVE  Clean(p)'
<1>1. clean'[p] = FALSE  BY DEF LoseSave, TInv, Tallied
<1> QED  BY <1>1 DEF Clean

(***************************************************************************)
(* A clean request stops, reorders, or reads the row it is about           *)
(***************************************************************************)

\* A request that fails owes nothing any more.
LEMMA StopsClean ==
    ASSUME IInv, TInv, NEW p \in Requests, Fail(p) \/ Deadlocked(p)
    PROVE  Clean(p)'
<1>1. todo[p] # <<>> /\ Stop(p, "failed") /\ clean' = clean
  BY DEF Fail, Deadlocked, Waits, Does, ghosts
<1>2. todo'[p] = <<>> /\ status'[p] = "failed"  BY <1>1, Goings
<1> QED  BY <1>2, StoppedClean

\* The steps of a reorder count nothing.
LEMMA OrderActsClean ==
    ASSUME IInv, IInv', NEW p \in Requests, ask' = ask,
           \E step \in OrderSteps : Does(p, step)
    PROVE  Clean(p)'
<1>1. PICK step \in OrderSteps : Does(p, step)  OBVIOUS
<1>2. AllFit(ask[p], todo[p])  BY DEF IInv, Todos
<1>3. todo[p] # <<>> /\ Head(todo[p]).at \in OrderSteps  BY <1>1 DEF Does
<1>4. Head(todo[p]) = todo[p][1] /\ 1 \in DOMAIN todo[p]  BY <1>2, <1>3 DEF AllFit, IsSeq
<1>5. ask[p].do = "reorder"  BY <1>2, <1>3, <1>4 DEF AllFit, Fits
<1> QED  BY <1>5, NextReorderClean DEF OrdersClean

\* What it reads is the row it is about, and that is in hand when it writes.
LEMMA ReadRowClean ==
    ASSUME IInv, TInv, BInv, Cleans, NEW p \in Requests, Acts(p), clean[p], ReadRow(p)
    PROVE  Clean(p)'
<1>1. /\ todo[p] # <<>> /\ Head(todo[p]).at = "read" /\ mem[p] \in MemRow
      /\ Apt(ask[p], Head(todo[p]), There(lesson), There(level))
  BY HeadStep DEF IInv, TInv, ReadRow
<1>2. UNCHANGED <<tables, ask, unsaved, reach, clean>>  BY DEF ReadRow, ghosts
<1>3. Tail(todo[p]) = <<At("write", None)>>  BY <1>1, HeadShape DEF BInv
<1>4. CASE Stop(p, "refused")
  <2>1. todo'[p] = <<>> /\ status'[p] = "refused"  BY <1>1, <1>2, <1>4, Goings
  <2> QED  BY <2>1, StoppedClean
<1>5. CASE Continue(p, <<>>, Hold(p, "row", Target(ask[p]))) /\ Target(ask[p]) # None
  <2>1. PICK held : held = Hold(p, "row", Target(ask[p]))  OBVIOUS
  <2>2. held.row = Target(ask[p])  BY <1>1, <2>1 DEF Hold, MemRow
  <2>3. todo'[p] = <<>> \o Tail(todo[p]) /\ mem'[p] = IF todo'[p] = <<>> THEN NoMem ELSE held
    BY <1>1, <1>2, <1>5, <2>1, Goings
  <2>4. IsSeq(Tail(todo[p])) /\ todo'[p] = <<At("write", None)>>
    <3>1. IsSeq(Tail(todo[p]))  BY <1>1, HeadShape DEF BInv
    <3> QED  BY <1>3, <2>3, <3>1, NothingBefore
  <2>5. mem'[p] = held /\ Head(todo'[p]) = At("write", None) /\ ToSet(todo'[p]) = {At("write", None)}
    <3>1. todo'[p] # <<>> /\ Head(todo'[p]) = At("write", None)  BY <2>4
    <3>2. ToSet(<<At("write", None)>>) = {At("write", None)}
      <4>1. DOMAIN <<At("write", None)>> = 1 .. 1 /\ <<At("write", None)>>[1] = At("write", None)
        OBVIOUS
      <4> QED  BY <4>1 DEF ToSet
    <3> QED  BY <2>3, <2>4, <3>1, <3>2
  <2>6. reach[p] = Named(ask[p])
    <3>1. Knows(p, Head(todo[p]), mem[p])  BY <1>1, HeadKnown
    <3> QED  BY <1>1, <3>1 DEF Knows, KnowsRow, Early
  <2>7. PICK b : b = At("write", None)  OBVIOUS
  <2>8. b.at = "write"  BY <2>7 DEF At
  <2>9. Knows(p, b, held)'
    <3>1. Named(ask[p])' = Named(ask[p])  BY <1>2 DEF tables, Named, Upward
    <3>2. Target(ask[p])' = Target(ask[p])  BY <1>2 DEF tables, Target
    <3>3. KnowsRow(p, b.at, held)'  BY <1>2, <2>2, <2>6, <3>1, <3>2 DEF KnowsRow
    <3> QED  BY <2>8, <3>3 DEF Knows, KnowsLesson, KnowsLevel, KnowsGrade
  <2>10. Knows(p, Head(todo[p]), mem[p])'
    <3>1. b = Head(todo'[p]) /\ held = mem'[p]  BY <2>5, <2>7
    <3> QED  BY <2>9, <3>1, NextStepKnown DEF NextKnown
  <2>11. Ahead(p, b)'  BY <2>8 DEF Ahead
  <2>12. Owing(p)'  BY <2>4 DEF Owing, Beginnings
  <2>13. \A a \in ToSet(todo'[p]) : Ahead(p, a)'  BY <2>5, <2>7, <2>11
  <2> QED  BY <2>10, <2>12, <2>13 DEF Clean
<1> QED  BY <1>4, <1>5 DEF ReadRow

(***************************************************************************)
(* A bulk request lists every live row, and owes each one                  *)
(***************************************************************************)

\* A list of a finite set's elements has them all, each once.
LEMMA AllListed ==
    ASSUME NEW S, IsFiniteSet(S), NEW rows \in SetToSeqs(S)
    PROVE  /\ Cardinality(S) \in Nat /\ DOMAIN rows = 1 .. Cardinality(S)
           /\ { rows[n] : n \in DOMAIN rows } = S
<1> DEFINE D == 1 .. Cardinality(S)
<1>1. Cardinality(S) \in Nat  BY FS_CardinalityType
<1>2. rows \in [D -> S] /\ \A m, n \in D : m # n => rows[m] # rows[n]  BY DEF SetToSeqs
<1>3. IsFiniteSet(D) /\ Cardinality(D) = Cardinality(S)
  <2>1. IsFiniteSet(D) /\ Cardinality(D) = IF 1 > Cardinality(S) THEN 0 ELSE Cardinality(S) - 1 + 1
    BY <1>1, FS_Interval
  <2> QED  BY <1>1, <2>1
<1> HIDE DEF D
<1>4. rows \in Injection(D, S)  BY <1>2 DEF Injection, IsInjective
<1>5. rows \in Surjection(D, S)  BY <1>3, <1>4, FS_Injection
<1>6. { rows[n] : n \in D } = S  BY <1>2, <1>5 DEF Surjection
<1> QED  BY <1>1, <1>2, <1>6 DEF D

\* The rows above these lessons and levels.
LEMMA UpwardIs ==
    /\ \A ss : ss \subseteq There(lesson) /\ Rooted => Upward(ss, {}, {}) =
          ss \cup { lesson[s].level : s \in ss } \cup { level[lesson[s].level].grade : s \in ss }
    /\ \A ls : ls \subseteq There(level) => Upward({}, ls, {}) = ls \cup { level[l].grade : l \in ls }
<1>1. ASSUME NEW ss, ss \subseteq There(lesson), Rooted
      PROVE  Upward(ss, {}, {}) =
          ss \cup { lesson[s].level : s \in ss } \cup { level[lesson[s].level].grade : s \in ss }
  <2> DEFINE ls == { lesson[s].level : s \in ss }
  <2>1. \A s \in ss : lesson[s] # None /\ lesson[s].level \in There(level)  BY <1>1 DEF There, Rooted
  <2>2. \A l \in ls : level[l] # None  BY <2>1 DEF There
  <2>3. {} \cup { lesson[s].level : s \in { t \in ss : lesson[t] # None } } = ls  BY <2>1
  <2>4. { level[l].grade : l \in { m \in ls : level[m] # None } }
           = { level[lesson[s].level].grade : s \in ss }
    BY <2>2
  <2> HIDE DEF ls
  <2>5. Upward(ss, {}, {}) = ss \cup ls \cup {} \cup { level[l].grade : l \in { m \in ls : level[m] # None } }
    BY <2>3 DEF Upward
  <2> QED  BY <2>4, <2>5 DEF ls
<1>2. ASSUME NEW ls, ls \subseteq There(level)
      PROVE  Upward({}, ls, {}) = ls \cup { level[l].grade : l \in ls }
  <2>1. ls \cup { lesson[s].level : s \in { t \in {} : lesson[t] # None } } = ls  OBVIOUS
  <2>2. { level[l].grade : l \in { m \in ls : level[m] # None } } = { level[l].grade : l \in ls }
    BY <1>2 DEF There
  <2>3. Upward({}, ls, {}) = {} \cup ls \cup {} \cup { level[l].grade : l \in { m \in ls : level[m] # None } }
    BY <2>1 DEF Upward
  <2> QED  BY <2>2, <2>3
<1> QED  BY <1>1, <1>2

\* Whatever it lists has sent no save yet, and is as it was listed.
LEMMA ScanClean ==
    ASSUME Given, IInv, TInv, TInv', BInv, Cleans, NEW p \in Requests, Acts(p), clean[p], Scan(p)
    PROVE  Clean(p)'
<1>1. Does(p, "scan") /\ UNCHANGED <<tables, ask, unsaved, reach, clean>>
  BY DEF Scan, ghosts
<1>2. todo[p] # <<>> /\ Head(todo[p]).at = "scan" /\ Tail(todo[p]) = <<>>
  <2>1. todo[p] # <<>> /\ Head(todo[p]).at = "scan"  BY <1>1 DEF Does
  <2> QED  BY <2>1, HeadShape DEF BInv
<1>3. UNCHANGED <<grade, level, lesson, item, question>>  BY <1>1 DEF tables
<1>4. \A s : NoSaves(p, s)'
  <2>1. \A w \in unsaved : w.by # p  BY <1>2, HeadShape DEF BInv, Early
  <2>2. \A w \in unsaved' : w.by # p  BY <1>1, <2>1
  <2> QED  BY <2>2 DEF NoSaves, LessonSaves, ItemSaves
<1>5. /\ Live(lesson) \subseteq There(lesson) /\ Live(level) \subseteq There(level)
      /\ \A s \in Live(lesson) : ~lesson[s].deleted
      /\ IsFiniteSet(Live(lesson)) /\ IsFiniteSet(Live(level))
  <2>1. Live(lesson) \subseteq Lessons /\ Live(level) \subseteq Levels  BY DEF Live, Given
  <2>2. IsFiniteSet(Lessons) /\ IsFiniteSet(Levels)
    BY CurriculumTreeAssumed DEF CurriculumTreeAssumption
  <2> QED  BY <2>1, <2>2, FS_Subset DEF Live, There
<1>6. /\ There(lesson) \subseteq Lessons /\ There(level) \subseteq Levels
      /\ \A l \in There(level) : level[l].grade \in Grades
      /\ \A s \in There(lesson) : lesson[s].level \in There(level)
  BY ThereIs DEF TInv, LevelRow, Rooted
<1>7. Lessons \cap Levels = {} /\ (Lessons \cup Levels) \cap Grades = {}
  BY CurriculumTreeAssumed DEF CurriculumTreeAssumption
<1>8. ASSUME NEW steps, Continue(p, steps, mem[p]), IsSeq(steps),
             \A b \in ToSet(steps) : b.at \in {"refresh", "worth"} /\ Ahead(p, b)',
             \A x \in Counted(p)' : \/ x \in Lessons /\ OwesLesson(p, x)'
                                    \/ x \in Levels /\ OwesLevel(p, x)'
                                    \/ x \in Grades /\ OwesGrade(p, x)'
      PROVE  Clean(p)'
  <2>1. todo'[p] = steps \o Tail(todo[p]) /\ mem'[p] = IF todo'[p] = <<>> THEN NoMem ELSE mem[p]
    BY <1>1, <1>2, <1>8, Goings
  <2>2. todo'[p] = steps
    <3>1. IsSeq(<<>>)  BY DEF IsSeq
    <3>2. steps \o <<>> = steps  BY <1>8 DEF IsSeq
    <3> QED  BY <1>2, <2>1, <3>2
  <2>3. ASSUME todo'[p] # <<>> PROVE Knows(p, Head(todo[p]), mem[p])'
    <3>1. PICK b, held : b = Head(todo'[p]) /\ held = mem'[p]  OBVIOUS
    <3>2. b \in ToSet(steps)  BY <1>8, <2>2, <2>3, <3>1, Elements
    <3>3. b.at \in {"refresh", "worth"}  BY <1>8, <3>2
    <3>4. Open(b)  BY <3>3 DEF Open, Prior
    <3>5. Knows(p, b, held)'  BY <3>4, OpenKnown
    <3> QED  BY <3>1, <3>5, NextStepKnown DEF NextKnown
  <2>4. \A b \in ToSet(todo'[p]) : Ahead(p, b)'  BY <1>8, <2>2
  <2>5. \A x \in Counted(p)' : Counts(p, x)'
    <3> SUFFICES ASSUME NEW x \in Counted(p)' PROVE Counts(p, x)'
      OBVIOUS
    <3>1. CASE x \in Lessons /\ OwesLesson(p, x)'  BY <1>7, <3>1 DEF Counts
    <3>2. CASE x \in Levels /\ OwesLevel(p, x)'  BY <1>7, <3>2 DEF Counts
    <3>3. CASE x \in Grades /\ OwesGrade(p, x)'  BY <1>7, <3>3 DEF Counts
    <3> QED  BY <1>8, <3>1, <3>2, <3>3
  <2>6. Owing(p)'  BY <2>5 DEF Owing
  <2> QED  BY <2>3, <2>4, <2>6 DEF Clean
<1>9. CASE ask[p].do = "allLessons"
  <2>1. PICK rows \in SetToSeqs(Live(lesson)) :
          Continue(p, [n \in DOMAIN rows |-> At("refresh", rows[n])], mem[p])
    BY <1>9 DEF Scan
  <2>2. PICK steps : steps = [n \in DOMAIN rows |-> At("refresh", rows[n])]  OBVIOUS
  <2>3. /\ Cardinality(Live(lesson)) \in Nat /\ DOMAIN rows = 1 .. Cardinality(Live(lesson))
        /\ { rows[n] : n \in DOMAIN rows } = Live(lesson)
    BY <1>5, AllListed
  <2>4. IsSeq(steps)  BY <2>2, <2>3, Literal
  <2>5. ToSet(steps) = { At("refresh", s) : s \in Live(lesson) }
    <3>1. ToSet(steps) = { At("refresh", rows[n]) : n \in DOMAIN rows }  BY <2>2 DEF ToSet
    <3> QED  BY <2>3, <3>1
  <2>6. \A s : At("refresh", s).at = "refresh" /\ At("refresh", s).of = s  BY DEF At
  <2>7. \A b \in ToSet(steps) : b.at \in {"refresh", "worth"} /\ Ahead(p, b)'
    <3>1. ASSUME NEW b \in ToSet(steps) PROVE b.at = "refresh" /\ Ahead(p, b)'
      <4>1. b.at = "refresh" /\ b.of \in Live(lesson)  BY <2>5, <2>6
      <4>2. NoSaves(p, b.of)' /\ ~lesson'[b.of].deleted  BY <1>3, <1>4, <1>5, <4>1
      <4> QED  BY <4>1, <4>2 DEF Ahead
    <3> QED  BY <3>1
  <2>8. todo'[p] = steps
    <3>1. todo'[p] = steps \o Tail(todo[p])  BY <1>1, <1>2, <2>1, <2>2, Goings
    <3>2. steps \o <<>> = steps  BY <2>4 DEF IsSeq
    <3> QED  BY <1>2, <3>1, <3>2
  <2>9. Counted(p)' = Live(lesson) \cup { lesson[s].level : s \in Live(lesson) }
                        \cup { level[lesson[s].level].grade : s \in Live(lesson) }
    <3>1. Counted(p) = Upward(Live(lesson), {}, {})  BY <1>9 DEF Counted
    <3>2. Kept  BY <1>3 DEF Kept
    <3>3. Counted(p)' = Counted(p)  BY <1>1, <3>2, KeptCounted
    <3> QED  BY <1>5, <3>1, <3>3, UpwardIs DEF TInv
  <2>10. \A s \in Live(lesson) : /\ OwesLesson(p, s)' /\ OwesLevel(p, lesson[s].level)'
                                 /\ OwesGrade(p, level[lesson[s].level].grade)'
    <3> SUFFICES ASSUME NEW s \in Live(lesson)
                 PROVE  /\ OwesLesson(p, s)' /\ OwesLevel(p, lesson[s].level)'
                        /\ OwesGrade(p, level[lesson[s].level].grade)'
      OBVIOUS
    <3>1. PICK b, l, g : b = At("refresh", s) /\ l = lesson[s].level /\ g = level[l].grade  OBVIOUS
    <3>2. b \in ToSet(todo'[p]) /\ b.at = "refresh" /\ b.of = s  BY <2>5, <2>6, <2>8, <3>1
    <3>3. LessonOf(b) = s /\ b.at \in ForLesson  BY <3>2 DEF LessonOf, ForLesson
    <3>4. OwesLesson(p, s)'  BY <3>2, <3>3 DEF OwesLesson
    <3>5. lesson'[b.of].level = l  BY <1>3, <3>1, <3>2
    <3>6. OwesLevel(p, l)'  BY <3>2, <3>5 DEF OwesLevel
    <3>7. l \in There(level)' /\ level'[l].grade = g
      BY <1>3, <1>5, <1>6, <3>1 DEF There
    <3>8. OwesGrade(p, g)'  BY <3>6, <3>7 DEF OwesGrade
    <3>9. lesson'[s].level = l /\ level'[lesson'[s].level].grade = g  BY <1>3, <3>1
    <3>10. OwesLevel(p, lesson[s].level)'  BY <1>3, <3>6, <3>9
    <3>11. OwesGrade(p, level[lesson[s].level].grade)'  BY <1>3, <3>8, <3>9
    <3> QED  BY <3>4, <3>10, <3>11
  <2>11. \A x \in Counted(p)' : \/ x \in Lessons /\ OwesLesson(p, x)'
                                \/ x \in Levels /\ OwesLevel(p, x)'
                                \/ x \in Grades /\ OwesGrade(p, x)'
    <3> SUFFICES ASSUME NEW x \in Counted(p)'
                 PROVE  \/ x \in Lessons /\ OwesLesson(p, x)'
                        \/ x \in Levels /\ OwesLevel(p, x)'
                        \/ x \in Grades /\ OwesGrade(p, x)'
      OBVIOUS
    <3>1. CASE x \in Live(lesson)  BY <1>5, <1>6, <2>10, <3>1
    <3>2. ASSUME NEW s \in Live(lesson), x = lesson[s].level
          PROVE  x \in Levels /\ OwesLevel(p, x)'
      <4>1. x \in Levels  BY <1>5, <1>6, <3>2
      <4>2. OwesLevel(p, lesson[s].level)' /\ x = lesson'[s].level  BY <1>3, <2>10, <3>2
      <4> QED  BY <4>1, <4>2
    <3>3. ASSUME NEW s \in Live(lesson), x = level[lesson[s].level].grade
          PROVE  x \in Grades /\ OwesGrade(p, x)'
      <4>1. x \in Grades  BY <1>5, <1>6, <3>3
      <4>2. OwesGrade(p, level[lesson[s].level].grade)' /\ x = level'[lesson'[s].level].grade
        BY <1>3, <2>10, <3>3
      <4> QED  BY <4>1, <4>2
    <3> QED  BY <2>9, <3>1, <3>2, <3>3
  <2> QED  BY <1>8, <2>1, <2>2, <2>4, <2>7, <2>11
<1>10. CASE ask[p].do = "allLevels"
  <2>1. PICK rows \in SetToSeqs(Live(level)) :
          Continue(p, [n \in DOMAIN rows |-> At("worth", <<rows[n], level[rows[n]]>>)], mem[p])
    BY <1>10 DEF Scan
  <2>2. PICK steps : steps = [n \in DOMAIN rows |-> At("worth", <<rows[n], level[rows[n]]>>)]  OBVIOUS
  <2>3. /\ Cardinality(Live(level)) \in Nat /\ DOMAIN rows = 1 .. Cardinality(Live(level))
        /\ { rows[n] : n \in DOMAIN rows } = Live(level)
    BY <1>5, AllListed
  <2>4. IsSeq(steps)  BY <2>2, <2>3, Literal
  <2>5. ToSet(steps) = { At("worth", <<l, level[l]>>) : l \in Live(level) }
    <3>1. ToSet(steps) = { At("worth", <<rows[n], level[rows[n]]>>) : n \in DOMAIN rows }
      BY <2>2 DEF ToSet
    <3> QED  BY <2>3, <3>1
  <2>6. \A l, r : LET b == At("worth", <<l, r>>)
                  IN  b.at = "worth" /\ b.of[1] = l /\ b.of[2] = r
    BY DEF At
  <2>7. \A b \in ToSet(steps) : b.at \in {"refresh", "worth"} /\ Ahead(p, b)'
    <3>1. ASSUME NEW b \in ToSet(steps) PROVE b.at = "worth" /\ Ahead(p, b)'
      <4>1. PICK l \in Live(level) : b = At("worth", <<l, level[l]>>)  BY <2>5
      <4>2. b.at = "worth" /\ b.of[1] = l /\ b.of[2] = level[l]  BY <2>6, <4>1
      <4>3. b.of[2] = level'[b.of[1]]  BY <1>3, <4>2
      <4> QED  BY <4>2, <4>3 DEF Ahead
    <3> QED  BY <3>1
  <2>8. todo'[p] = steps
    <3>1. todo'[p] = steps \o Tail(todo[p])  BY <1>1, <1>2, <2>1, <2>2, Goings
    <3>2. steps \o <<>> = steps  BY <2>4 DEF IsSeq
    <3> QED  BY <1>2, <3>1, <3>2
  <2>9. Counted(p)' = Live(level) \cup { level[l].grade : l \in Live(level) }
    <3>1. Counted(p) = Upward({}, Live(level), {})  BY <1>10 DEF Counted
    <3>2. Kept  BY <1>3 DEF Kept
    <3>3. Counted(p)' = Counted(p)  BY <1>1, <3>2, KeptCounted
    <3> QED  BY <1>5, <3>1, <3>3, UpwardIs
  <2>10. ASSUME NEW l \in Live(level), NEW g, g = level[l].grade
         PROVE  OwesLevel(p, l)' /\ OwesGrade(p, g)'
    <3>1. PICK b : b = At("worth", <<l, level[l]>>)  OBVIOUS
    <3>2. b \in ToSet(todo'[p]) /\ b.at = "worth" /\ b.of[1] = l  BY <2>5, <2>6, <2>8, <3>1
    <3>3. LevelOf(b) = l  BY <3>2 DEF LevelOf
    <3>4. OwesLevel(p, l)'  BY <3>2, <3>3 DEF OwesLevel
    <3>5. l \in There(level)' /\ level'[l].grade = g  BY <1>3, <1>5, <2>10 DEF There
    <3>6. OwesGrade(p, g)'  BY <3>4, <3>5 DEF OwesGrade
    <3> QED  BY <3>4, <3>6
  <2>11. \A x \in Counted(p)' : \/ x \in Lessons /\ OwesLesson(p, x)'
                                \/ x \in Levels /\ OwesLevel(p, x)'
                                \/ x \in Grades /\ OwesGrade(p, x)'
    <3> SUFFICES ASSUME NEW x \in Counted(p)'
                 PROVE  \/ x \in Lessons /\ OwesLesson(p, x)'
                        \/ x \in Levels /\ OwesLevel(p, x)'
                        \/ x \in Grades /\ OwesGrade(p, x)'
      OBVIOUS
    <3>1. CASE x \in Live(level)  BY <1>5, <1>6, <2>10, <3>1
    <3>2. ASSUME NEW l \in Live(level), x = level[l].grade
          PROVE  x \in Grades /\ OwesGrade(p, x)'
      BY <1>5, <1>6, <2>10, <3>2
    <3> QED  BY <2>9, <3>1, <3>2
  <2> QED  BY <1>8, <2>1, <2>2, <2>4, <2>7, <2>11
<1> QED  BY <1>9, <1>10 DEF Scan

(***************************************************************************)
(* A clean request writes its row, and owes all its branch that it counts  *)
(***************************************************************************)

\* The lessons and levels a request names, and those above what it names.
NamedLessons(a) ==
    ({a.lesson} \ {None}) \cup { item[i].lesson : i \in { j \in {a.item} \ {None} : item[j] # None } }
NamedLevels(a) ==
    ({a.level} \ {None})
      \cup { question[x].level : x \in { y \in {a.question} \ {None} : question[y] # None } }
      \cup { lesson[s].level : s \in { t \in NamedLessons(a) : lesson[t] # None } }

\* The rows a request names, spelled out.
LEMMA NamedIs ==
    ASSUME NEW a, a.do \notin Bulk
    PROVE  Named(a) = NamedLessons(a) \cup NamedLevels(a) \cup ({a.grade} \ {None})
                        \cup { level[l].grade : l \in { m \in NamedLevels(a) : level[m] # None } }
<1> DEFINE ss == NamedLessons(a)
           qs == { question[x].level : x \in { y \in {a.question} \ {None} : question[y] # None } }
           ls == ({a.level} \ {None}) \cup qs
<1>1. Named(a) = Upward(ss, ls, {a.grade} \ {None})  BY DEF Named, NamedLessons
<1>2. ls \cup { lesson[s].level : s \in { t \in ss : lesson[t] # None } } = NamedLevels(a)
  BY DEF NamedLevels
<1> HIDE DEF ss, ls
<1>3. Upward(ss, ls, {a.grade} \ {None})
        = ss \cup NamedLevels(a) \cup ({a.grade} \ {None})
            \cup { level[l].grade : l \in { m \in NamedLevels(a) : level[m] # None } }
  BY <1>2 DEF Upward
<1> QED  BY <1>1, <1>3 DEF ss

\* They are lessons, levels and grades.
LEMMA NamedTypes ==
    ASSUME Tabled, Rooted, NEW a \in AskRow
    PROVE  NamedLessons(a) \subseteq Lessons /\ NamedLevels(a) \subseteq Levels
<1>1. /\ \A i \in Items : item[i] # None => item[i].lesson \in Lessons
      /\ \A x \in Questions : question[x] # None => question[x].level \in Levels
      /\ \A s \in Lessons : lesson[s] # None => lesson[s].level \in Levels
  BY DEF Tabled, ItemRow, QuestionRow, LessonRow
<1>2. /\ a.item \in Items \cup {None} /\ a.lesson \in Lessons \cup {None}
      /\ a.level \in Levels \cup {None} /\ a.question \in Questions \cup {None}
  BY DEF AskRow
<1>3. NamedLessons(a) \subseteq Lessons  BY <1>1, <1>2 DEF NamedLessons
<1> QED  BY <1>1, <1>2, <1>3 DEF NamedLevels

\* What is known of a clean request that writes.
LEMMA WritesKnown ==
    ASSUME IInv, TInv, BInv, Cleans, NEW p \in Requests, clean[p], Does(p, "write")
    PROVE  /\ todo[p] # <<>> /\ Head(todo[p]).at = "write" /\ Tail(todo[p]) = <<>>
           /\ ask[p] \in AskRow /\ ask[p] # None /\ mem[p] \in MemRow
           /\ reach[p] = Named(ask[p]) /\ \A w \in unsaved : w.by # p
           /\ ask[p].do \in OfItem \cup OfLesson \cup OfLevel \cup OfQuestion
                => mem[p].row = Target(ask[p]) /\ mem[p].row # None
           /\ RowInHand(ask[p], mem[p].row, There(lesson), There(level))
           /\ MadeNew(p)
<1>1. /\ todo[p] # <<>> /\ Head(todo[p]).at = "write" /\ mem[p] \in MemRow
      /\ ask[p] \in AskRow /\ ask[p] # None
      /\ HoldsAt(ask[p], "write", mem[p], There(lesson), There(level))
  BY HeadStep DEF IInv, TInv
<1>2. Tail(todo[p]) = <<>> /\ \A w \in unsaved : w.by # p
  BY <1>1, HeadShape DEF BInv, Early
<1>3. KnowsRow(p, "write", mem[p])  BY <1>1, HeadKnown DEF Knows
<1>4. RowInHand(ask[p], mem[p].row, There(lesson), There(level))  BY <1>1 DEF HoldsAt
<1>5. ask[p].do \in OfItem \cup OfLesson \cup OfLevel \cup OfQuestion => mem[p].row # None
  <2>1. ask[p].do \in OfItem \cup OfLesson \cup OfLevel \cup OfQuestion
          => mem[p].row \in ItemRow \cup LessonRow \cup LevelRow \cup QuestionRow
    BY <1>4 DEF RowInHand
  <2> QED  BY <2>1, CurriculumTreeAssumed DEF CurriculumTreeAssumption
<1>6. MadeNew(p)  BY DEF BInv, Unmade
<1> QED  BY <1>1, <1>2, <1>3, <1>4, <1>5, <1>6 DEF KnowsRow, Early

\* It goes on to its counting.
LEMMA WriteClean ==
    ASSUME IInv, TInv, TInv', BInv, Cleans, NEW p \in Requests, Acts(p), clean[p], Does(p, "write"),
           UNCHANGED <<unsaved, clean>>, NEW steps, NEW held, Continue(p, steps, held), IsSeq(steps),
           \A b \in ToSet(steps) : b.at \notin {"refresh", "worth"},
           steps # <<>> => \A b : b = steps[1] => Knows(p, b, held)',
           todo'[p] = steps => \A x \in Counted(p)' : Counts(p, x)'
    PROVE  Clean(p)'
<1>1. /\ todo[p] # <<>> /\ Tail(todo[p]) = <<>> /\ \A w \in unsaved : w.by # p
  BY WritesKnown
<1>2. todo'[p] = steps \o Tail(todo[p]) /\ mem'[p] = IF todo'[p] = <<>> THEN NoMem ELSE held
  BY <1>1, Goings
<1>3. todo'[p] = steps
  <2>1. steps \o <<>> = steps  BY DEF IsSeq
  <2> QED  BY <1>1, <1>2, <2>1
<1>4. \A s : NoSaves(p, s)'
  <2>1. \A w \in unsaved' : w.by # p  BY <1>1
  <2> QED  BY <2>1 DEF NoSaves, LessonSaves, ItemSaves
<1>5. \A b \in ToSet(todo'[p]) : Ahead(p, b)'  BY <1>3, <1>4 DEF Ahead
<1>6. ASSUME todo'[p] # <<>> PROVE Knows(p, Head(todo[p]), mem[p])'
  <2>1. PICK b, h : b = Head(todo'[p]) /\ h = mem'[p]  OBVIOUS
  <2>2. b = steps[1] /\ h = held  BY <1>2, <1>3, <1>6, <2>1 DEF IsSeq
  <2>3. Knows(p, b, held)'  BY <1>3, <1>6, <2>2
  <2>4. held = mem'[p]  BY <2>1, <2>2
  <2> QED  BY <2>1, <2>3, <2>4, NextStepKnown DEF NextKnown
<1>7. Owing(p)'  BY <1>3 DEF Owing
<1> QED  BY <1>5, <1>6, <1>7 DEF Clean

\* Where no level is written, who sees to every level it names sees to their grades.
LEMMA OwesNamed ==
    ASSUME TInv, TInv', NEW p \in Requests, ask' = ask, ask[p] \in AskRow, level' = level,
           reach[p] = Named(ask[p]), reach'[p] = reach[p],
           ask[p].do \notin Bulk, ask[p].grade = None,
           NamedLevels(ask[p]) \subseteq There(level),
           \A l \in NamedLevels(ask[p]) : OwesLevel(p, l)',
           ask[p].do \in {"addItem", "dropItem", "editLesson"} =>
              \A s \in NamedLessons(ask[p]) : OwesLesson(p, s)'
    PROVE  \A x \in Counted(p)' : Counts(p, x)'
<1>1. PICK a : a = ask[p]  OBVIOUS
<1>2. NamedLessons(a) \subseteq Lessons /\ NamedLevels(a) \subseteq Levels
  BY <1>1, NamedTypes DEF TInv
<1>3. Lessons \cap Levels = {} /\ (Lessons \cup Levels) \cap Grades = {}
  BY CurriculumTreeAssumed DEF CurriculumTreeAssumption
<1>4. \A l \in There(level) : level[l].grade \in Grades /\ level[l] # None
  BY ThereIs DEF TInv, LevelRow, There
<1>5. reach[p] = NamedLessons(a) \cup NamedLevels(a)
                   \cup { level[l].grade : l \in { m \in NamedLevels(a) : level[m] # None } }
  BY <1>1, NamedIs
<1>6. ASSUME NEW x \in Counted(p)' PROVE Counts(p, x)'
  <2>1. /\ x \in reach[p]
        /\ x \in Lessons => a.do \in {"addItem", "dropItem", "editLesson"}
    <3>1. Counted(p)' = CASE a.do \in {"addItem", "dropItem", "editLesson"} -> reach[p]
            [] a.do \in {"editItem", "orderItem", "reorder"} -> {}
            [] a.do = "switchLevel" -> reach[p] \cap Grades
            [] a.do = "allLessons" -> Upward(Live(lesson), {}, {})'
            [] a.do = "allLevels" -> Upward({}, Live(level), {})'
            [] OTHER -> reach[p] \cap (Levels \cup Grades)
      BY <1>1 DEF Counted
    <3>2. a.do # "allLessons" /\ a.do # "allLevels"  BY <1>1 DEF Bulk
    <3>3. \/ a.do \in {"addItem", "dropItem", "editLesson"} /\ x \in reach[p]
          \/ x \in reach[p] \cap (Levels \cup Grades)
      BY <1>6, <3>1, <3>2
    <3> QED  BY <1>3, <3>3
  <2>2. CASE x \in NamedLessons(a)
    <3>1. x \in Lessons /\ OwesLesson(p, x)'  BY <1>1, <1>2, <2>1, <2>2
    <3> QED  BY <1>3, <3>1 DEF Counts
  <2>3. CASE x \in NamedLevels(a)
    <3>1. x \in Levels /\ OwesLevel(p, x)'  BY <1>1, <1>2, <2>3
    <3> QED  BY <1>3, <3>1 DEF Counts
  <2>4. ASSUME NEW l \in NamedLevels(a), x = level[l].grade PROVE Counts(p, x)'
    <3>1. l \in There(level) /\ OwesLevel(p, l)'  BY <1>1, <2>4
    <3>2. x \in Grades /\ l \in There(level)' /\ level'[l].grade = x  BY <1>4, <2>4, <3>1
    <3>3. OwesGrade(p, x)'  BY <3>1, <3>2 DEF OwesGrade
    <3> QED  BY <1>3, <3>2, <3>3 DEF Counts
  <2> QED  BY <1>5, <2>1, <2>2, <2>3, <2>4
<1> QED  BY <1>6

\* The rows each request names.
LEMMA FieldsNamed ==
    ASSUME Given, NEW p \in Requests, ask[p] # None, NEW a, a = ask[p]
    PROVE  /\ a.item # None <=> a.do \in {"addItem"} \cup OfItem
           /\ a.lesson # None <=> a.do \in {"addItem", "editItem", "addLesson", "reorder"} \cup OfLesson
           /\ a.level # None <=>
                 a.do \in {"addLesson", "editLesson", "addLevel", "addQuestion"} \cup OfLevel
           /\ a.grade # None <=> a.do \in {"addLevel", "editLevel"}
           /\ a.question # None <=> a.do \in {"addQuestion"} \cup OfQuestion
<1>1. \A f \in Fields : a[f] # None <=> f \in Names(a.do)
  BY CurriculumTreeAssumed DEF AsksAssumption, Given
<1>2. /\ a.item # None <=> "item" \in Names(a.do)
      /\ a.lesson # None <=> "lesson" \in Names(a.do)
      /\ a.level # None <=> "level" \in Names(a.do)
      /\ a.grade # None <=> "grade" \in Names(a.do)
      /\ a.question # None <=> "question" \in Names(a.do)
  BY <1>1 DEF Fields
<1>3. "item" \in Names(a.do) <=> a.do \in {"addItem"} \cup OfItem
  BY DEF Names, OfItem
<1>4. "lesson" \in Names(a.do) <=> a.do \in {"addItem", "editItem", "addLesson", "reorder"} \cup OfLesson
  BY DEF Names, OfLesson
<1>5. "level" \in Names(a.do) <=>
         a.do \in {"addLesson", "editLesson", "addLevel", "addQuestion"} \cup OfLevel
  BY DEF Names, OfLevel
<1>6. "grade" \in Names(a.do) <=> a.do \in {"addLevel", "editLevel"}  BY DEF Names
<1>7. "question" \in Names(a.do) <=> a.do \in {"addQuestion"} \cup OfQuestion  BY DEF Names, OfQuestion
<1> QED  BY <1>2, <1>3, <1>4, <1>5, <1>6, <1>7

\* A lesson that is to be read again is counted, and its level and grade with it.
LEMMA RecountOwes ==
    ASSUME NEW p, NEW s, At("lesson", s) \in ToSet(todo'[p])
    PROVE  OwesLesson(p, s)' /\ \A l : l = lesson'[s].level => OwesLevel(p, l)'
<1>1. PICK b : b = At("lesson", s)  OBVIOUS
<1>2. b.at = "lesson" /\ b.of = s /\ b \in ToSet(todo'[p])  BY <1>1 DEF At
<1>3. b.at \in ForLesson /\ LessonOf(b) = s  BY <1>2 DEF ForLesson, LessonOf
<1> QED  BY <1>2, <1>3 DEF OwesLesson, OwesLevel

\* Who is to save a level owes it.
LEMMA ResumOwes ==
    ASSUME NEW p, NEW l, At("saveLevel", l) \in ToSet(todo'[p])
    PROVE  OwesLevel(p, l)'
<1>1. PICK b : b = At("saveLevel", l)  OBVIOUS
<1>2. b.at = "saveLevel" /\ b.of = l /\ b \in ToSet(todo'[p])  BY <1>1 DEF At
<1>3. LevelOf(b) = l  BY <1>2 DEF LevelOf
<1> QED  BY <1>2, <1>3 DEF OwesLevel

\* An item is made or removed: its lesson is counted again.  One that is
\* edited or ordered counts nothing.
LEMMA WriteItemClean ==
    ASSUME Given, IInv, TInv, TInv', BInv, Cleans, NEW p \in Requests, Acts(p), clean[p], WriteItem(p)
    PROVE  Clean(p)'
<1>1. PICK a, held : a = ask[p] /\ held = mem[p]  OBVIOUS
<1>2. /\ Does(p, "write") /\ UNCHANGED <<grade, level, lesson, question, ask, unsaved, clean>>
      /\ \/ a.do = "addItem" /\ item[a.item] = None /\ Continue(p, Recount(a.lesson), held)
         \/ a.do = "dropItem" /\ Continue(p, Recount(held.row.lesson), held)
         \/ a.do \in {"editItem", "orderItem"} /\ Continue(p, <<>>, held)
  BY <1>1 DEF WriteItem
<1>3. /\ a \in AskRow /\ a # None /\ reach[p] = Named(a)
      /\ a.do \in OfItem => held.row = Target(a) /\ held.row # None
      /\ RowInHand(a, held.row, There(lesson), There(level))
  BY <1>1, <1>2, WritesKnown
<1>4. reach'[p] = reach[p]  BY DEF Acts, Grows
<1>5. CASE a.do \in {"editItem", "orderItem"}
  <2>1. Continue(p, <<>>, held)  BY <1>2, <1>5
  <2>2. IsSeq(<<>>) /\ ToSet(<<>>) = {}  BY Elements DEF IsSeq
  <2>3. Counted(p)' = {}  BY <1>1, <1>2, <1>5 DEF Counted
  <2> QED  BY <1>2, <2>1, <2>2, <2>3, WriteClean
<1>6. CASE a.do \in {"addItem", "dropItem"}
  <2>1. PICK s : s = IF a.do = "addItem" THEN a.lesson ELSE held.row.lesson  OBVIOUS
  <2>2. Continue(p, Recount(s), held)  BY <1>2, <1>6, <2>1
  <2>3. NamedLessons(a) = {s} /\ s \in There(lesson)
    <3>1. CASE a.do = "addItem"
      <4>1. a.lesson # None /\ a.item # None  BY <1>1, <1>3, <3>1, FieldsNamed
      <4>2. NamedLessons(a) = {a.lesson}  BY <1>2, <3>1, <4>1 DEF NamedLessons
      <4>3. a.lesson \in There(lesson)  BY <1>1, <1>3, <3>1 DEF TInv, Rooted, Under
      <4> QED  BY <2>1, <3>1, <4>2, <4>3
    <3>2. CASE a.do = "dropItem"
      <4>1. a.lesson = None /\ a.item # None  BY <1>1, <1>3, <3>2, FieldsNamed DEF OfItem, OfLesson
      <4>2. held.row = item[a.item] /\ item[a.item] # None
        BY <1>3, <3>2 DEF OfItem, Target
      <4>3. NamedLessons(a) = {held.row.lesson}  BY <4>1, <4>2 DEF NamedLessons
      <4>4. held.row.lesson \in There(lesson)  BY <1>3, <3>2 DEF RowInHand, OfItem
      <4> QED  BY <2>1, <3>2, <4>3, <4>4
    <3> QED  BY <1>6, <3>1, <3>2
  <2>4. NamedLevels(a) = {lesson[s].level} /\ lesson[s].level \in There(level)
    <3>1. a.level = None /\ a.question = None
      BY <1>1, <1>3, <1>6, FieldsNamed DEF OfLevel, OfQuestion
    <3>2. lesson[s] # None  BY <2>3 DEF There
    <3>3. lesson[s].level \in There(level)  BY <2>3 DEF TInv, Rooted
    <3> QED  BY <2>3, <3>1, <3>2, <3>3 DEF NamedLevels
  <2>5. PICK steps : steps = Recount(s)  OBVIOUS
  <2>6. IsSeq(steps) /\ steps # <<>> /\ steps[1] = At("lesson", s) /\ ToSet(steps) = {At("lesson", s)}
    BY <2>5, ListsInOrder
  <2>7. \A b : b = steps[1] => Knows(p, b, held)'
    <3>1. Open(At("lesson", s))  BY OpenSteps
    <3> QED  BY <2>6, <3>1, OpenKnown
  <2>8. \A b \in ToSet(steps) : b.at \notin {"refresh", "worth"}  BY <2>6 DEF At
  <2>9. ASSUME todo'[p] = steps PROVE \A x \in Counted(p)' : Counts(p, x)'
    <3>1. At("lesson", s) \in ToSet(todo'[p])  BY <2>6, <2>9
    <3>2. OwesLesson(p, s)' /\ \A l : l = lesson[s].level => OwesLevel(p, l)'
      BY <1>2, <3>1, RecountOwes
    <3>3. \A x \in NamedLessons(ask[p]) : OwesLesson(p, x)'  BY <1>1, <2>3, <3>2
    <3>4. \A l \in NamedLevels(ask[p]) : OwesLevel(p, l)'  BY <1>1, <2>4, <3>2
    <3>5. a.grade = None  BY <1>1, <1>3, <1>6, FieldsNamed
    <3>6. a.do \notin Bulk  BY <1>6 DEF Bulk
    <3> QED  BY <1>1, <1>2, <1>3, <1>4, <2>4, <3>3, <3>4, <3>5, <3>6, OwesNamed
  <2>10. Continue(p, steps, held)  BY <2>2, <2>5
  <2> QED  BY <1>2, <2>6, <2>7, <2>8, <2>9, <2>10, WriteClean
<1> QED  BY <1>2, <1>5, <1>6

\* A question is made, removed or switched: its level is summed again.
LEMMA WriteQuestionClean ==
    ASSUME Given, IInv, TInv, TInv', BInv, Cleans, NEW p \in Requests, Acts(p), clean[p],
           WriteQuestion(p)
    PROVE  Clean(p)'
<1>1. PICK a, held : a = ask[p] /\ held = mem[p]  OBVIOUS
<1>2. /\ Does(p, "write") /\ UNCHANGED <<grade, level, lesson, item, ask, unsaved, clean>>
      /\ \/ a.do = "addQuestion" /\ Continue(p, Reload(a.level), held)
         \/ a.do \in OfQuestion /\ Continue(p, Reload(held.row.level), held)
  BY <1>1 DEF WriteQuestion, OfQuestion, ghosts
<1>3. /\ a \in AskRow /\ a # None /\ reach[p] = Named(a)
      /\ a.do \in OfQuestion => held.row = Target(a) /\ held.row # None
      /\ RowInHand(a, held.row, There(lesson), There(level)) /\ MadeNew(p)
  BY <1>1, <1>2, WritesKnown
<1>4. reach'[p] = reach[p]  BY DEF Acts, Grows
<1>5. a.do \in {"addQuestion"} \cup OfQuestion  BY <1>2
<1>6. PICK l : l = IF a.do = "addQuestion" THEN a.level ELSE held.row.level  OBVIOUS
<1>7. Continue(p, Reload(l), held)  BY <1>2, <1>6 DEF OfQuestion
<1>8. NamedLessons(a) = {}
  <2>1. a.item = None /\ a.lesson = None
    BY <1>1, <1>3, <1>5, FieldsNamed DEF OfItem, OfLesson, OfQuestion
  <2> QED  BY <2>1 DEF NamedLessons
<1>9. NamedLevels(a) = {l} /\ l \in There(level)
  <2>1. CASE a.do = "addQuestion"
    <3>1. a.level # None /\ a.question # None  BY <1>1, <1>3, <2>1, FieldsNamed
    <3>2. question[a.question] = None  BY <1>1, <1>2, <1>3, <2>1 DEF MadeNew
    <3>3. a.level \in There(level)  BY <1>1, <1>3, <2>1 DEF TInv, Rooted, Under
    <3> QED  BY <1>6, <1>8, <2>1, <3>1, <3>2, <3>3 DEF NamedLevels
  <2>2. CASE a.do \in OfQuestion
    <3>1. a.level = None /\ a.question # None
      BY <1>1, <1>3, <2>2, FieldsNamed DEF OfQuestion, OfLevel
    <3>2. held.row = question[a.question] /\ question[a.question] # None
      BY <1>3, <2>2 DEF OfQuestion, Target
    <3>3. held.row.level \in There(level)  BY <1>3, <2>2 DEF RowInHand
    <3>4. l = held.row.level  BY <1>6, <2>2 DEF OfQuestion
    <3> QED  BY <1>8, <3>1, <3>2, <3>3, <3>4 DEF NamedLevels
  <2> QED  BY <1>5, <2>1, <2>2
<1>10. PICK steps : steps = Reload(l)  OBVIOUS
<1>11. /\ IsSeq(steps) /\ steps # <<>> /\ steps[1] = At("level", l)
       /\ \A b \in ToSet(steps) : b.at \in {"level", "sum", "quiz", "saveLevel"}
       /\ At("saveLevel", l) \in ToSet(steps)
  BY <1>10, ListsInOrder, StepsIn
<1>12. \A b : b = steps[1] => Knows(p, b, held)'
  <2>1. Open(At("level", l))  BY OpenSteps
  <2> QED  BY <1>11, <2>1, OpenKnown
<1>13. \A b \in ToSet(steps) : b.at \notin {"refresh", "worth"}  BY <1>11
<1>14. ASSUME todo'[p] = steps PROVE \A x \in Counted(p)' : Counts(p, x)'
  <2>1. At("saveLevel", l) \in ToSet(todo'[p])  BY <1>11, <1>14
  <2>2. OwesLevel(p, l)'  BY <2>1, ResumOwes
  <2>3. \A m \in NamedLevels(ask[p]) : OwesLevel(p, m)'  BY <1>1, <1>9, <2>2
  <2>4. a.grade = None  BY <1>1, <1>3, <1>5, FieldsNamed DEF OfQuestion
  <2>5. a.do \notin Bulk /\ a.do \notin {"addItem", "dropItem", "editLesson"}
    BY <1>5 DEF Bulk, OfQuestion
  <2> QED  BY <1>1, <1>2, <1>3, <1>4, <1>9, <2>3, <2>4, <2>5, OwesNamed
<1>15. Continue(p, steps, held)  BY <1>7, <1>10
<1> QED  BY <1>2, <1>11, <1>12, <1>13, <1>14, <1>15, WriteClean

\* A lesson is written: its level is summed again, the one it was under too,
\* and one that is edited is itself counted again.
LEMMA WriteLessonClean ==
    ASSUME Given, IInv, TInv, TInv', BInv, Cleans, NEW p \in Requests, Acts(p), clean[p],
           WriteLesson(p)
    PROVE  Clean(p)'
<1>1. PICK a, held, s : a = ask[p] /\ held = mem[p] /\ s = a.lesson  OBVIOUS
<1>2. /\ Does(p, "write") /\ UNCHANGED <<grade, level, item, question, ask, unsaved, clean>>
      /\ \/ a.do = "addLesson" /\ Continue(p, Reload(a.level), held)
         \/ /\ a.do = "editLesson"
            /\ lesson' = [lesson EXCEPT ![s].level = a.level, ![s].total = Total]
            /\ Continue(p, Recount(s) \o (IF held.row.level # a.level THEN Reload(held.row.level)
                                          ELSE <<>>), held)
         \/ a.do \in {"dropLesson", "switchLesson"} /\ Continue(p, Reload(held.row.level), held)
  BY <1>1 DEF WriteLesson
<1>3. /\ a \in AskRow /\ a # None /\ reach[p] = Named(a)
      /\ a.do \in OfLesson => held.row = Target(a) /\ held.row # None
      /\ RowInHand(a, held.row, There(lesson), There(level)) /\ MadeNew(p)
  BY <1>1, <1>2, WritesKnown
<1>4. reach'[p] = reach[p]  BY DEF Acts, Grows
<1>5. a.do \in {"addLesson"} \cup OfLesson  BY <1>2 DEF OfLesson
<1>6. NamedLessons(a) = {s}
  <2>1. a.item = None /\ a.lesson # None
    BY <1>1, <1>3, <1>5, FieldsNamed DEF OfItem, OfLesson
  <2> QED  BY <1>1, <2>1 DEF NamedLessons
<1>7. a.question = None /\ a.grade = None
  BY <1>1, <1>3, <1>5, FieldsNamed DEF OfLesson, OfQuestion
<1>8. ASSUME a.do \in OfLesson
      PROVE  /\ held.row = lesson[s] /\ s \in There(lesson) /\ lesson[s] # None
             /\ held.row.level \in There(level)
  <2>1. held.row = lesson[s]  BY <1>1, <1>3, <1>8 DEF OfLesson, Target
  <2>2. s \in There(lesson) /\ held.row.level \in There(level)  BY <1>1, <1>3, <1>8 DEF RowInHand
  <2> QED  BY <1>3, <1>8, <2>1, <2>2
<1>9. ASSUME NEW l, Continue(p, Reload(l), held), NamedLevels(a) = {l}, l \in There(level),
             a.do # "editLesson"
      PROVE  Clean(p)'
  <2>1. PICK steps : steps = Reload(l)  OBVIOUS
  <2>2. /\ IsSeq(steps) /\ steps # <<>> /\ steps[1] = At("level", l)
        /\ \A b \in ToSet(steps) : b.at \in {"level", "sum", "quiz", "saveLevel"}
        /\ At("saveLevel", l) \in ToSet(steps)
    BY <2>1, ListsInOrder, StepsIn
  <2>3. \A b : b = steps[1] => Knows(p, b, held)'
    <3>1. Open(At("level", l))  BY OpenSteps
    <3> QED  BY <2>2, <3>1, OpenKnown
  <2>4. \A b \in ToSet(steps) : b.at \notin {"refresh", "worth"}  BY <2>2
  <2>5. ASSUME todo'[p] = steps PROVE \A x \in Counted(p)' : Counts(p, x)'
    <3>1. At("saveLevel", l) \in ToSet(todo'[p])  BY <2>2, <2>5
    <3>2. OwesLevel(p, l)'  BY <3>1, ResumOwes
    <3>3. \A m \in NamedLevels(ask[p]) : OwesLevel(p, m)'  BY <1>1, <1>9, <3>2
    <3>4. a.do \notin Bulk /\ a.do \notin {"addItem", "dropItem", "editLesson"}
      BY <1>5, <1>9 DEF Bulk, OfLesson
    <3>5. NamedLevels(ask[p]) \subseteq There(level)  BY <1>1, <1>9
    <3> QED  BY <1>1, <1>2, <1>3, <1>4, <1>7, <3>3, <3>4, <3>5, OwesNamed
  <2>6. Continue(p, steps, held)  BY <1>9, <2>1
  <2> QED  BY <1>2, <2>2, <2>3, <2>4, <2>5, <2>6, WriteClean
<1>10. CASE a.do = "addLesson"
  <2>1. a.level # None  BY <1>1, <1>3, <1>10, FieldsNamed
  <2>2. lesson[s] = None  BY <1>1, <1>2, <1>3, <1>10 DEF MadeNew
  <2>3. NamedLevels(a) = {a.level}  BY <1>6, <1>7, <2>1, <2>2 DEF NamedLevels
  <2>4. a.level \in There(level)  BY <1>1, <1>3, <1>10 DEF TInv, Rooted, Under
  <2>5. Continue(p, Reload(a.level), held)  BY <1>2, <1>10
  <2> QED  BY <1>9, <1>10, <2>3, <2>4, <2>5
<1>11. CASE a.do \in {"dropLesson", "switchLesson"}
  <2>1. a.level = None  BY <1>1, <1>3, <1>11, FieldsNamed DEF OfLevel
  <2>2. held.row = lesson[s] /\ lesson[s] # None /\ held.row.level \in There(level)
    BY <1>8, <1>11 DEF OfLesson
  <2>3. NamedLevels(a) = {held.row.level}  BY <1>6, <1>7, <2>1, <2>2 DEF NamedLevels
  <2>4. Continue(p, Reload(held.row.level), held)  BY <1>2, <1>11
  <2> QED  BY <1>9, <1>11, <2>2, <2>3, <2>4
<1>12. CASE a.do = "editLesson"
  <2>1. PICK l, m : l = a.level /\ m = held.row.level  OBVIOUS
  <2>2. /\ held.row = lesson[s] /\ lesson[s] # None /\ m \in There(level) /\ s \in There(lesson)
        /\ lesson[s].level = m
    BY <1>8, <1>12, <2>1 DEF OfLesson
  <2>3. l # None  BY <1>1, <1>3, <1>12, <2>1, FieldsNamed DEF OfLesson
  <2>4. NamedLevels(a) = {l, m}
    <3>1. { lesson[x].level : x \in { t \in NamedLessons(a) : lesson[t] # None } } = {m}
      BY <1>6, <2>2
    <3>2. { question[x].level : x \in { y \in {a.question} \ {None} : question[y] # None } } = {}
      BY <1>7
    <3>3. {a.level} \ {None} = {l}  BY <2>1, <2>3
    <3> QED  BY <3>1, <3>2, <3>3 DEF NamedLevels
  <2>5. l \in There(level)
    <3>1. a.level \in There(level)  BY <1>1, <1>3, <1>12 DEF TInv, Rooted, Under
    <3> QED  BY <2>1, <3>1
  <2>6. lesson'[s].level = l
    <3>1. s \in DOMAIN lesson /\ lesson[s] \in LessonRow  BY <2>2, ThereIs DEF There, TInv
    <3>2. lesson' = [lesson EXCEPT ![s].level = l, ![s].total = Total]  BY <1>2, <1>12, <2>1
    <3> QED  BY <3>1, <3>2 DEF LessonRow
  <2>7. PICK more, steps : /\ more = IF m # l THEN Reload(m) ELSE <<>>
                           /\ steps = Recount(s) \o more
    OBVIOUS
  <2>8. Continue(p, steps, held)  BY <1>2, <1>12, <2>1, <2>7
  <2>9. /\ IsSeq(more) /\ (m # l => At("saveLevel", m) \in ToSet(more))
        /\ \A b \in ToSet(more) : b.at \in {"level", "sum", "quiz", "saveLevel"}
    <3>1. CASE m # l
      <4>1. more = Reload(m)  BY <2>7, <3>1
      <4> QED  BY <4>1, ListsInOrder, StepsIn
    <3>2. CASE m = l
      <4>1. more = <<>>  BY <2>7, <3>2
      <4>2. IsSeq(<<>>) /\ ToSet(<<>>) = {}  BY Elements DEF IsSeq
      <4> QED  BY <3>2, <4>1, <4>2
    <3> QED  BY <3>1, <3>2
  <2>10. PICK first : first = Recount(s)  OBVIOUS
  <2>11. /\ IsSeq(first) /\ first # <<>> /\ first[1] = At("lesson", s)
         /\ ToSet(first) = {At("lesson", s)}
    BY <2>10, ListsInOrder
  <2>12. /\ IsSeq(steps) /\ ToSet(steps) = {At("lesson", s)} \cup ToSet(more)
         /\ steps # <<>> /\ steps[1] = At("lesson", s)
    <3>1. IsSeq(first \o more) /\ ToSet(first \o more) = ToSet(first) \cup ToSet(more)
      BY <2>9, <2>11, Elements
    <3>2. (first \o more)[1] = first[1] /\ first \o more # <<>>  BY <2>9, <2>11, HeadOfJoin
    <3> QED  BY <2>7, <2>10, <2>11, <3>1, <3>2
  <2>13. \A b \in ToSet(steps) : b.at \notin {"refresh", "worth"}
    <3>1. At("lesson", s).at = "lesson"  BY DEF At
    <3> QED  BY <2>9, <2>12, <3>1
  <2>14. \A b : b = steps[1] => Knows(p, b, held)'
    <3>1. Open(At("lesson", s))  BY OpenSteps
    <3> QED  BY <2>12, <3>1, OpenKnown
  <2>15. ASSUME todo'[p] = steps PROVE \A x \in Counted(p)' : Counts(p, x)'
    <3>1. At("lesson", s) \in ToSet(todo'[p])  BY <2>12, <2>15
    <3>2. OwesLesson(p, s)' /\ OwesLevel(p, l)'  BY <2>6, <3>1, RecountOwes
    <3>3. OwesLevel(p, m)'
      <4>1. CASE m # l
        <5>1. At("saveLevel", m) \in ToSet(todo'[p])  BY <2>9, <2>12, <2>15, <4>1
        <5> QED  BY <5>1, ResumOwes
      <4>2. CASE m = l  BY <3>2, <4>2
      <4> QED  BY <4>1, <4>2
    <3>4. \A x \in NamedLessons(ask[p]) : OwesLesson(p, x)'  BY <1>1, <1>6, <3>2
    <3>5. \A x \in NamedLevels(ask[p]) : OwesLevel(p, x)'  BY <1>1, <2>4, <3>2, <3>3
    <3>6. a.do \notin Bulk  BY <1>12 DEF Bulk
    <3>7. NamedLevels(ask[p]) \subseteq There(level)  BY <1>1, <2>2, <2>4, <2>5
    <3> QED  BY <1>1, <1>2, <1>3, <1>4, <1>7, <3>4, <3>5, <3>6, <3>7, OwesNamed
  <2> QED  BY <1>2, <2>8, <2>12, <2>13, <2>14, <2>15, WriteClean
<1> QED  BY <1>2, <1>10, <1>11, <1>12

\* A level is written: it is summed with the row as it was read and written,
\* and the grade it was under is counted again too.
LEMMA WriteLevelClean ==
    ASSUME Given, IInv, TInv, TInv', BInv, Cleans, NEW p \in Requests, Acts(p), clean[p],
           WriteLevel(p)
    PROVE  Clean(p)'
<1>1. PICK a, l, old, new : /\ a = ask[p] /\ l = a.level /\ old = mem[p].row
                            /\ new = [grade |-> a.grade, on |-> TRUE, deleted |-> FALSE,
                                      worth |-> a.n, points |-> 0]
  OBVIOUS
<1>2. /\ Does(p, "write") /\ UNCHANGED <<grade, lesson, item, question, ask, unsaved, clean>>
      /\ \/ /\ a.do = "addLevel" /\ level' = [level EXCEPT ![l] = new]
            /\ Continue(p, Resum(l), Hold(p, "level", [new EXCEPT !.points = None]))
         \/ /\ a.do = "editLevel"
            /\ level' = [level EXCEPT ![l].grade = a.grade, ![l].worth = a.n]
            /\ Continue(p, Resum(l) \o (IF old.grade # a.grade THEN Regrade(old.grade) ELSE <<>>),
                        Hold(p, "level", [old EXCEPT !.grade = a.grade, !.worth = a.n]))
         \/ /\ a.do = "dropLevel" /\ level' = [level EXCEPT ![l].deleted = TRUE]
            /\ Continue(p, Resum(l), Hold(p, "level", old))
         \/ /\ a.do = "switchLevel" /\ Continue(p, Regrade(old.grade), mem[p])
  BY <1>1 DEF WriteLevel
<1>3. /\ a \in AskRow /\ a # None /\ reach[p] = Named(a) /\ mem[p] \in MemRow
      /\ a.do \in OfLevel => old = Target(a) /\ old # None
      /\ RowInHand(a, old, There(lesson), There(level)) /\ MadeNew(p)
  BY <1>1, <1>2, WritesKnown
<1>4. reach'[p] = reach[p]  BY DEF Acts, Grows
<1>5. a.do \in {"addLevel"} \cup OfLevel  BY <1>2 DEF OfLevel
<1>6. /\ a.item = None /\ a.lesson = None /\ a.question = None /\ a.level # None
      /\ a.grade # None <=> a.do \in {"addLevel", "editLevel"}
  BY <1>1, <1>3, <1>5, FieldsNamed DEF OfLevel, OfItem, OfLesson, OfQuestion
<1>7. NamedLessons(a) = {} /\ NamedLevels(a) = {l} /\ l \in Levels
  <2>1. NamedLessons(a) = {}  BY <1>6 DEF NamedLessons
  <2>2. l \in Levels  BY <1>1, <1>3, <1>6 DEF AskRow
  <2> QED  BY <1>1, <1>6, <2>1, <2>2 DEF NamedLevels
<1>8. Named(a) = {l} \cup ({a.grade} \ {None}) \cup { level[m].grade : m \in { k \in {l} : level[k] # None } }
  <2>1. a.do \notin Bulk  BY <1>5 DEF Bulk, OfLevel
  <2> QED  BY <1>7, <2>1, NamedIs
<1>9. ASSUME a.do \in OfLevel
      PROVE  old = level[l] /\ level[l] # None /\ old \in LevelRow /\ l \in There(level)
  <2>1. old = level[l]  BY <1>1, <1>3, <1>9 DEF OfLevel, Target
  <2> QED  BY <1>1, <1>3, <1>9, <2>1 DEF RowInHand
<1>10. /\ Lessons \cap Levels = {} /\ (Lessons \cup Levels) \cap Grades = {} /\ None \notin LevelRow
       /\ DOMAIN level = Levels
  BY CurriculumTreeAssumed DEF CurriculumTreeAssumption, TInv, Tabled
<1>11. Counted(p)' \subseteq reach[p] /\ \A x \in Counted(p)' : x \in Levels \cup Grades
  <2>1. Counted(p)' = IF a.do = "switchLevel" THEN reach[p] \cap Grades
                      ELSE reach[p] \cap (Levels \cup Grades)
    <3>1. a.do \in {"addLevel", "editLevel", "dropLevel", "switchLevel"}  BY <1>5 DEF OfLevel
    <3> QED  BY <1>1, <1>2, <1>4, <3>1 DEF Counted
  <2> QED  BY <2>1
<1>12. \A q : OwesGrade(p, q)' <=> \/ At("saveGrade", q) \in ToSet(todo'[p])
                                   \/ \E m \in There(level)' : OwesLevel(p, m)' /\ level'[m].grade = q
  BY DEF OwesGrade
<1>13. CASE a.do = "switchLevel"
  <2>1. PICK g, steps, held : g = old.grade /\ steps = Regrade(g) /\ held = mem[p]  OBVIOUS
  <2>2. Continue(p, steps, held)  BY <1>2, <1>13, <2>1
  <2>3. /\ IsSeq(steps) /\ steps # <<>> /\ steps[1] = At("grade", g)
        /\ \A b \in ToSet(steps) : b.at \in ForGrade
        /\ At("saveGrade", g) \in ToSet(steps)
    <3>1. Regrade(g)[1] = At("grade", g)  BY DEF Regrade
    <3> QED  BY <2>1, <3>1, ListsInOrder, StepsIn
  <2>4. \A b : b = steps[1] => Knows(p, b, held)'
    <3>1. Open(At("grade", g))  BY OpenSteps
    <3> QED  BY <2>3, <3>1, OpenKnown
  <2>5. \A b \in ToSet(steps) : b.at \notin {"refresh", "worth"}  BY <2>3 DEF ForGrade
  <2>6. ASSUME todo'[p] = steps PROVE \A x \in Counted(p)' : Counts(p, x)'
    <3> SUFFICES ASSUME NEW x \in Counted(p)' PROVE Counts(p, x)'
      OBVIOUS
    <3>1. x \in Grades /\ x \in Named(a)
      BY <1>1, <1>2, <1>3, <1>4, <1>13 DEF Counted
    <3>2. x = g
      <4>1. a.grade = None /\ old = level[l]  BY <1>6, <1>9, <1>13 DEF OfLevel
      <4> QED  BY <1>7, <1>8, <1>10, <2>1, <3>1, <4>1
    <3>3. OwesGrade(p, x)'  BY <1>12, <2>3, <2>6, <3>2
    <3> QED  BY <1>10, <3>1, <3>3 DEF Counts
  <2> QED  BY <1>2, <2>2, <2>3, <2>4, <2>5, <2>6, WriteClean
<1>14. ASSUME NEW steps, NEW held, Continue(p, steps, held), IsSeq(steps), steps # <<>>,
              steps[1] = At("sum", l), At("saveLevel", l) \in ToSet(steps),
              \A b \in ToSet(steps) : b.at \notin {"refresh", "worth"},
              level'[l] \in LevelRow, held.level.grade = level'[l].grade,
              held.level.worth = level'[l].worth, held.level.points \in {level'[l].points, None},
              \A x \in Named(a) : x = l \/ x = level'[l].grade \/ At("saveGrade", x) \in ToSet(steps)
       PROVE  Clean(p)'
  <2>1. \A b : b = steps[1] => Knows(p, b, held)'
    <3> SUFFICES ASSUME NEW b, b = steps[1] PROVE Knows(p, b, held)'
      OBVIOUS
    <3>1. b.at = "sum" /\ b.of = l  BY <1>14 DEF At
    <3>2. KnowsLevel(b.at, b.of, held)'  BY <1>14, <3>1 DEF KnowsLevel
    <3> QED  BY <3>1, <3>2 DEF Knows, KnowsRow, KnowsLesson, KnowsGrade, Early
  <2>2. ASSUME todo'[p] = steps PROVE \A x \in Counted(p)' : Counts(p, x)'
    <3> SUFFICES ASSUME NEW x \in Counted(p)' PROVE Counts(p, x)'
      OBVIOUS
    <3>1. x \in Named(a) /\ x \in Levels \cup Grades  BY <1>3, <1>11
    <3>2. OwesLevel(p, l)'  BY <1>14, <2>2, ResumOwes
    <3>3. CASE x = l  BY <1>7, <1>10, <3>2, <3>3 DEF Counts
    <3>4. CASE x = level'[l].grade
      <4>1. l \in There(level)'  BY <1>7, <1>10, <1>14 DEF There, TInv, Tabled
      <4>2. OwesGrade(p, x)'  BY <1>12, <3>2, <3>4, <4>1
      <4>3. x \in Grades  BY <1>14, <3>4 DEF LevelRow
      <4> QED  BY <1>10, <4>2, <4>3 DEF Counts
    <3>5. CASE At("saveGrade", x) \in ToSet(steps) /\ x # l
      <4>1. OwesGrade(p, x)'  BY <1>12, <2>2, <3>5
      <4>2. x \in Grades
        <5>1. a.grade # None => a.grade \in Grades  BY <1>3 DEF AskRow
        <5>2. level[l] # None => level[l].grade \in Grades
          <6>1. level[l] # None => level[l] \in LevelRow  BY <1>7 DEF TInv, Tabled
          <6> QED  BY <6>1 DEF LevelRow
        <5> QED  BY <1>8, <3>1, <3>5, <5>1, <5>2
      <4> QED  BY <1>10, <4>1, <4>2 DEF Counts
    <3> QED  BY <1>14, <3>1, <3>3, <3>4, <3>5
  <2> QED  BY <1>2, <1>14, <2>1, <2>2, WriteClean
<1>15. PICK first : first = Resum(l)  OBVIOUS
<1>16. /\ IsSeq(first) /\ first # <<>> /\ first[1] = At("sum", l)
       /\ At("saveLevel", l) \in ToSet(first)
       /\ \A b \in ToSet(first) : b.at \notin {"refresh", "worth"}
  BY <1>15, ListsInOrder, StepsIn
<1>17. CASE a.do = "addLevel"
  <2>1. PICK held : held = Hold(p, "level", [new EXCEPT !.points = None])  OBVIOUS
  <2>2. held.level = [new EXCEPT !.points = None]  BY <1>3, <2>1 DEF Hold, MemRow
  <2>3. level'[l] = new  BY <1>2, <1>7, <1>10, <1>17
  <2>4. new \in LevelRow /\ new.grade = a.grade /\ new.worth = a.n
    <3>1. a.grade \in Grades /\ a.n \in Nat  BY <1>3, <1>6, <1>17 DEF AskRow
    <3> QED  BY <1>1, <3>1 DEF LevelRow
  <2>5. held.level.grade = new.grade /\ held.level.worth = new.worth /\ held.level.points = None
    BY <1>1, <2>2
  <2>6. Continue(p, first, held)  BY <1>2, <1>15, <1>17, <2>1
  <2>7. level[l] = None  BY <1>1, <1>2, <1>3, <1>17 DEF MadeNew
  <2>8. \A x \in Named(a) : x = l \/ x = level'[l].grade
    BY <1>8, <2>3, <2>4, <2>7
  <2> QED  BY <1>14, <1>16, <2>3, <2>4, <2>5, <2>6, <2>8
<1>18. CASE a.do = "dropLevel"
  <2>1. PICK held : held = Hold(p, "level", old)  OBVIOUS
  <2>2. held.level = old  BY <1>3, <2>1 DEF Hold, MemRow
  <2>3. old = level[l] /\ level[l] # None /\ old \in LevelRow  BY <1>9, <1>18 DEF OfLevel
  <2>4. level'[l] = [old EXCEPT !.deleted = TRUE]  BY <1>2, <1>7, <1>10, <1>18, <2>3
  <2>5. /\ level'[l] \in LevelRow /\ level'[l].grade = old.grade /\ level'[l].worth = old.worth
        /\ level'[l].points = old.points
    BY <2>3, <2>4 DEF LevelRow
  <2>6. Continue(p, first, held)  BY <1>2, <1>15, <1>18, <2>1
  <2>7. \A x \in Named(a) : x = l \/ x = level'[l].grade
    BY <1>6, <1>8, <1>18, <2>3, <2>5
  <2> QED  BY <1>14, <1>16, <2>2, <2>5, <2>6, <2>7
<1>19. CASE a.do = "editLevel"
  <2>1. PICK held : held = Hold(p, "level", [old EXCEPT !.grade = a.grade, !.worth = a.n])  OBVIOUS
  <2>2. held.level = [old EXCEPT !.grade = a.grade, !.worth = a.n]
    BY <1>3, <2>1 DEF Hold, MemRow
  <2>3. old = level[l] /\ level[l] # None /\ old \in LevelRow  BY <1>9, <1>19 DEF OfLevel
  <2>4. level'[l] = [old EXCEPT !.grade = a.grade, !.worth = a.n]
    BY <1>2, <1>7, <1>10, <1>19, <2>3
  <2>5. a.grade \in Grades /\ a.n \in Nat  BY <1>3, <1>6, <1>19 DEF AskRow
  <2>6. level'[l] \in LevelRow /\ held.level = level'[l] /\ level'[l].grade = a.grade
    BY <2>2, <2>3, <2>4, <2>5 DEF LevelRow
  <2>7. PICK more, steps : /\ more = IF old.grade # a.grade THEN Regrade(old.grade) ELSE <<>>
                           /\ steps = first \o more
    OBVIOUS
  <2>8. Continue(p, steps, held)  BY <1>2, <1>15, <1>19, <2>1, <2>7
  <2>9. /\ IsSeq(more) /\ (old.grade # a.grade => At("saveGrade", old.grade) \in ToSet(more))
        /\ \A b \in ToSet(more) : b.at \in ForGrade
    <3>1. CASE old.grade # a.grade
      <4>1. more = Regrade(old.grade)  BY <2>7, <3>1
      <4> QED  BY <4>1, ListsInOrder, StepsIn
    <3>2. CASE old.grade = a.grade
      <4>1. more = <<>>  BY <2>7, <3>2
      <4>2. IsSeq(<<>>) /\ ToSet(<<>>) = {}  BY Elements DEF IsSeq
      <4> QED  BY <3>2, <4>1, <4>2
    <3> QED  BY <3>1, <3>2
  <2>10. /\ IsSeq(steps) /\ steps # <<>> /\ steps[1] = At("sum", l)
         /\ ToSet(steps) = ToSet(first) \cup ToSet(more)
    BY <1>16, <2>7, <2>9, Elements, HeadOfJoin
  <2>11. \A b \in ToSet(steps) : b.at \notin {"refresh", "worth"}
    BY <1>16, <2>9, <2>10 DEF ForGrade
  <2>12. \A x \in Named(a) : x = l \/ x = level'[l].grade \/ At("saveGrade", x) \in ToSet(steps)
    <3> SUFFICES ASSUME NEW x \in Named(a), x # l, x # a.grade
                 PROVE  At("saveGrade", x) \in ToSet(steps)
      BY <2>6
    <3>1. x = old.grade  BY <1>8, <2>3
    <3> QED  BY <2>9, <2>10, <3>1
  <2> QED  BY <1>14, <1>16, <2>6, <2>8, <2>10, <2>11, <2>12
<1> QED  BY <1>2, <1>13, <1>17, <1>18, <1>19

(***************************************************************************)
(* A request begins, and nothing is written                                *)
(***************************************************************************)

\* Nothing of a request is changed, and no row: what it counted it has counted.
LEMMA SameClean ==
    ASSUME TInv, TInv', BInv, NEW q \in Requests, UNCHANGED <<tables, ask, unsaved>>,
           todo'[q] = todo[q], mem'[q] = mem[q], status'[q] = status[q], reach'[q] = reach[q],
           clean'[q] => clean[q], Clean(q)
    PROVE  Clean(q)'
<1> SUFFICES ASSUME clean'[q], status[q] # "idle" PROVE Clean(q)'
  BY DEF Clean
<1>1. /\ todo[q] # <<>> => Knows(q, Head(todo[q]), mem[q])
      /\ \A step \in ToSet(todo[q]) : Ahead(q, step)
      /\ Owing(q)
  BY DEF Clean
<1>2. UNCHANGED <<grade, level, lesson, item, question>>  BY DEF tables
<1>3. ASSUME NEW b, NEW held, Knows(q, b, held) PROVE Knows(q, b, held)'
  <2>1. Named(ask[q])' = Named(ask[q]) /\ Target(ask[q])' = Target(ask[q])
    BY <1>2 DEF Named, Upward, Target
  <2>2. KnowsRow(q, b.at, held)'  BY <1>3, <2>1 DEF Knows, KnowsRow
  <2>3. KnowsLesson(q, b.at, b.of, held)'
    <3>1. KnowsLesson(q, b.at, b.of, held)  BY <1>3 DEF Knows
    <3>2. /\ \A s : /\ NoSaves(q, s)' <=> NoSaves(q, s)
                    /\ SharesSent(q, s)' <=> SharesSent(q, s)
                    /\ ItemSaves(q, s)' = ItemSaves(q, s)
          /\ \A s : /\ \A ks : SpreadOver(s, ks)' <=> SpreadOver(s, ks)
                    /\ \A h, ks : HoldsLesson(s, h, ks)' <=> HoldsLesson(s, h, ks)
      BY AllStill
    <3>3. PICK s, ks : s = b.of[1] /\ ks = Before(b.of[2])  OBVIOUS
    <3>4. b.at = "count" => /\ HoldsLesson(s, held, ks)' /\ NoSaves(q, s)'
                            /\ held.lesson.shares = lesson'[s].shares
      BY <1>2, <3>1, <3>2, <3>3 DEF KnowsLesson
    <3>5. b.at = "spread" => /\ HoldsLesson(s, held, KindSet)' /\ SharesSent(q, s)'
                             /\ ItemSaves(q, s)' = {} /\ SpreadOver(s, ks)'
      BY <3>1, <3>2, <3>3 DEF KnowsLesson
    <3>6. b.at = "last" => /\ HoldsLesson(b.of, held, KindSet)' /\ SharesSent(q, b.of)'
                           /\ ItemSaves(q, b.of)' = {} /\ SpreadOver(b.of, KindSet)'
      BY <3>1, <3>2 DEF KnowsLesson
    <3> QED  BY <3>3, <3>4, <3>5, <3>6 DEF KnowsLesson
  <2>4. KnowsLevel(b.at, b.of, held)'
    <3>1. \A l : Totals(l)' = Totals(l) /\ QuizWorth(l)' = QuizWorth(l)  BY AllStill
    <3> QED  BY <1>2, <1>3, <3>1 DEF Knows, KnowsLevel
  <2>5. KnowsGrade(b.at, b.of, held)'
    <3>1. \A g : LevelSum(g)' = LevelSum(g) /\ LiveLevels(g)' = LiveLevels(g)  BY AllStill
    <3> QED  BY <1>2, <1>3, <3>1 DEF Knows, KnowsGrade
  <2> QED  BY <2>2, <2>3, <2>4, <2>5 DEF Knows
<1>4. todo'[q] # <<>> => Knows(q, Head(todo[q]), mem[q])'
  <2> SUFFICES ASSUME todo'[q] # <<>> PROVE Knows(q, Head(todo[q]), mem[q])'
    OBVIOUS
  <2>1. PICK b, held : b = Head(todo[q]) /\ held = mem[q]  OBVIOUS
  <2>2. Knows(q, b, held)'  BY <1>1, <1>3, <2>1
  <2>3. b = Head(todo'[q]) /\ held = mem'[q]  BY <2>1
  <2> QED  BY <2>2, <2>3, NextStepKnown DEF NextKnown
<1>5. \A b \in ToSet(todo'[q]) : Ahead(q, b)'
  <2>1. \A s : NoSaves(q, s)' <=> NoSaves(q, s)  BY AllStill
  <2> QED  BY <1>1, <1>2, <2>1 DEF Ahead
<1>6. Owing(q)'
  <2>1. CASE status[q] \notin {"running", "done"} \/ todo[q] \in Beginnings  BY <2>1 DEF Owing
  <2>2. CASE status[q] \in {"running", "done"} /\ todo[q] \notin Beginnings
    <3>1. PICK h : h = At("check", None)  OBVIOUS
    <3>2. h.at = "check" /\ \A x : h # At("saveGrade", x)  BY <3>1 DEF At
    <3>3. h.at \notin ForLesson /\ \A l : ~SeesTo(h, l)  BY <3>2 DEF ForLesson, SeesTo
    <3>4. /\ Kept /\ \A s : Done(q, s)' <=> Done(q, s)
          /\ \A l : RightLevel(l)' <=> RightLevel(l)
          /\ \A g : RightGrade(g)' <=> RightGrade(g)
      BY AllStill
    <3>5. SeesToAll(q, h)  BY <3>2, <3>3, <3>4 DEF SeesToAll
    <3>6. \A step \in ToSet(todo[q]) : step \in ToSet(todo'[q]) \/ step = h  OBVIOUS
    <3> QED  BY <1>1, <2>2, <3>4, <3>5, <3>6, OwingOn
  <2> QED  BY <2>1, <2>2
<1> QED  BY <1>4, <1>5, <1>6 DEF Clean

\* Who begins is on the branch it names as the tree is now.
LEMMA BeginClean ==
    ASSUME Given, IInv, IInv', TInv, TInv', BInv, Cleans, NEW p \in Requests, Begin(p)
    PROVE  Cleans'
<1>1. PICK a : a = ask[p]  OBVIOUS
<1>2. /\ status[p] = "idle" /\ a # None /\ UNCHANGED <<tables, ask, mem, unsaved>>
      /\ status' = [status EXCEPT ![p] = "running"]
      /\ todo' = [todo EXCEPT ![p] = FirstSteps(a)]
      /\ reach' = [reach EXCEPT ![p] = Named(a)]
      /\ \A q \in Requests \ {p} : clean'[q] => clean[q]
  BY <1>1 DEF Begin
<1>3. DOMAIN status = Requests /\ DOMAIN todo = Requests /\ DOMAIN reach = Requests
  BY DEF TInv, Going, Running, IInv, Todos, BInv, Branches
<1>4. a \in AskRow
  BY <1>1, <1>2, AskedRows DEF Given
<1>5. ASSUME NEW q \in Requests \ {p} PROVE Clean(q)'
  <2>1. todo'[q] = todo[q] /\ mem'[q] = mem[q] /\ status'[q] = status[q] /\ reach'[q] = reach[q]
    BY <1>2, <1>3
  <2>2. Clean(q) /\ (clean'[q] => clean[q])  BY <1>2 DEF Cleans
  <2> QED  BY <1>2, <2>1, <2>2, SameClean
<1>6. CASE a.do = "reorder"
  <2>1. Clean(p)'  BY <1>1, <1>2, <1>6, NextReorderClean DEF OrdersClean
  <2> QED  BY <1>5, <2>1 DEF Cleans
<1>7. CASE a.do # "reorder"
  <2>1. todo'[p] = FirstSteps(a) /\ reach'[p] = Named(a)  BY <1>2, <1>3
  <2>2. FirstSteps(a) \in Beginnings /\ (Head(FirstSteps(a)).at = "write" =>
              a.do \in {"addItem", "addLesson", "addLevel", "addQuestion"})
    <3>1. FirstSteps(a) \in Beginnings  BY <1>7 DEF FirstSteps, Beginnings
    <3> QED  BY <1>4, <3>1, FirstOnes
  <2>3. Owing(p)'  BY <2>1, <2>2 DEF Owing
  <2>4. \A b \in ToSet(todo'[p]) : b.at \in Early \cup {"check", "list"}  BY <1>4, <2>1, FirstOnes
  <2>5. \A b \in ToSet(todo'[p]) : Ahead(p, b)'  BY <2>4 DEF Ahead, Early
  <2>6. Knows(p, Head(todo[p]), mem[p])'
    <3>1. PICK b, held : b = Head(todo'[p]) /\ held = mem'[p]  OBVIOUS
    <3>2. Head(FirstSteps(a)) \in ToSet(FirstSteps(a))  BY <1>4, FirstOnes
    <3>3. b.at \in Early \cup {"check", "list"}  BY <2>1, <2>4, <3>1, <3>2
    <3>4. Named(ask[p])' = Named(ask[p])  BY <1>2 DEF tables, Named, Upward
    <3>5. b.at = "write" => ask'[p].do \notin OfItem \cup OfLesson \cup OfLevel \cup OfQuestion
      BY <1>1, <1>2, <2>1, <2>2, <3>1 DEF OfItem, OfLesson, OfLevel, OfQuestion
    <3>6. KnowsRow(p, b.at, held)'  BY <1>1, <2>1, <3>4, <3>5 DEF KnowsRow
    <3>7. Knows(p, b, held)'
      BY <3>3, <3>6 DEF Knows, KnowsLesson, KnowsLevel, KnowsGrade, Early
    <3> QED  BY <3>1, <3>7, NextStepKnown DEF NextKnown
  <2>7. Clean(p)'  BY <2>3, <2>5, <2>6 DEF Clean
  <2> QED  BY <1>5, <2>7 DEF Cleans
<1> QED  BY <1>6, <1>7

(***************************************************************************)
(* Every step leaves the clean requests clean                              *)
(***************************************************************************)

\* The others stay clean, and who is not clean stays so.
LEMMA ActsClean ==
    ASSUME Given, IInv, TInv, TInv', BInv, BInv', Cleans, NEW p \in Requests, Acts(p),
           clean[p] => Clean(p)'
    PROVE  Cleans'
<1>1. \A q \in Requests \ {p} : Clean(q)'  BY OthersClean
<1>2. Clean(p)'
  <2>1. clean'[p] => clean[p]  BY DEF Acts, OthersStay
  <2> QED  BY <2>1 DEF Clean
<1> QED  BY <1>1, <1>2 DEF Cleans

\* Every step of every request leaves the clean ones clean.
LEMMA NextCleans ==
    Given /\ IInv /\ IInv' /\ TInv /\ TInv' /\ BInv /\ BInv' /\ Cleans /\ [Next]_vars => Cleans'
<1> SUFFICES ASSUME Given, IInv, IInv', TInv, TInv', BInv, BInv', Cleans, [Next]_vars PROVE Cleans'
  OBVIOUS
<1>1. ASSUME NEW p \in Requests, Begin(p) PROVE Cleans'  BY <1>1, BeginClean
<1>2. ASSUME NEW p \in Requests, ReadRow(p) \/ Scan(p) \/ Refresh(p) \/ SetWorth(p) PROVE Cleans'
  <2>1. Acts(p)  BY <1>2, ReadRowOn, ScanOn, RefreshOn, SetWorthOn
  <2>2. clean[p] => Clean(p)'
    BY <1>2, <2>1, ReadRowClean, ScanClean, RefreshClean, SetWorthClean
  <2> QED  BY <2>1, <2>2, ActsClean
<1>3. ASSUME NEW p \in Requests,
             WriteItem(p) \/ WriteLesson(p) \/ WriteLevel(p) \/ WriteQuestion(p)
      PROVE  Cleans'
  <2>1. Acts(p)  BY <1>3, WriteItemOn, WriteLessonOn, WriteLevelOn, WriteQuestionOn
  <2>2. clean[p] => Clean(p)'
    BY <1>3, <2>1, WriteItemClean, WriteLessonClean, WriteLevelClean, WriteQuestionClean
  <2> QED  BY <2>1, <2>2, ActsClean
<1>4. ASSUME NEW p \in Requests, ReadLesson(p) \/ CountKind(p) \/ Spread(p) \/ SpreadRest(p)
      PROVE  Cleans'
  <2>1. Acts(p)  BY <1>4, ReadLessonOn, SendsOn, SpreadOn
  <2>2. clean[p] => Clean(p)'
    BY <1>4, <2>1, ReadLessonClean, CountKindClean, SpreadClean, SpreadRestClean
  <2> QED  BY <2>1, <2>2, ActsClean
<1>5. ASSUME NEW p \in Requests,
             \/ ReadLevel(p) \/ SumLessons(p) \/ CountQuiz(p) \/ SaveLevel(p)
             \/ ReadGrade(p) \/ SumLevels(p) \/ SaveGrade(p)
      PROVE  Cleans'
  <2>1. Acts(p)  BY <1>5, LevelReadsOn, SaveLevelOn, OtherReadsOn, SaveGradeOn
  <2>2. clean[p] => Clean(p)'
    BY <1>5, <2>1, LevelReadsClean, SaveLevelClean, GradeReadsClean, SaveGradeClean
  <2> QED  BY <2>1, <2>2, ActsClean
<1>6. ASSUME NEW p \in Requests, CheckChild(p) \/ ListChildren(p) \/ Place(p) \/ CommitOrder(p)
      PROVE  Cleans'
  <2>1. Acts(p)  BY <1>6, OtherReadsOn, ListChildrenOn, CommitOrderOn
  <2>2. Does(p, "check") \/ Does(p, "list") \/ Does(p, "place") \/ Does(p, "commit")
    BY <1>6 DEF CheckChild, ListChildren, Place, CommitOrder
  <2>3. \E step \in OrderSteps : Does(p, step)  BY <2>2 DEF OrderSteps
  <2>4. ask' = ask  BY <2>1 DEF Acts
  <2>5. Clean(p)'  BY <2>3, <2>4, OrderActsClean
  <2> QED  BY <2>1, <2>5, ActsClean
<1>7. ASSUME NEW p \in Requests, Deadlocked(p) \/ Fail(p) PROVE Cleans'
  <2>1. Acts(p)  BY <1>7, OtherReadsOn
  <2>2. Clean(p)'  BY <1>7, StopsClean
  <2> QED  BY <2>1, <2>2, ActsClean
<1>8. ASSUME NEW w \in unsaved, Land(w) \/ LoseSave(w) PROVE Cleans'
  <2>1. PICK p \in Requests : p = w.by  BY DEF TInv, SavesTyped
  <2>2. Acts(p)  BY <1>8, <2>1, LandOn, LoseSaveOn
  <2>3. clean[p] => Clean(p)'
    <3>1. Land(w) /\ clean[p] => Clean(p)'  BY <2>1, <2>2, LandClean
    <3>2. LoseSave(w) => Clean(p)'  BY <2>1, LoseSaveClean
    <3> QED  BY <1>8, <3>1, <3>2
  <2> QED  BY <2>2, <2>3, ActsClean
<1>9. CASE UNCHANGED vars
  <2>1. UNCHANGED <<tables, ask, unsaved, todo, mem, status, reach, clean>>
    BY <1>9 DEF vars, tables, ghosts
  <2>2. \A q \in Requests : Clean(q)'
    <3> TAKE q \in Requests
    <3>1. Clean(q)  BY DEF Cleans
    <3> QED  BY <2>1, <3>1, SameClean
  <2> QED  BY <2>2 DEF Cleans
<1> QED  BY <1>1, <1>2, <1>3, <1>4, <1>5, <1>6, <1>7, <1>8, <1>9 DEF Next

\* At first nobody has begun.
LEMMA InitCleans == Init => Cleans
<1> SUFFICES ASSUME Init PROVE Cleans  OBVIOUS
<1>1. \A p \in Requests : status[p] = "idle"  BY DEF Init
<1> QED  BY <1>1, IdleClean DEF Cleans

\* A clean request holds the tree as it is, and what it is to count is wrong
\* only as long as it has still to count it.
THEOREM CleanInvariance == Spec => [](Cleans /\ BInv /\ TInv /\ IInv /\ Given)
<1>1. Spec => [](BInv /\ TInv /\ IInv /\ Given)  BY BranchesInvariance
<1>2. Init => Cleans  BY InitCleans
<1>3. (BInv /\ TInv /\ IInv /\ Given) /\ (BInv /\ TInv /\ IInv /\ Given)' /\ Cleans /\ [Next]_vars
        => Cleans'
  BY NextCleans
<1> QED  BY <1>1, <1>2, <1>3, PTL DEF Spec

(***************************************************************************)
(* What is done is right                                                   *)
(***************************************************************************)

\* Products of numbers.
LEMMA Products ==
    /\ \A a, b \in Nat : a * b \in Nat /\ a * 0 = 0 /\ a * (b + 1) = a * b + a
    /\ \A a, b, c, d \in Nat : a * (b + c + d) = a * b + a * c + a * d
OBVIOUS

\* The same for each is as many times that.
LEMMA SameForEach ==
    ASSUME NEW S, IsFiniteSet(S), NEW f, NEW e \in Nat, \A x \in S : f[x] = e
    PROVE  Part(f, S) = e * Cardinality(S)
<1> DEFINE B == { T \in SUBSET S : Part(f, T) # e * Cardinality(T) }
<1> SUFFICES ASSUME B # {} PROVE FALSE  OBVIOUS
<1>1. PICK T \in B : \A U \in B : U \subseteq T => U = T
  <2>1. B \subseteq SUBSET S  OBVIOUS
  <2> HIDE DEF B
  <2> QED  BY <2>1, SmallestSet
<1>2. IsFiniteSet(T)  BY FS_Subset
<1>3. Part(f, T) = IF T = {} THEN 0 ELSE f[OneOf(T)] + Part(f, T \ {OneOf(T)})
  BY <1>2, PartUnfolds
<1>4. T # {}
  <2>1. T = {} => Part(f, T) = e * Cardinality(T)  BY <1>3, FS_EmptySet, Products
  <2> QED  BY <2>1
<1>5. PICK x, R : x = OneOf(T) /\ R = T \ {x}  OBVIOUS
<1>6. x \in T  BY <1>4, <1>5, OneOfIn
<1>7. Part(f, R) = e * Cardinality(R)
  <2>1. R \subseteq T /\ R # T /\ R \in SUBSET S  BY <1>5, <1>6
  <2> QED  BY <1>1, <2>1
<1>8. IsFiniteSet(R) /\ Cardinality(R) \in Nat /\ Cardinality(T) = Cardinality(R) + 1
  <2>1. IsFiniteSet(R) /\ Cardinality(R) = Cardinality(T) - 1
    BY <1>2, <1>5, <1>6, FS_RemoveElement
  <2>2. Cardinality(R) \in Nat /\ Cardinality(T) \in Nat  BY <1>2, <2>1, FS_CardinalityType
  <2> QED  BY <2>1, <2>2
<1>9. f[x] = e  BY <1>6
<1>10. Part(f, T) = e + e * Cardinality(R)  BY <1>3, <1>4, <1>5, <1>7, <1>9
<1>11. e * Cardinality(T) = e * Cardinality(R) + e /\ e * Cardinality(R) \in Nat
  BY <1>8, Products
<1>12. Part(f, T) = e * Cardinality(T)  BY <1>10, <1>11
<1> QED  BY <1>12

\* The same for each but for one, who has so much more.
LEMMA OneHasMore ==
    ASSUME NEW S, IsFiniteSet(S), NEW f, NEW e \in Nat, NEW o \in Nat, NEW i \in S,
           \A x \in S \ {i} : f[x] = e, f[i] = e + o
    PROVE  Part(f, S) = e * Cardinality(S) + o
<1>1. PICK R : R = S \ {i}  OBVIOUS
<1>2. IsFiniteSet(R) /\ Cardinality(R) \in Nat /\ Cardinality(S) = Cardinality(R) + 1
  <2>1. IsFiniteSet(R) /\ Cardinality(R) = Cardinality(S) - 1  BY <1>1, FS_RemoveElement
  <2>2. Cardinality(R) \in Nat /\ Cardinality(S) \in Nat  BY <2>1, FS_CardinalityType
  <2> QED  BY <2>1, <2>2
<1>3. Part(f, R) = e * Cardinality(R)  BY <1>1, <1>2, SameForEach
<1>4. \A x \in S : f[x] \in Nat  OBVIOUS
<1>5. Part(f, S) = f[i] + Part(f, R)  BY <1>1, <1>4, PartWithout
<1>6. e * Cardinality(S) = e * Cardinality(R) + e /\ e * Cardinality(R) \in Nat
  BY <1>2, Products
<1> QED  BY <1>3, <1>5, <1>6

\* A lesson's items are of the three kinds.
LEMMA ItemsNum == \A s : Cardinality(ItemsOf(s)) = Num(s)
<1> SUFFICES ASSUME NEW s PROVE Cardinality(ItemsOf(s)) = Num(s)  OBVIOUS
<1> DEFINE A == ItemsOfKind(s, "learning")  B == ItemsOfKind(s, "practice")
           C == ItemsOfKind(s, "quiz")
<1>1. ItemsOf(s) = (A \cup B) \cup C /\ A \cap B = {} /\ (A \cup B) \cap C = {}
  <2>1. \A i \in ItemsOf(s) : KindOf[i] \in KindSet
    BY CurriculumTreeAssumed DEF CurriculumTreeAssumption, ItemsOf
  <2> QED  BY <2>1 DEF ItemsOfKind, KindSet
<1>2. /\ IsFiniteSet(A) /\ IsFiniteSet(B) /\ IsFiniteSet(C)
      /\ Cardinality(A) \in Nat /\ Cardinality(B) \in Nat /\ Cardinality(C) \in Nat
  BY NumsNat, FS_CardinalityType
<1>3. Num(s) = Cardinality(A) + Cardinality(B) + Cardinality(C)  BY DEF Num, NumOf
<1> HIDE DEF A, B, C
<1>4. ASSUME NEW S, IsFiniteSet(S), Cardinality(S) \in Nat, NEW T, IsFiniteSet(T),
             Cardinality(T) \in Nat, S \cap T = {}
      PROVE  IsFiniteSet(S \cup T) /\ Cardinality(S \cup T) = Cardinality(S) + Cardinality(T)
  <2>1. /\ IsFiniteSet(S \cup T)
        /\ Cardinality(S \cup T) = Cardinality(S) + Cardinality(T) - Cardinality(S \cap T)
    BY <1>4, FS_Union
  <2>2. Cardinality(S \cap T) = 0  BY <1>4, FS_EmptySet
  <2> QED  BY <1>4, <2>1, <2>2
<1>5. IsFiniteSet(A \cup B) /\ Cardinality(A \cup B) = Cardinality(A) + Cardinality(B)
  BY <1>1, <1>2, <1>4
<1>6. Cardinality((A \cup B) \cup C) = Cardinality(A \cup B) + Cardinality(C)
  <2>1. Cardinality(A \cup B) \in Nat  BY <1>2, <1>5
  <2> QED  BY <1>1, <1>2, <1>4, <1>5, <2>1
<1> QED  BY <1>1, <1>2, <1>3, <1>5, <1>6

\* What a lesson's items of a kind are worth.
Worth(s, k) == SumFunction([i \in ItemsOfKind(s, k) |-> item[i].points])

\* What each is worth, and what is left, of a lesson with items.
LEMMA EachNat ==
    ASSUME NEW s, lesson[s].total \in Nat, Num(s) # 0
    PROVE  /\ Each(s) \in Nat /\ Over(s) \in Nat
           /\ lesson[s].total = Each(s) * Num(s) + Over(s)
<1>1. PICK n, t, e : n = Num(s) /\ t = lesson[s].total /\ e = Each(s)  OBVIOUS
<1>2. n \in Nat \ {0} /\ t \in Nat  BY <1>1, NumsNat
<1>3. e = t \div n  BY <1>1, <1>2 DEF Each
<1>4. e \in Nat /\ e * n <= t /\ e * n \in Nat  BY <1>2, <1>3, Divided
<1>5. Over(s) = t - e * n  BY <1>1 DEF Over
<1> QED  BY <1>1, <1>2, <1>4, <1>5

\* When its saves have landed a lesson's items have what they are to have.
LEMMA DoneWorth ==
    ASSUME NEW p, NEW s, lesson[s].total \in Nat, Num(s) # 0, PointsSent(p, s), ItemSaves(p, s) = {},
           NEW k \in KindSet
    PROVE  Worth(s, k) = Each(s) * NumOf(s, k) + (IF k = OverKind(s) THEN Over(s) ELSE 0)
<1>1. PICK S, f : S = ItemsOfKind(s, k) /\ f = [i \in ItemsOfKind(s, k) |-> item[i].points]
  OBVIOUS
<1>2. DOMAIN f = S /\ \A i \in S : f[i] = item[i].points /\ i \in ItemsOf(s) /\ KindOf[i] = k
  BY <1>1 DEF ItemsOfKind
<1>3. Worth(s, k) = Part(f, S)  BY <1>1, <1>2 DEF Worth, SumFunction, Part
<1>4. IsFiniteSet(S) /\ Cardinality(S) = NumOf(s, k) /\ NumOf(s, k) \in Nat
  BY <1>1, NumsNat DEF NumOf
<1>5. Each(s) \in Nat /\ Over(s) \in Nat  BY EachNat
<1>6. Each(s) * NumOf(s, k) \in Nat  BY <1>4, <1>5, Products
<1>7. CASE Over(s) = 0 /\ SpreadOver(s, KindSet)
  <2>1. \A i \in S : f[i] = Each(s)  BY <1>2, <1>7 DEF SpreadOver
  <2>2. Part(f, S) = Each(s) * NumOf(s, k)  BY <1>4, <1>5, <2>1, SameForEach
  <2> QED  BY <1>3, <1>6, <1>7, <2>2
<1>8. CASE \E i \in ItemsOfKind(s, OverKind(s)) :
              /\ \A j \in ItemsOf(s) \ {i} : item[j].points = Each(s)
              /\ item[i].points = Each(s) + Over(s)
  <2>1. PICK i \in ItemsOfKind(s, OverKind(s)) :
           /\ \A j \in ItemsOf(s) \ {i} : item[j].points = Each(s)
           /\ item[i].points = Each(s) + Over(s)
    BY <1>8
  <2>2. CASE k = OverKind(s)
    <3>1. i \in S /\ f[i] = Each(s) + Over(s) /\ \A x \in S \ {i} : f[x] = Each(s)
      BY <1>1, <1>2, <2>1, <2>2
    <3>2. Part(f, S) = Each(s) * NumOf(s, k) + Over(s)  BY <1>4, <1>5, <3>1, OneHasMore
    <3> QED  BY <1>3, <2>2, <3>2
  <2>3. CASE k # OverKind(s)
    <3>1. KindOf[i] = OverKind(s)  BY <2>1 DEF ItemsOfKind
    <3>2. \A x \in S : f[x] = Each(s)  BY <1>2, <2>1, <2>3, <3>1
    <3>3. Part(f, S) = Each(s) * NumOf(s, k)  BY <1>4, <1>5, <3>2, SameForEach
    <3> QED  BY <1>3, <1>6, <2>3, <3>3
  <2> QED  BY <2>2, <2>3
<1> QED  BY <1>7, <1>8 DEF PointsSent

\* A lesson that is done, its saves landed, is worth its items.
LEMMA DoneIsRight ==
    ASSUME TInv, NEW p, NEW s, Done(p, s), LessonSaves(p, s) = {}, ItemSaves(p, s) = {}
    PROVE  RightLesson(s)
<1>1. \A k \in KindSet : NumOf(s, k) \in Nat  BY NumsNat
<1>2. RightLesson(s) <=>
         /\ ItemsOf(s) # {} => SumFunction([k \in KindSet |-> Worth(s, k)]) = lesson[s].total
         /\ \A k \in KindSet :
               Worth(s, k) \in {lesson[s].shares[k],
                                lesson[s].shares[k]
                                  + (lesson[s].total - lesson[s].shares["brick"] * Cardinality(ItemsOf(s)))}
  BY DEF RightLesson, Worth
<1>3. \A c \in Columns : \/ lesson[s].shares[c] = SharesOf(s)[c]
                         \/ /\ c = OverKind(s) /\ Num(s) # 0
                            /\ lesson[s].shares[c] = SharesOf(s)[c] + Over(s)
  BY DEF Done, SharesSent
<1>4. /\ SharesOf(s)["brick"] = Each(s)
      /\ \A k \in KindSet : SharesOf(s)[k] = Each(s) * NumOf(s, k)
      /\ "brick" \in Columns /\ "brick" \notin KindSet /\ KindSet \subseteq Columns
  BY DEF SharesOf, Columns, KindSet
<1>5. CASE Num(s) = 0
  <2>1. ItemsOf(s) = {}  BY <1>5, ItemsNum, NumsNat, FS_EmptySet
  <2>2. ASSUME NEW k \in KindSet PROVE Worth(s, k) = lesson[s].shares[k]
    <3>1. ItemsOfKind(s, k) = {}  BY <2>1 DEF ItemsOfKind
    <3>2. NumOf(s, k) = 0  BY <3>1, FS_EmptySet DEF NumOf
    <3>3. Each(s) = 0  BY <1>5 DEF Each
    <3>4. lesson[s].shares[k] = 0  BY <1>3, <1>4, <1>5, <3>2, <3>3
    <3>5. PICK f : f = [i \in ItemsOfKind(s, k) |-> item[i].points]  OBVIOUS
    <3>6. DOMAIN f = {}  BY <3>1, <3>5
    <3>7. Worth(s, k) = Part(f, {})  BY <3>5, <3>6 DEF Worth, SumFunction, Part
    <3> QED  BY <3>4, <3>7, FS_EmptySet, PartUnfolds
  <2> QED  BY <1>2, <2>1, <2>2
<1>6. CASE Num(s) # 0
  <2>1. lesson[s].total \in Nat
    <3>1. ItemsOf(s) # {}  BY <1>6, ItemsNum, FS_EmptySet
    <3>2. PICK i \in Items : item[i] # None /\ item[i].lesson = s  BY <3>1 DEF ItemsOf
    <3>3. i \in There(item)  BY <3>2 DEF There, TInv, Tabled
    <3>4. s \in There(lesson)  BY <3>2, <3>3 DEF TInv, Rooted
    <3> QED  BY <3>4, ThereIs DEF TInv, LessonRow
  <2>2. /\ Each(s) \in Nat /\ Over(s) \in Nat
        /\ lesson[s].total = Each(s) * Num(s) + Over(s)
    BY <1>6, <2>1, EachNat
  <2>3. \A k \in KindSet :
           Worth(s, k) = Each(s) * NumOf(s, k) + (IF k = OverKind(s) THEN Over(s) ELSE 0)
    BY <1>6, <2>1, DoneWorth DEF Done
  <2>4. \A k \in KindSet : Each(s) * NumOf(s, k) \in Nat  BY <1>1, <2>2, Products
  <2>5. \A k \in KindSet : Worth(s, k) \in Nat  BY <2>2, <2>3, <2>4
  <2>6. OverKind(s) \in KindSet  BY OverKindHas
  <2>7. SumFunction([k \in KindSet |-> Worth(s, k)]) = lesson[s].total
    <3>1. PICK f : f = [k \in KindSet |-> Worth(s, k)]  OBVIOUS
    <3>2. f \in [KindSet -> Nat]  BY <2>5, <3>1
    <3>3. SumFunction(f) = f["learning"] + f["practice"] + f["quiz"]  BY <3>2, ThreeKinds
    <3>4. PICK e, o, a, b, c : /\ e = Each(s) /\ o = Over(s)
                               /\ a = NumOf(s, "learning") /\ b = NumOf(s, "practice")
                               /\ c = NumOf(s, "quiz")
      OBVIOUS
    <3>5. e \in Nat /\ o \in Nat /\ a \in Nat /\ b \in Nat /\ c \in Nat
      BY <1>1, <2>2, <3>4 DEF KindSet
    <3>6. Num(s) = a + b + c  BY <3>4 DEF Num
    <3>7. /\ f["learning"] = e * a + (IF "learning" = OverKind(s) THEN o ELSE 0)
          /\ f["practice"] = e * b + (IF "practice" = OverKind(s) THEN o ELSE 0)
          /\ f["quiz"] = e * c + (IF "quiz" = OverKind(s) THEN o ELSE 0)
      BY <2>3, <3>1, <3>4 DEF KindSet
    <3>8. e * a \in Nat /\ e * b \in Nat /\ e * c \in Nat  BY <3>5, Products
    <3>9. f["learning"] + f["practice"] + f["quiz"] = e * a + e * b + e * c + o
      BY <2>6, <3>5, <3>7, <3>8 DEF KindSet
    <3>10. e * (a + b + c) = e * a + e * b + e * c  BY <3>5, Products
    <3>11. lesson[s].total = e * (a + b + c) + o  BY <2>2, <3>4, <3>6
    <3> QED  BY <3>1, <3>3, <3>9, <3>10, <3>11
  <2>8. lesson[s].total - lesson[s].shares["brick"] * Cardinality(ItemsOf(s)) = Over(s)
    <3>1. lesson[s].shares["brick"] = Each(s)  BY <1>3, <1>4, <2>6
    <3>2. Cardinality(ItemsOf(s)) = Num(s)  BY ItemsNum
    <3>3. Each(s) * Num(s) \in Nat  BY <2>2, NumsNat, Products
    <3>4. PICK m, o, t : m = Each(s) * Num(s) /\ o = Over(s) /\ t = lesson[s].total  OBVIOUS
    <3>5. t = m + o /\ m \in Nat /\ o \in Nat  BY <2>2, <3>3, <3>4
    <3>6. t - m = o  BY <3>5
    <3> QED  BY <3>1, <3>2, <3>4, <3>6
  <2>9. ASSUME NEW k \in KindSet
        PROVE  Worth(s, k) \in {lesson[s].shares[k], lesson[s].shares[k] + Over(s)}
    <3>1. \/ lesson[s].shares[k] = Each(s) * NumOf(s, k)
          \/ k = OverKind(s) /\ lesson[s].shares[k] = Each(s) * NumOf(s, k) + Over(s)
      BY <1>3, <1>4
    <3>2. PICK m, o : m = Each(s) * NumOf(s, k) /\ o = Over(s)  OBVIOUS
    <3>3. m \in Nat /\ o \in Nat  BY <2>2, <2>4, <3>2
    <3>4. CASE k = OverKind(s)
      <4>1. Worth(s, k) = m + o  BY <2>3, <3>2, <3>4
      <4> QED  BY <3>1, <3>2, <4>1
    <3>5. CASE k # OverKind(s)
      <4>1. Worth(s, k) = m  BY <2>3, <3>2, <3>3, <3>5
      <4> QED  BY <3>1, <3>2, <3>5, <4>1
    <3> QED  BY <3>4, <3>5
  <2> QED  BY <1>2, <2>7, <2>8, <2>9
<1> QED  BY <1>5, <1>6

\* A clean request that has ended owes nothing any more.
LEMMA SettledRight ==
    ASSUME TInv, BInv, Cleans, NEW p \in Requests, status[p] = "done", Settled(p), clean[p],
           NEW x \in Counted(p)
    PROVE  Right(x)
<1>1. todo[p] = <<>> /\ ToSet(todo[p]) = {}  BY Elements DEF Settled
<1>2. todo[p] \notin Beginnings  BY <1>1 DEF Beginnings
<1>3. Counts(p, x)  BY <1>2 DEF Cleans, Clean, Owing
<1>4. x \in Lessons \cup Levels \cup Grades  BY CountedOn DEF Rows
<1>5. Lessons \cap Levels = {} /\ (Lessons \cup Levels) \cap Grades = {}
  BY CurriculumTreeAssumed DEF CurriculumTreeAssumption
<1>6. CASE x \in Grades
  <2>1. ~OwesGrade(p, x)  BY <1>1 DEF OwesGrade, OwesLevel
  <2> QED  BY <1>3, <1>5, <1>6, <2>1 DEF Counts, Right
<1>7. CASE x \in Levels
  <2>1. ~OwesLevel(p, x)  BY <1>1 DEF OwesLevel
  <2> QED  BY <1>3, <1>5, <1>7, <2>1 DEF Counts, Right
<1>8. CASE x \in Lessons
  <2>1. ~OwesLesson(p, x)  BY <1>1 DEF OwesLesson
  <2>2. Done(p, x)  BY <1>3, <1>8, <2>1 DEF Counts
  <2>3. LessonSaves(p, x) = {} /\ ItemSaves(p, x) = {}  BY DEF Settled, LessonSaves, ItemSaves
  <2>4. RightLesson(x)  BY <2>2, <2>3, DoneIsRight
  <2> QED  BY <1>5, <1>8, <2>4 DEF Right
<1> QED  BY <1>4, <1>6, <1>7, <1>8

\* A request that had its branch to itself, and lost no save, leaves right
\* all that it counts again: RightWhenUndisturbed, for any tree and requests.
THEOREM UndisturbedIsRight == Spec => []RightWhenUndisturbed
<1>1. Cleans /\ BInv /\ TInv => RightWhenUndisturbed  BY SettledRight DEF RightWhenUndisturbed
<1> QED  BY <1>1, CleanInvariance, PTL
=============================================================================
