-------------------------- MODULE MCCurriculumTree --------------------------
(***************************************************************************)
(* CurriculumTree for TLC.  Grade g1 has level l1 and its two lessons;     *)
(* grade g2 has level l2, which has none.  Lesson s1 has a learning and    *)
(* two quizzes, s2 one practice and is switched off; s1's total of 5 over  *)
(* its items leaves a remainder of 2.  The ids requests make (n, s3, l3,   *)
(* y) are not rows yet.                                                    *)
(***************************************************************************)
EXTENDS CurriculumTree

CONSTANTS p1, p2, p3

TheGrades == {"g1", "g2"}
TheLevels == {"l1", "l2", "l3"}
TheLessons == {"s1", "s2", "s3"}
TheItems == {"a", "b", "c", "d", "n"}
TheQuestions == {"x", "y"}
TheKinds == [i \in TheItems |-> CASE i = "a" -> "learning" [] i \in {"b", "c"} -> "quiz" [] OTHER -> "practice"]

ALesson(l, on, shares) ==
    [level |-> l, on |-> on, deleted |-> FALSE, total |-> 5, shares |-> shares]
ALevel(g, worth, points) ==
    [grade |-> g, on |-> TRUE, deleted |-> FALSE, worth |-> worth, points |-> points]
AnItem(s, order, points) == [lesson |-> s, order |-> order, points |-> points]

OneTree ==
    [grade |-> [g \in TheGrades |-> IF g = "g1" THEN 8 ELSE 0],
     level |-> [l \in TheLevels |->
        CASE l = "l1" -> ALevel("g1", 3, 8) [] l = "l2" -> ALevel("g2", 3, 0) [] OTHER -> None],
     lesson |-> [s \in TheLessons |->
        CASE s = "s1" -> ALesson("l1", TRUE, [brick |-> 1, learning |-> 1, practice |-> 0, quiz |-> 4])
          [] s = "s2" -> ALesson("l1", FALSE, [brick |-> 5, learning |-> 0, practice |-> 5, quiz |-> 0]) [] OTHER -> None],
     item |-> [i \in TheItems |->
        CASE i = "a" -> AnItem("s1", 1, 1) [] i = "b" -> AnItem("s1", 1, 1)
          [] i = "c" -> AnItem("s1", 2, 3) [] i = "d" -> AnItem("s2", 1, 5) [] OTHER -> None],
     question |-> [x \in TheQuestions |-> IF x = "x" THEN [level |-> "l1", on |-> TRUE] ELSE None]]

TheTrees == {OneTree}

Ask(do, what) ==
    what @@ [do |-> do, item |-> None, lesson |-> None, level |-> None, grade |-> None,
             question |-> None, kind |-> "quiz", list |-> <<>>, on |-> FALSE, n |-> 0]

AddItem == Ask("addItem", [item |-> "n", lesson |-> "s1", n |-> 2])
DropItem == Ask("dropItem", [item |-> "c"])
AddOther == Ask("addItem", [item |-> "n", lesson |-> "s2", n |-> 2])
DropOther == Ask("dropItem", [item |-> "d"])
MoveItem == Ask("editItem", [item |-> "b", lesson |-> "s2", n |-> 10])
PutFirst == Ask("orderItem", [item |-> "c", n |-> 0])
Reorder == Ask("reorder", [lesson |-> "s1", list |-> <<"c", "b">>])
OrderBack == Ask("reorder", [lesson |-> "s1", list |-> <<"b", "c">>])
AddLesson == Ask("addLesson", [lesson |-> "s3", level |-> "l1"])
MoveLesson == Ask("editLesson", [lesson |-> "s1", level |-> "l2"])
DropLesson == Ask("dropLesson", [lesson |-> "s1"])
LessonOff == Ask("switchLesson", [lesson |-> "s1"])
LessonOn == Ask("switchLesson", [lesson |-> "s2", on |-> TRUE])
AddLevel == Ask("addLevel", [level |-> "l3", grade |-> "g1", n |-> 4])
MoveLevel == Ask("editLevel", [level |-> "l1", grade |-> "g2", n |-> 4])
DropLevel == Ask("dropLevel", [level |-> "l1"])
LevelOff == Ask("switchLevel", [level |-> "l1"])
OtherLevelOff == Ask("switchLevel", [level |-> "l2"])
AddQuestion == Ask("addQuestion", [question |-> "y", level |-> "l2"])
DropQuestion == Ask("dropQuestion", [question |-> "x"])
QuestionOff == Ask("switchQuestion", [question |-> "x"])
AllLessons == Ask("allLessons", [on |-> FALSE])
AllLevels == Ask("allLevels", [on |-> FALSE])

Made(first, second, third) == p1 :> first @@ p2 :> second @@ p3 :> third

(* Two requests, one after the other or overlapping.                       *)
Pairs ==
    { Made(AddItem, DropItem, None), Made(AddItem, MoveItem, None),
      Made(AddOther, DropOther, None),
      Made(Reorder, DropItem, None), Made(Reorder, MoveItem, None),
      Made(MoveLesson, LessonOn, None), Made(MoveLesson, MoveLevel, None),
      Made(MoveLesson, DropLesson, None), Made(MoveLesson, AddQuestion, None),
      Made(AddLesson, LessonOff, None), Made(AddLesson, DropLevel, None),
      Made(AddLevel, LevelOff, None), Made(MoveLevel, DropQuestion, None),
      Made(DropLevel, QuestionOff, None), Made(AllLevels, MoveLevel, None),
      Made(AllLessons, DropLesson, None) }

(* Three: two may overlap and spoil the tree before the third mends it; or *)
(* one moves a row that another has read, to where the third is.           *)
Triples ==
    { Made(LessonOff, LessonOn, QuestionOff), Made(Reorder, OrderBack, PutFirst),
      Made(LevelOff, MoveLevel, OtherLevelOff) }

ManyAsks == Pairs \cup Triples
TwoSwitches == { Made(LessonOff, LessonOn, None) }
=============================================================================
