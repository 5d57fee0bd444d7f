--------------------------- MODULE MCPublishedMerge ---------------------------
(***************************************************************************)
(* PublishedMerge for TLC: three curricula, each a root row; a grade any   *)
(* of them may hold (it moved), a lesson under the grade, and a question   *)
(* of the bank the lesson may name.  The translatable rows are the grade   *)
(* and the question.                                                       *)
(***************************************************************************)
EXTENDS PublishedMerge

ThreeCurricula == 1 .. 3

SomeRows == {"c1", "c2", "c3", "grade", "lesson", "question"}
Root == <<"c1", "c2", "c3">>

Row(parent, refs) == [ parent |-> parent, refs |-> refs ]

\* The closed copies of curriculum c: each adds to the one before.
CopiesOf(c) ==
    LET root   == [k \in {Root[c]} |-> Row(None, {})]
        graded == [k \in {Root[c], "grade"} |->
                     IF k = "grade" THEN Row(Root[c], {}) ELSE Row(None, {})]
        taught(refs) == [k \in {Root[c], "grade", "lesson"} \cup refs |->
                     CASE k = "grade"  -> Row(Root[c], {})
                       [] k = "lesson" -> Row("grade", refs)
                       [] OTHER        -> Row(None, {})]
    IN  {root, graded, taught({}), taught({"question"})}

\* Each of them, made at either of two times, with any translations.
PublicationsOf(c) ==
    UNION { { [ id |-> c, curriculum |-> c, at |-> at, rows |-> rows, translations |-> words ]
              : words \in SUBSET ((DOMAIN rows \cap {"grade", "question"}) \X {"km"}) }
            : at \in 0 .. 1, rows \in CopiesOf(c) }

SomePublications == UNION { PublicationsOf(c) : c \in ThreeCurricula }
=============================================================================
