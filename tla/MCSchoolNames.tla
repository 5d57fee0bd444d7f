---------------------------- MODULE MCSchoolNames ----------------------------
(***************************************************************************)
(* SchoolNames for TLC: two schools, one name in two spellings, learners   *)
(* x and y of school 1, and the requests that meet over them.              *)
(***************************************************************************)
EXTENDS SchoolNames, TLC

CONSTANTS A, B, r1, r2, e1, h1, m1, m2, k1, f1, u1, u2, d1

TwoSchools == {A, B}
Spellings == {"lek", "LEK", "toul"}
Normalised == [t \in Spellings |-> IF t = "LEK" THEN "lek" ELSE t]
Named == A :> "lek" @@ B :> "toul"

Placed ==
    [k \in Keys |->
        CASE k \in {Student("x"), Login("x"), Student("y"), Login("y")} -> A
          [] k[1] = "standards" -> A
          [] k[1] = "schoolcontributedata" /\ k[2] # "new" -> A
          [] OTHER -> None]

Renames(s, texts) == {[school |-> s, text |-> t] : t \in texts}
Enrolment(s, x) == <<[given |-> s, keys |-> <<Login(x)>>],
                     [given |-> s, keys |-> <<Student(x)>>]>>
Hiring(text, x) == <<[given |-> text, keys |-> <<Login(x)>>]>>
Move(text, x) == [given |-> text, keys |-> <<Student(x), Login(x)>>]
Class(s, c) == <<[given |-> s, keys |-> <<<<"standards", c>>>>]>>

Empty == [p \in Requests |-> None]

(* A rename against the writers that read its school.                      *)
RenameAndWriters ==
    {r1 :> a @@ m1 :> <<Move("toul", "x"), Move("toul", "y")>>
        @@ e1 :> Enrolment(A, "z") @@ h1 :> Hiring(t, "w") @@ Empty
     : a \in Renames(A, {"LEK", "toul"}), t \in {"lek"}}

(* Two renames and two moves of the same learners, both ways.              *)
RenamesAndMoves ==
    {r1 :> a @@ r2 :> b @@ m1 :> <<Move("toul", "x"), Move("toul", "y")>>
        @@ m2 :> <<Move(t, "y"), Move(t, "x")>> @@ Empty
     : a \in Renames(A, {"toul"}), b \in Renames(B, {"lek"}), t \in {"LEK", "toul"}}

(* Two edits of one school, the second with the name it had.               *)
TwoRenames ==
    {r1 :> a @@ r2 :> b @@ e1 :> Enrolment(A, "z") @@ Empty
     : a \in Renames(A, {"toul"}), b \in Renames(A, {"lek"})}

(* A school that is renamed and deleted while it gains a learner, a class. *)
RenameAndDelete ==
    {r2 :> a @@ d1 :> [school |-> B] @@ e1 :> Enrolment(B, "z") @@ k1 :> Class(B, "old")
        @@ Empty
     : a \in Renames(B, {"lek"})}

(* Fees rows that are made and refreshed around a rename and a deletion.   *)
FeesAndRename ==
    {r1 :> a @@ d1 :> [school |-> B] @@ u1 :> [school |-> A]
        @@ f1 :> [school |-> s, fee |-> "new"] @@ Empty
     : a \in Renames(A, {"LEK"}), s \in {A, B}}

(* Two refreshes of the same fees rows, and a rename.                      *)
TwoRefreshes ==
    {r1 :> a @@ u1 :> [school |-> A] @@ u2 :> [school |-> A] @@ Empty
     : a \in Renames(A, {"LEK"})}

(* An enrolment, and a file that names the new learner.                    *)
EnrolAndMove ==
    {e1 :> Enrolment(A, "z") @@ m1 :> <<Move("toul", "z")>> @@ r1 :> a @@ Empty
     : a \in Renames(A, {"LEK"})}

(* One file that moves a learner away and, in a later line, back.          *)
MovedTwice == {m1 :> <<Move("toul", "x"), Move("lek", "x")>> @@ Empty}

ManyAsks ==
    RenameAndWriters \cup RenamesAndMoves \cup TwoRenames \cup RenameAndDelete
        \cup EnrolAndMove \cup FeesAndRename \cup TwoRefreshes
=============================================================================
