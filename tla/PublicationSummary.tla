-------------------------- MODULE PublicationSummary --------------------------
(***************************************************************************)
(* What a publish tells the editor it does (sharedRows, movedAway and      *)
(* summarise in src/src/business/curriculum-publication.ts), against what  *)
(* it does to the content learners get.                                    *)
(*                                                                         *)
(* Editors move, delete and edit rows; a publish copies the rows of one    *)
(* curriculum, and compares the copy with the curriculum's own latest      *)
(* publication and with those of the others.  Learners get, of every row,  *)
(* the newest copy of the curricula served (PublishedMerge).  A publish is *)
(* one step here: CurriculumPublication has its interleavings.             *)
(***************************************************************************)
EXTENDS Naturals

CONSTANTS
    Curricula, Grades, Levels, Lessons,
    Bank,               \* the questions and documents of the organisation
    Users,              \* the rows that bank rows hang from, through links
    Contents,           \* what a bank row can say
    Grown,              \* the trees to begin with
    MaxEdits,           \* bound: edits, retires and deletes
    MaxPublications,    \* bound: publications of all curricula
    None

Rows == Grades \cup Levels \cup Lessons
Keys == Curricula \cup Rows \cup Bank
Parents(x) ==
    CASE x \in Grades -> Curricula [] x \in Levels -> Grades [] x \in Lessons -> Levels

Trees == { t \in [Rows -> Curricula \cup Rows] : \A x \in Rows : t[x] \in Parents(x) }

ASSUME PublicationSummaryAssumption ==
    /\ Curricula \cap Rows = {} /\ Grades \cap (Levels \cup Lessons) = {}
    /\ Levels \cap Lessons = {} /\ Bank \cap (Curricula \cup Rows) = {}
    /\ Users \subseteq Curricula \cup Rows
    /\ Grown \subseteq Trees
    /\ None \notin Curricula \cup Rows
    /\ MaxEdits \in Nat /\ MaxPublications \in Nat

VARIABLES
    up,         \* what each grade, level and lesson hangs from
    uses,       \* the bank rows a row is linked to
    gone,       \* the rows and curricula that are deleted (isdeleted)
    says,       \* what each bank row says
    latest,     \* the latest publication of each curriculum
    summary,    \* what the last publish answered
    clock,      \* publications made so far; the time of the last
    edits       \* edits made so far

content == <<up, uses, gone, says>>
vars == <<content, latest, summary, clock, edits>>

Nothing == [k \in {} |-> None]
Never == [at |-> 0, status |-> "never", rows |-> Nothing]
NoSummary == [of |-> None, shared |-> {}, movedaway |-> {}]

Init ==
    /\ up \in Grown
    /\ uses \in [Users -> SUBSET Bank]
    /\ gone = {}
    /\ says \in [Bank -> Contents]
    /\ latest = [c \in Curricula |-> Never]
    /\ summary = NoSummary
    /\ clock = 0
    /\ edits = 0

(***************************************************************************)
(* The rows of a curriculum                                                *)
(***************************************************************************)

Under(S) == { x \in Rows : up[x] \in S }

\* A deleted row is read like any other: it says that it is deleted.
TreeOf(c) ==
    LET grades == Under({c})
        levels == Under(grades)
    IN  {c} \cup grades \cup levels \cup Under(levels)

Picked(c) == TreeOf(c) \cup UNION { uses[u] : u \in TreeOf(c) \cap Users }

\* The columns of a row that its hash covers, as far as they are told apart.
Hash(k) ==
    CASE k \in Bank -> <<says[k]>>
      [] k \in Rows -> <<up[k], k \in gone>>
      [] OTHER      -> <<k \in gone>>

Payload(c) == [k \in Picked(c) |-> Hash(k)]

Above(x) == IF x \in Curricula THEN x ELSE up[x]

\* The row and all it hangs from, and the curriculum that is.
Path(x) == {x, Above(x), Above(Above(x)), Above(Above(Above(x)))}

\* The live curriculum a row is in, through live parents only.
Home(x) == IF Path(x) \cap gone # {} THEN None ELSE Above(Above(Above(x)))

(***************************************************************************)
(* The summary                                                             *)
(***************************************************************************)

\* A plausible mistake: a withdrawn publication is compared with like any other.
BaseOfAny(c, status) == latest[c].rows

\* The publication to compare with, when it has that status.
BaseOf(c, status) == IF latest[c].status = status THEN latest[c].rows ELSE Nothing

DiffHashes(now, before) ==
    [added   |-> DOMAIN now \ DOMAIN before,
     removed |-> DOMAIN before \ DOMAIN now,
     changed |-> { k \in DOMAIN now \cap DOMAIN before : now[k] # before[k] }]

Served == { c \in Curricula \ gone : latest[c].status = "published" }

\* The hashes of the other curricula's latest publications, where published.
PublishedHashesOf(c) == [o \in Served \ {c} |-> latest[o].rows]

\* The bank rows a publish of these rows adds or changes, each with another
\* curriculum whose publication holds a different copy.
SharedRows(now, diff, published) ==
    { e \in (Bank \cap (diff.added \cup diff.changed)) \X DOMAIN published :
        /\ e[1] \in DOMAIN published[e[2]]
        /\ published[e[2]][e[1]] # now[e[1]] }

\* A plausible mistake: what the other curriculum carries is not looked at.
CarriesNothing(published, o, x) == FALSE

Carries(published, o, x) == o \in DOMAIN published /\ x \in DOMAIN published[o]

\* Plausible mistakes: curricula that are not published are left out; a row
\* under a deleted parent is not.
MovedAwayToPublished(c, diff, published) ==
    { <<x, Home(x)>> : x \in { r \in Rows \cap diff.removed :
        /\ Home(r) \in DOMAIN published
        /\ r \in Grades \/ up[r] \notin diff.removed
        /\ ~Carries(published, Home(r), r) } }

MovedAwayOrGone(c, diff, published) ==
    { <<x, Home(x)>> : x \in { r \in Rows \cap diff.removed :
        /\ Home(r) # c
        /\ r \in Grades \/ up[r] \notin diff.removed
        /\ ~Carries(published, Home(r), r) } }

\* The roots of what is removed and lives in a curriculum that does not carry it.
MovedAway(c, diff, published) ==
    { <<x, Home(x)>> : x \in { r \in Rows \cap diff.removed :
        /\ Home(r) \notin {c, None}
        /\ r \in Grades \/ up[r] \notin diff.removed
        /\ ~Carries(published, Home(r), r) } }

(***************************************************************************)
(* Publishing                                                              *)
(***************************************************************************)

Summarise(c, now) ==
    LET previous  == BaseOf(c, "published")
        diff      == DiffHashes(now, previous)
        published == PublishedHashesOf(c)
    IN  [of        |-> c,
         shared    |-> SharedRows(now, diff, published),
         movedaway |-> MovedAway(c, diff, published)]

Publish(c) ==
    /\ c \notin gone
    /\ clock < MaxPublications
    /\ clock' = clock + 1
    /\ summary' = Summarise(c, Payload(c))
    /\ latest' = [latest EXCEPT ![c] =
                    [at |-> clock', status |-> "published", rows |-> Payload(c)]]
    /\ UNCHANGED <<content, edits>>

\* withdrawPublications
Withdraw(c) ==
    latest' = [latest EXCEPT ![c].status = IF @ = "published" THEN "withdrawn" ELSE @]

(***************************************************************************)
(* Editing                                                                 *)
(***************************************************************************)

Edit == edits < MaxEdits /\ edits' = edits + 1 /\ UNCHANGED <<summary, clock>>

\* updateGrade, updateLevel, updateLesson: under any parent, a deleted one too.
Move(x, p) ==
    /\ Edit
    /\ x \notin gone
    /\ up' = [up EXCEPT ![x] = p]
    /\ UNCHANGED <<uses, gone, says, latest>>

DeleteRow(x) ==
    /\ Edit
    /\ x \notin gone
    /\ gone' = gone \cup {x}
    /\ UNCHANGED <<up, uses, says, latest>>

\* updatequestion, updatedocument
EditBank(k, text) ==
    /\ Edit
    /\ says' = [says EXCEPT ![k] = text]
    /\ UNCHANGED <<up, uses, gone, latest>>

Link(u, k) ==
    /\ Edit
    /\ k \notin uses[u]
    /\ uses' = [uses EXCEPT ![u] = @ \cup {k}]
    /\ UNCHANGED <<up, gone, says, latest>>

\* A question of a baseline test stays.
Unlink(u, k) ==
    /\ Edit
    /\ u \notin Curricula
    /\ k \in uses[u]
    /\ uses' = [uses EXCEPT ![u] = @ \ {k}]
    /\ UNCHANGED <<up, gone, says, latest>>

\* retireCurriculum
Retire(c) ==
    /\ Edit
    /\ latest[c].status = "published"
    /\ Withdraw(c)
    /\ UNCHANGED content

DeleteCurriculum(c) ==
    /\ Edit
    /\ c \notin gone
    /\ gone' = gone \cup {c}
    /\ Withdraw(c)
    /\ UNCHANGED <<up, uses, says>>

Next ==
    \/ \E c \in Curricula : Publish(c) \/ Retire(c) \/ DeleteCurriculum(c)
    \/ \E x \in Rows : DeleteRow(x) \/ \E p \in Parents(x) \ {up[x]} : Move(x, p)
    \/ \E k \in Bank :
         \/ \E text \in Contents \ {says[k]} : EditBank(k, text)
         \/ \E u \in Users : Link(u, k) \/ Unlink(u, k)

Spec == Init /\ [][Next]_vars

(***************************************************************************)
(* What learners get                                                       *)
(***************************************************************************)

Holders(k) == { c \in Served : k \in DOMAIN latest[c].rows }

Sent(k) == Holders(k) # {}

\* The copy learners get of a row that is sent: the newest.
Got(k) ==
    LET newest == CHOOSE c \in Holders(k) : \A o \in Holders(k) : latest[o].at <= latest[c].at
    IN  latest[newest].rows[k]

\* The live rows this publish of c takes from learners: another curriculum has
\* them now.
Lost(c) == { x \in Rows : Sent(x) /\ ~Sent(x)' /\ Home(x) \notin {c, None} }

Named == { m[1] : m \in summary.movedaway }

(***************************************************************************)
(* Properties                                                              *)
(***************************************************************************)

\* Every variable keeps its type.
TypeOK ==
    /\ up \in Trees
    /\ uses \in [Users -> SUBSET Bank]
    /\ gone \subseteq Curricula \cup Rows
    /\ says \in [Bank -> Contents]
    /\ \A c \in Curricula :
         /\ latest[c].at \in 0 .. clock
         /\ latest[c].status \in {"never", "published", "withdrawn"}
         /\ DOMAIN latest[c].rows \subseteq Keys
    /\ summary.of \in Curricula \cup {None}
    /\ summary.shared \subseteq Bank \X Curricula
    /\ summary.movedaway \subseteq Rows \X Curricula
    /\ clock \in 0 .. MaxPublications
    /\ edits \in 0 .. MaxEdits

\* "A publish of A names the roots of the subtrees it removes that now live in
\* another curriculum whose latest publication does not carry them": a live row
\* that learners lose is named by a row it hangs from, unless the root of what
\* was removed is still sent (it went first, and the row was put under it after).
LossesAreNamed ==
    [][\A c \in Curricula : Publish(c) =>
         \A x \in Lost(c) :
            \/ Path(x) \cap Named' # {}
            \/ \E r \in Path(x) : r \in DOMAIN BaseOf(c, "published") /\ Sent(r)' ]_vars

\* As it is said, without the exception.
EveryLossIsNamed ==
    [][\A c \in Curricula : Publish(c) =>
         \A x \in Lost(c) : Path(x) \cap Named' # {} ]_vars

\* "Such a row is in no served payload until that curriculum is published": a row
\* a publish names is not sent any more, unless a third curriculum, which it
\* passed through, still carries it.
NamedIsLost ==
    [][\A c \in Curricula : Publish(c) =>
         \A m \in summary'.movedaway : Holders(m[1])' \cap {c, m[2]} = {} ]_vars

\* "These are the rows whose new copy reaches that other curriculum's learners
\* too": when a publish changes the copy that the learners of another curriculum
\* get of a bank row, and it is not the copy that curriculum published, the row
\* is listed, unless this curriculum publishes the same copy as the last time.
ReachIsListed ==
    [][\A c \in Curricula : Publish(c) =>
         \A o \in Served \ {c} : \A k \in Bank \cap DOMAIN latest[o].rows :
            \/ k \notin Picked(c)
            \/ Got(k)' \in {Got(k), latest[o].rows[k]}
            \/ c \in Holders(k) /\ latest[c].rows[k] = Got(k)'
            \/ <<k, o>> \in summary'.shared ]_vars
=============================================================================
