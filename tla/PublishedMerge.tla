---------------------------- MODULE PublishedMerge ----------------------------
(***************************************************************************)
(* Merging the published copies of an organisation's curricula into the    *)
(* content learners get (mergePublished in                                 *)
(* src/src/business/published-content.ts, then confine in                  *)
(* organisation-content-export.ts).                                        *)
(*                                                                         *)
(* A publication is a closed copy of one curriculum, but two of them can   *)
(* hold copies of one row, made at different times: a question both draw   *)
(* from the bank, a grade that moved from one to the other.  A row is its  *)
(* key (table and id); a copy of it names the row it hangs from and the    *)
(* rows it refers to.  The loops visit the publications in the order the   *)
(* array has them, which is any.                                           *)
(***************************************************************************)
EXTENDS Naturals

CONSTANTS
    Curricula,      \* the organisation's curricula
    Keys,           \* the rows of the curriculum tables
    Languages,      \* languages of the translations
    Publications,   \* the publications that could be served
    None            \* hangs from no row; not served; no publication

Copy == [ parent : Keys \cup {None}, refs : SUBSET Keys ]

\* What confineCurriculumTables guarantees of a stored publication.
ASSUME PublicationsAssumption ==
    /\ None \notin Keys /\ None \notin Publications
    /\ \A p \in Publications :
         /\ p.id \in Nat /\ p.at \in Nat /\ p.curriculum \in Curricula
         /\ DOMAIN p.rows \subseteq Keys
         /\ \A k \in DOMAIN p.rows :
              /\ p.rows[k] \in Copy
              /\ p.rows[k].parent \in DOMAIN p.rows \cup {None}
              /\ p.rows[k].refs \subseteq DOMAIN p.rows
         /\ p.translations \subseteq (DOMAIN p.rows) \X Languages
    /\ \A p, q \in Publications : p.id = q.id => p.curriculum = q.curriculum

VARIABLES
    sets,      \* the publications to merge, one per curriculum served
    visited,   \* those the winner loop has been over
    winner,    \* the publication each row is taken from, so far
    phase,     \* "visiting", "merged", then "sent" or "refused"
    merged,    \* the copy of each row that is sent
    texts      \* the translations that are sent, with their publication

vars == <<sets, visited, winner, phase, merged, texts>>

Nothing == [k \in {} |-> None]

\* A plausible mistake: a curriculum that is not served is not left out.
InitUnfiltered ==
    /\ \E served \in [Curricula -> Publications \cup {None}] :
         /\ \A c \in Curricula : served[c] # None => served[c].curriculum = c
         /\ sets = { served[c] : c \in Curricula }
    /\ visited = {}
    /\ winner = [k \in Keys |-> None]
    /\ phase = "visiting"
    /\ merged = Nothing
    /\ texts = {}

\* One publication, or none, of each curriculum.
Init ==
    /\ \E served \in [Curricula -> Publications \cup {None}] :
         /\ \A c \in Curricula : served[c] # None => served[c].curriculum = c
         /\ sets = { served[c] : c \in Curricula } \ {None}
    /\ visited = {}
    /\ winner = [k \in Keys |-> None]
    /\ phase = "visiting"
    /\ merged = Nothing
    /\ texts = {}

(***************************************************************************)
(* Plausible mistakes, each a variant of the definition it is named after. *)
(***************************************************************************)

OlderByTimeOnly(p, q) == p.at < q.at

WonWithParent ==
    { k \in Keys : /\ winner[k] # None
                   /\ winner[k].rows[k].parent \in Keys
                        => winner[winner[k].rows[k].parent] = winner[k] }

TextsOfAnyPublication ==
    UNION { { [ key |-> t[1], language |-> t[2], from |-> p ] : t \in p.translations }
            : p \in sets }

\* byAge: later publishedat, then the larger publicationid.
Older(p, q) == p.at < q.at \/ (p.at = q.at /\ p.id < q.id)

\* Does p take row k over from the publication that holds it?
Takes(p, k) == winner[k] = None \/ Older(winner[k], p)

\* One turn of the winner loop.
Visit(p) ==
    /\ phase = "visiting"
    /\ p \in sets \ visited
    /\ winner' = [k \in Keys |-> IF k \in DOMAIN p.rows /\ Takes(p, k) THEN p ELSE winner[k]]
    /\ visited' = visited \cup {p}
    /\ UNCHANGED <<sets, phase, merged, texts>>

Won == { k \in Keys : winner[k] # None }

\* A translation is taken from the publication its row is taken from.
Texts ==
    UNION { { [ key |-> t[1], language |-> t[2], from |-> p ]
              : t \in { u \in p.translations : winner[u[1]] = p } } : p \in sets }

\* The second loop: every row once, the winner's copy.
Emit ==
    /\ phase = "visiting"
    /\ visited = sets
    /\ merged' = [k \in Won |-> winner[k].rows[k]]
    /\ texts' = Texts
    /\ phase' = "merged"
    /\ UNCHANGED <<sets, visited, winner>>

(***************************************************************************)
(* confine                                                                 *)
(***************************************************************************)

\* No row of S hangs from a row outside it.
Rooted(S, rows) == \A k \in S : rows[k].parent \in S \cup {None}

\* The rows left when, parents first, those that hang from none are dropped.
Confined(rows) == UNION { S \in SUBSET DOMAIN rows : Rooted(S, rows) }

Dangling(S, rows) == { k \in S : ~(rows[k].refs \subseteq S) }

Confine ==
    /\ phase = "merged"
    /\ LET kept == Confined(merged)
       IN  /\ merged' = [k \in kept |-> merged[k]]
           /\ texts' = { t \in texts : t.key \in kept }
           /\ phase' = IF Dangling(kept, merged) = {} THEN "sent" ELSE "refused"
    /\ UNCHANGED <<sets, visited, winner>>

Next == (\E p \in Publications : Visit(p)) \/ Emit \/ Confine

Spec == Init /\ [][Next]_vars

(***************************************************************************)
(* Properties                                                              *)
(***************************************************************************)

\* Every variable keeps its type.
TypeOK ==
    /\ sets \subseteq Publications
    /\ visited \subseteq sets
    /\ winner \in [Keys -> Publications \cup {None}]
    /\ phase \in {"visiting", "merged", "sent", "refused"}
    /\ DOMAIN merged \subseteq Keys
    /\ \A k \in DOMAIN merged : merged[k] \in Copy
    /\ \A t \in texts : t.key \in Keys /\ t.language \in Languages /\ t.from \in sets

\* "The copy in the newest publication wins, whole", a tie going to the larger
\* publicationid: so what is sent does not depend on the order the
\* publications were read in.
NewestCopyWins ==
    phase # "visiting" =>
        \A k \in DOMAIN merged : \E p \in sets :
            /\ k \in DOMAIN p.rows /\ merged[k] = p.rows[k] /\ winner[k] = p
            /\ \A q \in sets \ {p} :
                 k \in DOMAIN q.rows => q.at < p.at \/ (q.at = p.at /\ q.id < p.id)

\* A translation is merged with its row and never by itself: all those, and
\* only those, of the publication the row was taken from.
TextsFollowTheirRow ==
    phase # "visiting" =>
        \A p \in sets : \A k \in DOMAIN p.rows : \A l \in Languages :
            [ key |-> k, language |-> l, from |-> p ] \in texts
                <=> winner[k] = p /\ <<k, l>> \in p.translations

\* Copies of different ages fit together: the merge loses no row of any
\* publication, and so confine neither drops a row nor refuses to send, even
\* where a row hangs from a row that another publication won.
ConfineFindsNothing ==
    /\ phase # "refused"
    /\ phase # "visiting" => \A p \in sets : DOMAIN p.rows \subseteq DOMAIN merged
=============================================================================
