--------------------------- MODULE ContentDelivery ---------------------------
(***************************************************************************)
(* Reading the published content of an organisation for its learners       *)
(* (readPublishedSets in src/src/business/published-content.ts), while the *)
(* requests of CurriculumPublication go on.  Both sync routes read this    *)
(* way, and so does the push that follows a publish.                       *)
(*                                                                         *)
(* A read is three queries and no transaction: the history of every        *)
(* curriculum without the payloads, the curricula that are still live, and *)
(* the payloads of the publications the first query found.                 *)
(***************************************************************************)
EXTENDS CurriculumPublication

CONSTANT Readers    \* reads of the published content

ASSUME ReadersAssumption == Readers \cap Requests = {}

VARIABLES
    at,        \* where each read stands, or how it ended
    light,     \* the publication each read found latest, by curriculum
    served,    \* the publication each read serves, by curriculum
    stood      \* history: the store when each read began

readVars == <<at, light, served, stood>>

ReadStates == {"idle", "live", "payloads", "served", "refused", "failed"}

NoRow == [c \in {} |-> None]

DeliveryInit ==
    /\ Init
    /\ at = [d \in Readers |-> "idle"]
    /\ light = [d \in Readers |-> NoRow]
    /\ served = [d \in Readers |-> NoRow]
    /\ stood = [d \in Readers |-> [ publications |-> publications, deleted |-> deleted ]]

(***************************************************************************)
(* Plausible mistakes, each a variant of the definition it is named after. *)
(***************************************************************************)

LatestReadOldest(S) == CHOOSE p \in S : \A q \in S : p.at <= q.at

StillThereUnchecked(d) == DOMAIN light[d]

(***************************************************************************)
(* The three queries                                                       *)
(***************************************************************************)

\* The first row of a curriculum in the history, newest first.
LatestRead(S) == CHOOSE p \in S : \A q \in S : q.at <= p.at

\* The curricula whose latest publication is `published`.
PublishedNow ==
    { c \in Curricula : /\ publications[c] # {}
                        /\ LatestRead(publications[c]).status = "published" }

ReadHistory(d) ==
    /\ at[d] = "idle"
    /\ light' = [light EXCEPT ![d] =
                   [c \in PublishedNow |-> LatestRead(publications[c]).id]]
    /\ at' = [at EXCEPT ![d] = IF PublishedNow = {} THEN "served" ELSE "live"]
    /\ stood' = [stood EXCEPT ![d] =
                   [ publications |-> publications, deleted |-> deleted ]]
    /\ UNCHANGED served

\* The curricula found that have not been deleted.
StillThere(d) == DOMAIN light[d] \ deleted

ReadLive(d) ==
    /\ at[d] = "live"
    /\ light' = [light EXCEPT ![d] = [c \in StillThere(d) |-> light[d][c]]]
    /\ at' = [at EXCEPT ![d] = IF StillThere(d) = {} THEN "served" ELSE "payloads"]
    /\ UNCHANGED <<served, stood>>

\* The publication the first query found for a curriculum, as it is now.
RowNow(d, c) == CHOOSE p \in publications[c] : p.id = light[d][c]

\* A plausible mistake: a payload that is not there is not looked for.
ReadPayloadsUnchecked(d) ==
    /\ at[d] = "payloads"
    /\ served' = [served EXCEPT ![d] = [c \in DOMAIN light[d] |->
                     IF RowNow(d, c).payload THEN RowNow(d, c) ELSE None]]
    /\ at' = [at EXCEPT ![d] = "served"]
    /\ UNCHANGED <<light, stood>>

\* A plausible mistake: what has no payload any more is left out of the answer.
ReadPayloadsSkipping(d) ==
    /\ at[d] = "payloads"
    /\ LET there == { c \in DOMAIN light[d] : RowNow(d, c).payload }
       IN  served' = [served EXCEPT ![d] = [c \in there |-> RowNow(d, c)]]
    /\ at' = [at EXCEPT ![d] = "served"]
    /\ UNCHANGED <<light, stood>>

\* Nothing is served when a publication found has no payload any more.
ReadPayloads(d) ==
    /\ at[d] = "payloads"
    /\ \/ /\ \A c \in DOMAIN light[d] : RowNow(d, c).payload
          /\ served' = [served EXCEPT ![d] = [c \in DOMAIN light[d] |-> RowNow(d, c)]]
          /\ at' = [at EXCEPT ![d] = "served"]
       \/ /\ \E c \in DOMAIN light[d] : ~RowNow(d, c).payload
          /\ at' = [at EXCEPT ![d] = "refused"]
          /\ UNCHANGED served
    /\ UNCHANGED <<light, stood>>

\* A query fails.
FailRead(d) ==
    /\ at[d] \in {"live", "payloads"}
    /\ at' = [at EXCEPT ![d] = "failed"]
    /\ UNCHANGED <<light, served, stood>>

Read(d) == ReadHistory(d) \/ ReadLive(d) \/ ReadPayloads(d) \/ FailRead(d)

DeliveryNext ==
    \/ Next /\ UNCHANGED readVars
    \/ \E d \in Readers : Read(d) /\ UNCHANGED vars

DeliverySpec == DeliveryInit /\ [][DeliveryNext]_<<vars, readVars>>

(***************************************************************************)
(* Properties                                                              *)
(***************************************************************************)

\* Every variable of the reads keeps its type.
ReadersTypeOK ==
    /\ at \in [Readers -> ReadStates]
    /\ \A d \in Readers :
         /\ DOMAIN light[d] \subseteq Curricula
         /\ \A c \in DOMAIN light[d] : light[d][c] \in Requests
         /\ DOMAIN served[d] \subseteq Curricula
         /\ \A c \in DOMAIN served[d] : served[d][c] \in Publication

\* "A publication is served only while its live `curriculums` row exists and is
\* not soft-deleted": no read serves a curriculum that was deleted before it
\* began, even one that publish:initial left `published`.
DeletedIsNotServed ==
    \A d \in Readers : DOMAIN served[d] \cap stood[d].deleted = {}

\* A read carries every act that committed before it began: what was published
\* then is served as it was or newer, unless the curriculum is deleted
\* meanwhile, and a curriculum whose every publication was withdrawn is not.
\* This is what lets a push that is built after an act be the act's push.
CarriesEarlierActs ==
    \A d \in Readers : at[d] = "served" =>
        \A c \in Curricula : LET before == stood[d].publications[c] IN
            /\ \A p \in before : p.status = "published" =>
                  \/ c \in deleted
                  \/ c \in DOMAIN served[d] /\ p.at <= served[d][c].at
            /\ c \in DOMAIN served[d] => \E p \in before : p.status = "published"

\* Retention keeps the payload of the latest two publications, so a read
\* survives a publish that lands between its queries: one is refused only when
\* some curriculum was published at least twice after it began.
OnePublishIsSurvived ==
    \A d \in Readers : at[d] = "refused" =>
        \E c \in Curricula :
            Cardinality(publications[c]) >= Cardinality(stood[d].publications[c]) + 2

\* "All or nothing", as the learners see it: a read that serves a publication
\* of an initial run serves every curriculum that the run found live, but one
\* that is deleted or that stood withdrawn when the read began.  The run
\* commits its rows at once; the read takes them in three queries, under which
\* one of the curricula can be published again and again.
InitialIsServedWhole ==
    \A d \in Readers : \A r \in Initials :
        (\E c \in DOMAIN served[d] : served[d][c].id = r) =>
            \A c \in got[r].live :
                \/ c \in DOMAIN served[d] \cup deleted
                \/ StateOf(stood[d].publications[c]) = "withdrawn"
=============================================================================
