------------------------- MODULE PublishedMergeProofs -------------------------
(***************************************************************************)
(* Proofs about PublishedMerge, for every set of closed publications and   *)
(* every order the winner loop may visit them in.                          *)
(***************************************************************************)
EXTENDS PublishedMerge, TLAPS

\* p wins over q.
Beats(p, q) == q.at < p.at \/ (q.at = p.at /\ q.id < p.id)

\* No two publications to merge have one id.
SetsFacts == sets \subseteq Publications /\ \A p, q \in sets : p.id = q.id => p = q

\* The publication that holds a row beats all those visited that have it.
WinnerFacts ==
    \A k \in Keys :
        /\ winner[k] = None => \A p \in visited : k \notin DOMAIN p.rows
        /\ winner[k] # None =>
             /\ winner[k] \in visited /\ k \in DOMAIN winner[k].rows
             /\ \A q \in visited \ {winner[k]} :
                  k \in DOMAIN q.rows => Beats(winner[k], q)

\* Once the loop is over the rows and texts are the winners', and confine, when
\* it has run, has left them as they were.
EmitFacts ==
    phase # "visiting" =>
        /\ visited = sets
        /\ merged = [k \in Won |-> winner[k].rows[k]]
        /\ texts = Texts
        /\ phase \in {"merged", "sent"}

MInv ==
    /\ visited \subseteq sets
    /\ winner \in [Keys -> Publications \cup {None}]
    /\ phase \in {"visiting", "merged", "sent", "refused"}
    /\ phase = "visiting" => merged = Nothing /\ texts = {}
    /\ SetsFacts /\ WinnerFacts /\ EmitFacts

\* What PublicationsAssumption says of one publication.
LEMMA PublicationFacts ==
    ASSUME NEW p \in Publications
    PROVE  /\ p # None /\ p.at \in Nat /\ p.id \in Nat
           /\ DOMAIN p.rows \subseteq Keys
           /\ \A k \in DOMAIN p.rows :
                /\ p.rows[k] \in Copy
                /\ p.rows[k].parent \in DOMAIN p.rows \cup {None}
                /\ p.rows[k].refs \subseteq DOMAIN p.rows
           /\ p.translations \subseteq (DOMAIN p.rows) \X Languages
BY PublicationsAssumption

\* Older is Beats turned round, and of two publications of different ids one
\* beats the other.
LEMMA OneBeats ==
    ASSUME NEW p \in Publications, NEW q \in Publications, p.id # q.id
    PROVE  /\ Older(p, q) <=> Beats(q, p)
           /\ Beats(p, q) \/ Beats(q, p)
<1>1. p.at \in Nat /\ q.at \in Nat /\ p.id \in Nat /\ q.id \in Nat
  BY PublicationFacts
<1> QED  BY <1>1 DEF Older, Beats

\* Beating is transitive.
LEMMA BeatsIsTransitive ==
    ASSUME NEW p \in Publications, NEW q \in Publications, NEW r \in Publications,
           Beats(p, q), Beats(q, r)
    PROVE  Beats(p, r)
<1>1. /\ p.at \in Nat /\ q.at \in Nat /\ r.at \in Nat
      /\ p.id \in Nat /\ q.id \in Nat /\ r.id \in Nat
  BY PublicationFacts
<1> QED  BY <1>1 DEF Beats

\* The merge of closed publications is closed: the row a winning copy hangs
\* from, and those it refers to, are in the winning publication, so they have
\* a winner too.
LEMMA MergedIsClosed ==
    ASSUME MInv, NEW k \in Won
    PROVE  /\ winner[k].rows[k].parent \in Won \cup {None}
           /\ winner[k].rows[k].refs \subseteq Won
<1> DEFINE p == winner[k]
<1>1. p \in visited /\ p \in Publications /\ k \in DOMAIN p.rows
  BY DEF MInv, WinnerFacts, SetsFacts, Won
<1>2. DOMAIN p.rows \subseteq Won
  BY <1>1, PublicationFacts DEF MInv, WinnerFacts, Won
<1> QED  BY <1>1, <1>2, PublicationFacts

\* The invariant holds at first.
LEMMA InitMInv == Init => MInv
<1> SUFFICES ASSUME Init PROVE MInv  OBVIOUS
<1>1. PICK served \in [Curricula -> Publications \cup {None}] :
        /\ \A c \in Curricula : served[c] # None => served[c].curriculum = c
        /\ sets = { served[c] : c \in Curricula } \ {None}
  BY DEF Init
<1>2. SetsFacts
  <2>1. sets \subseteq Publications  BY <1>1
  <2>2. ASSUME NEW p \in sets, NEW q \in sets, p.id = q.id PROVE p = q
    <3>1. PICK c \in Curricula : p = served[c] /\ p # None  BY <1>1
    <3>2. PICK d \in Curricula : q = served[d] /\ q # None  BY <1>1
    <3>3. p.curriculum = q.curriculum  BY <2>1, <2>2, PublicationsAssumption
    <3> QED  BY <1>1, <3>1, <3>2, <3>3
  <2> QED  BY <2>1, <2>2 DEF SetsFacts
<1>3. WinnerFacts /\ EmitFacts  BY DEF Init, WinnerFacts, EmitFacts
<1> QED  BY <1>2, <1>3 DEF Init, MInv

\* One turn of the winner loop keeps the winners winning.
LEMMA VisitKeeps ==
    ASSUME MInv, NEW p \in Publications, Visit(p)
    PROVE  MInv'
<1>1. /\ p \in sets /\ p \notin visited /\ phase = "visiting"
      /\ visited' = visited \cup {p}
      /\ winner' = [k \in Keys |-> IF k \in DOMAIN p.rows /\ Takes(p, k) THEN p ELSE winner[k]]
      /\ UNCHANGED <<sets, phase, merged, texts>>
  BY DEF Visit
<1>2. p # None  BY PublicationFacts
<1>3. ASSUME NEW k \in Keys
      PROVE  /\ winner'[k] = None => \A q \in visited' : k \notin DOMAIN q.rows
             /\ winner'[k] # None =>
                  /\ winner'[k] \in visited' /\ k \in DOMAIN winner'[k].rows
                  /\ \A q \in visited' \ {winner'[k]} :
                       k \in DOMAIN q.rows => Beats(winner'[k], q)
  <2> DEFINE w == winner[k]
  <2>1. /\ w = None => \A q \in visited : k \notin DOMAIN q.rows
        /\ w # None =>
             /\ w \in visited /\ k \in DOMAIN w.rows
             /\ \A q \in visited \ {w} : k \in DOMAIN q.rows => Beats(w, q)
    BY DEF MInv, WinnerFacts
  <2>2. visited \subseteq Publications /\ (w # None => w \in Publications /\ w.id # p.id)
    BY <1>1, <2>1 DEF MInv, SetsFacts
  <2>3. winner'[k] = IF k \in DOMAIN p.rows /\ Takes(p, k) THEN p ELSE w
    BY <1>1
  <2> HIDE DEF w
  <2>4. CASE k \notin DOMAIN p.rows
    BY <1>1, <2>1, <2>3, <2>4
  <2>5. CASE k \in DOMAIN p.rows /\ w = None
    <3>1. winner'[k] = p  BY <2>3, <2>5 DEF Takes, w
    <3> QED  BY <1>1, <1>2, <2>1, <2>5, <3>1
  <2>6. CASE k \in DOMAIN p.rows /\ w # None /\ Older(w, p)
    <3>1. winner'[k] = p  BY <2>3, <2>6 DEF Takes, w
    <3>2. Beats(p, w)  BY <2>2, <2>6, OneBeats
    <3>3. \A q \in visited : k \in DOMAIN q.rows => Beats(p, q)
      BY <2>1, <2>2, <2>6, <3>2, BeatsIsTransitive
    <3> QED  BY <1>1, <1>2, <2>6, <3>1, <3>3
  <2>7. CASE k \in DOMAIN p.rows /\ w # None /\ ~Older(w, p)
    <3>1. winner'[k] = w  BY <2>3, <2>7 DEF Takes, w
    <3>2. Beats(w, p)  BY <2>2, <2>7, OneBeats
    <3> QED  BY <1>1, <2>1, <2>7, <3>1, <3>2
  <2> QED  BY <2>4, <2>5, <2>6, <2>7
<1>4. WinnerFacts'
  BY <1>3 DEF WinnerFacts
<1>5. winner' \in [Keys -> Publications \cup {None}]
  BY <1>1 DEF MInv
<1> QED  BY <1>1, <1>4, <1>5 DEF MInv, SetsFacts, EmitFacts

\* The second loop sends the winners'.
LEMMA EmitKeeps == ASSUME MInv, Emit PROVE MInv'
<1>1. /\ UNCHANGED <<sets, visited, winner>> /\ visited = sets /\ phase' = "merged"
      /\ merged' = [k \in Won |-> winner[k].rows[k]] /\ texts' = Texts
  BY DEF Emit
<1>2. Won' = Won /\ Texts' = Texts
  BY <1>1 DEF Won, Texts
<1>3. EmitFacts'  BY <1>1, <1>2 DEF EmitFacts
<1> QED  BY <1>1, <1>3 DEF MInv, SetsFacts, WinnerFacts

\* confine leaves a closed payload as it is and does not refuse it.
LEMMA ConfineKeeps ==
    ASSUME MInv, Confine
    PROVE  MInv' /\ phase' = "sent" /\ merged' = merged /\ texts' = texts
<1> DEFINE kept == Confined(merged)
<1>1. /\ UNCHANGED <<sets, visited, winner>> /\ phase = "merged"
      /\ merged' = [k \in kept |-> merged[k]]
      /\ texts' = { t \in texts : t.key \in kept }
      /\ phase' = IF Dangling(kept, merged) = {} THEN "sent" ELSE "refused"
  BY DEF Confine
<1>2. visited = sets /\ merged = [k \in Won |-> winner[k].rows[k]] /\ texts = Texts
  BY <1>1 DEF MInv, EmitFacts
<1>3. kept = Won
  <2>1. DOMAIN merged = Won /\ \A k \in Won : merged[k] = winner[k].rows[k]
    BY <1>2
  <2>2. Rooted(Won, merged)
    BY <2>1, MergedIsClosed DEF Rooted
  <2> QED  BY <2>1, <2>2 DEF Confined
<1>4. merged' = merged
  BY <1>1, <1>2, <1>3
<1>5. \A t \in texts : t.key \in Won
  <2> TAKE t \in texts
  <2>0. PICK p \in sets : \E u \in p.translations :
           winner[u[1]] = p /\ t = [ key |-> u[1], language |-> u[2], from |-> p ]
    BY <1>2 DEF Texts
  <2>1. PICK u \in p.translations : t.key = u[1] /\ winner[u[1]] = p
    BY <2>0
  <2>2. p \in Publications  BY DEF MInv, SetsFacts
  <2>3. u[1] \in Keys /\ p # None  BY <2>1, <2>2, PublicationFacts
  <2> QED  BY <2>1, <2>3 DEF Won
<1>6. texts' = texts
  BY <1>1, <1>3, <1>5
<1>7. Dangling(kept, merged) = {}
  BY <1>2, <1>3, MergedIsClosed DEF Dangling
<1>8. Won' = Won /\ Texts' = Texts
  BY <1>1 DEF Won, Texts
<1>9. EmitFacts'
  BY <1>1, <1>2, <1>4, <1>6, <1>7, <1>8 DEF EmitFacts
<1> QED
  BY <1>1, <1>4, <1>6, <1>7, <1>9 DEF MInv, SetsFacts, WinnerFacts

\* The invariant holds of every behaviour.
THEOREM MergeInvariance == Spec => []MInv
<1>1. MInv /\ [Next]_vars => MInv'
  <2> SUFFICES ASSUME MInv, [Next]_vars PROVE MInv'  OBVIOUS
  <2>1. CASE UNCHANGED vars
    BY <2>1 DEF vars, MInv, SetsFacts, WinnerFacts, EmitFacts, Won, Texts
  <2> QED  BY <2>1, VisitKeeps, EmitKeeps, ConfineKeeps DEF Next
<1> QED  BY <1>1, InitMInv, PTL DEF Spec

\* Whatever the order of the array, the newest publication's copy is sent.
THEOREM TheNewestCopyWins == Spec => []NewestCopyWins
<1>1. MInv => NewestCopyWins
  <2> SUFFICES ASSUME MInv, phase # "visiting", NEW k \in DOMAIN merged
               PROVE  \E p \in sets :
                        /\ k \in DOMAIN p.rows /\ merged[k] = p.rows[k] /\ winner[k] = p
                        /\ \A q \in sets \ {p} :
                             k \in DOMAIN q.rows => q.at < p.at \/ (q.at = p.at /\ q.id < p.id)
    BY DEF NewestCopyWins
  <2>1. visited = sets /\ k \in Won /\ merged[k] = winner[k].rows[k]
    BY DEF MInv, EmitFacts
  <2> QED  BY <2>1 DEF MInv, WinnerFacts, Won, Beats
<1> QED  BY <1>1, MergeInvariance, PTL

\* Every translation sent is of the publication its row was taken from, and
\* none of those is left out.
THEOREM TheTextsFollow == Spec => []TextsFollowTheirRow
<1>1. MInv => TextsFollowTheirRow
  <2> SUFFICES ASSUME MInv, phase # "visiting", NEW p \in sets,
                      NEW k \in DOMAIN p.rows, NEW l \in Languages
               PROVE  [ key |-> k, language |-> l, from |-> p ] \in texts
                        <=> winner[k] = p /\ <<k, l>> \in p.translations
    BY DEF TextsFollowTheirRow
  <2> DEFINE t == [ key |-> k, language |-> l, from |-> p ]
  <2>1. texts = Texts  BY DEF MInv, EmitFacts
  <2>2. ASSUME t \in texts PROVE winner[k] = p /\ <<k, l>> \in p.translations
    <3>1. PICK q \in sets : \E u \in q.translations :
             winner[u[1]] = q /\ t = [ key |-> u[1], language |-> u[2], from |-> q ]
      BY <2>1, <2>2 DEF Texts
    <3>2. PICK u \in q.translations :
             winner[u[1]] = q /\ t = [ key |-> u[1], language |-> u[2], from |-> q ]
      BY <3>1
    <3>3. q = p /\ u[1] = k /\ u[2] = l  BY <3>2
    <3>4. q \in Publications  BY DEF MInv, SetsFacts
    <3>5. u = <<u[1], u[2]>>  BY <3>4, PublicationFacts
    <3> QED  BY <3>2, <3>3, <3>5
  <2>3. ASSUME winner[k] = p, <<k, l>> \in p.translations PROVE t \in texts
    BY <2>1, <2>3 DEF Texts
  <2> QED  BY <2>2, <2>3
<1> QED  BY <1>1, MergeInvariance, PTL

\* Copies of different ages always fit together: the merge of closed
\* publications loses no row and is never refused.
THEOREM TheMergeIsClosed == Spec => []ConfineFindsNothing
<1>1. MInv => ConfineFindsNothing
  <2> SUFFICES ASSUME MInv
               PROVE  /\ phase # "refused"
                      /\ phase # "visiting" =>
                           \A p \in sets : DOMAIN p.rows \subseteq DOMAIN merged
    BY DEF ConfineFindsNothing
  <2>1. phase # "refused"  BY DEF MInv, EmitFacts
  <2>2. ASSUME phase # "visiting", NEW p \in sets
        PROVE  DOMAIN p.rows \subseteq DOMAIN merged
    <3>1. visited = sets /\ DOMAIN merged = Won  BY <2>2 DEF MInv, EmitFacts
    <3>2. DOMAIN p.rows \subseteq Keys  BY PublicationFacts DEF MInv, SetsFacts
    <3> QED  BY <3>1, <3>2 DEF MInv, WinnerFacts, Won
  <2> QED  BY <2>1, <2>2
<1> QED  BY <1>1, MergeInvariance, PTL

\* Every variable keeps its type: what is merged is a winner's copy, and what
\* is said of it in a language is in the winning publication (mergePublished).
THEOREM TypeCorrect == Spec => []TypeOK
<1>1. ASSUME MInv PROVE TypeOK
  <2>1. ASSUME phase # "visiting"
        PROVE  /\ merged = [k \in Won |-> winner[k].rows[k]]
               /\ texts = Texts
    BY <1>1, <2>1 DEF MInv, EmitFacts
  <2>2. ASSUME NEW k \in Won PROVE winner[k].rows[k] \in Copy
    <3>1. winner[k] \in Publications /\ k \in DOMAIN winner[k].rows
      BY <1>1 DEF MInv, WinnerFacts, SetsFacts, Won
    <3> QED  BY <3>1, PublicationFacts
  <2>3. ASSUME NEW t \in Texts
        PROVE  t.key \in Keys /\ t.language \in Languages /\ t.from \in sets
    <3>1. PICK p \in sets : \E u \in p.translations :
             t = [ key |-> u[1], language |-> u[2], from |-> p ]
      BY <2>3, Zenon DEF Texts
    <3>2. PICK u \in p.translations : t = [ key |-> u[1], language |-> u[2], from |-> p ]
      BY <3>1
    <3>3. p \in Publications  BY <1>1 DEF MInv, SetsFacts
    <3>4. u \in (DOMAIN p.rows) \X Languages /\ DOMAIN p.rows \subseteq Keys
      BY <3>2, <3>3, PublicationFacts
    <3> QED  BY <3>2, <3>4
  <2>4. DOMAIN merged \subseteq Keys /\ \A k \in DOMAIN merged : merged[k] \in Copy
    <3>1. CASE phase = "visiting"
      <4>1. merged = Nothing  BY <1>1, <3>1 DEF MInv
      <4> QED  BY <4>1 DEF Nothing
    <3>2. CASE phase # "visiting"  BY <2>1, <2>2, <3>2 DEF Won
    <3> QED  BY <3>1, <3>2
  <2>5. \A t \in texts : t.key \in Keys /\ t.language \in Languages /\ t.from \in sets
    <3>1. CASE phase = "visiting"
      <4>1. texts = {}  BY <1>1, <3>1 DEF MInv
      <4> QED  BY <4>1
    <3>2. CASE phase # "visiting"  BY <2>1, <2>3, <3>2
    <3> QED  BY <3>1, <3>2
  <2>6. /\ sets \subseteq Publications /\ visited \subseteq sets
        /\ winner \in [Keys -> Publications \cup {None}]
        /\ phase \in {"visiting", "merged", "sent", "refused"}
    BY <1>1 DEF MInv, SetsFacts
  <2> QED  BY <2>4, <2>5, <2>6 DEF TypeOK
<1> QED  BY <1>1, MergeInvariance, PTL
=============================================================================
