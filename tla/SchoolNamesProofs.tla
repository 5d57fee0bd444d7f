-------------------------- MODULE SchoolNamesProofs --------------------------
(***************************************************************************)
(* Proofs about SchoolNames, for any schools, names, rows and requests.    *)
(*                                                                         *)
(* The argument is one of locks.  A name changes only at the commit of a   *)
(* rename, which holds its school's update lock since before its cascade   *)
(* read a row; whoever has a copy to write or written still shares the     *)
(* copy's school, so its name has not changed (Copying), and while the     *)
(* cascade runs nobody can add to the rows it has to reach (Renaming).     *)
(*                                                                         *)
(* Which rows the requests hold and write: that only a move can be part of *)
(* a ring of waits, and that a learner and the login stay in one school,   *)
(* rests on RowsKept: a row is in one draft, the rows of a create are in   *)
(* nobody else's, and a cascade or a refresh leaves rows in their school.  *)
(***************************************************************************)
EXTENDS SchoolNames, FiniteSetTheorems, TLAPS

LOCAL INSTANCE SequencesExt

\* A request that has not ended was made.
Asked == \A p \in Requests : pc[p] \notin Ends => ask[p] # None

\* Where a request starts: a rename at the first table, a line at its first
\* row, a refresh at the first of the rows it found, all of which it reaches.
Starting ==
    /\ \A r \in Renamers : pc[r] = "lock" => turn[r] = 1
    /\ \A p \in Writers : pc[p] \in {"begin", "check", "resolve"} => at[p] = 1
    /\ \A u \in Refreshers :
          /\ pc[u] \in {"share", "find"} => at[u] = 1
          /\ pc[u] = "refresh" => at[u] \in 1 .. Len(found[u])

\* Nobody shares a school that is being renamed.
LocksExclude == \A s \in Schools : renaming[s] # None => sharing[s] = {}

\* A rename holds its school from the first statement to the commit.
RenameHolds ==
    \A r \in Renamers : pc[r] \in {"cascade", "commit"} => renaming[ask[r].school] = r

\* The copy a writer is about to write, of a school it still shares.
CopyIsCurrent ==
    \A p \in Requests : pc[p] \in {"write", "find", "refresh"} =>
        /\ copy[p] # None
        /\ p \in sharing[copy[p].school]
        /\ copy[p].name = school[copy[p].school]

\* The copies a writer has written, of schools it still shares.
DraftIsCurrent ==
    \A p \in Requests \ Renamers : \A k \in DOMAIN draft[p] :
        /\ p \in sharing[draft[p][k].school]
        /\ draft[p][k].name = school[draft[p][k].school]

\* What a rename has written: its school, its new name.
RenameDraft ==
    \A r \in Renamers : \A k \in DOMAIN draft[r] :
        /\ pc[r] \in {"cascade", "commit"}
        /\ draft[r][k] = [school |-> ask[r].school, name |-> ask[r].text]

\* A row of the school that a rename has not rewritten is in a table its
\* cascade has yet to finish, or keeps a name that does not change, or is a
\* fees row that was not there at first.
CascadeReaches ==
    \A r \in Renamers : pc[r] \in {"cascade", "commit"} =>
        \A k \in Keys :
            row[k] # None /\ row[k].school = ask[r].school =>
                \/ k \in DOMAIN draft[r]
                \/ k[1] = "schoolcontributedata" /\ Home[k] = None
                \/ pc[r] = "cascade" /\ \E i \in DOMAIN Tables : i >= turn[r] /\ Tables[i] = k[1]
                \/ pc[r] = "commit" /\ school[ask[r].school] = ask[r].text

\* The copy a request that gave a name is about to write bears that name.
CopyBears ==
    \A p \in Hirers \cup Movers : pc[p] = "write" =>
        Normal[copy[p].name] = Normal[Line(p).given]

Locking == Asked /\ Starting /\ LocksExclude /\ RenameHolds
Copying == CopyIsCurrent /\ DraftIsCurrent /\ CopyBears /\ PutWhereNamed
Renaming == RenameDraft /\ CascadeReaches /\ NamesAgree

IInv == TypeOK /\ Locking /\ Copying /\ Renaming

-----------------------------------------------------------------------------
\* What AsksAssumption says of a request that was made.
LEMMA AskFacts ==
    ASSUME TypeOK, NEW p \in Requests, ask[p] # None
    PROVE  /\ p \in Writers =>
                /\ ask[p] \in Seq(Lines) /\ Len(ask[p]) \in Nat \ {0}
                /\ \A i \in DOMAIN ask[p] :
                     /\ ask[p][i].keys # <<>>
                     /\ p \in Hirers \cup Movers => ask[p][i].given \in Texts
           /\ p \in Renamers =>
                ask[p].school \in Schools /\ ask[p].text \in Texts
           /\ p \in FeeMakers =>
                ask[p].school \in Schools /\ ask[p].fee \in Fees
           /\ p \in Refreshers \cup Deleters => ask[p].school \in Schools
<1>1. ask \in Asks  BY DEF TypeOK, RequestsTyped
<1>2. p \in Writers => /\ ask[p] \in Seq(Lines) /\ ask[p] # <<>>
                       /\ \A i \in DOMAIN ask[p] :
                            /\ ask[p][i].keys # <<>>
                            /\ p \in Hirers \cup Movers => ask[p][i].given \in Texts
  BY <1>1, SchoolNamesAssumed, Zenon DEF AsksAssumption
<1>3. p \in Writers => Len(ask[p]) \in Nat \ {0}
  BY <1>2
<1>4. p \in Renamers => ask[p] \in [school : Schools, text : Texts]
  BY <1>1, SchoolNamesAssumed, Zenon DEF AsksAssumption
<1>5. p \in FeeMakers => ask[p] \in [school : Schools, fee : Fees]
  BY <1>1, SchoolNamesAssumed, Zenon DEF AsksAssumption
<1>6. p \in Refreshers \cup Deleters => ask[p] \in [school : Schools]
  BY <1>1, SchoolNamesAssumed, Zenon DEF AsksAssumption
<1> QED  BY <1>2, <1>3, <1>4, <1>5, <1>6

\* The line a writer is at, and the row of the line.
LEMMA LineFacts ==
    ASSUME TypeOK, NEW p \in Writers, ask[p] # None
    PROVE  /\ turn[p] \in 1 .. Len(ask[p])
           /\ Line(p) \in Lines
           /\ Line(p).keys \in Seq(Keys)
           /\ at[p] \in 1 .. Len(Line(p).keys)
           /\ Line(p).keys[at[p]] \in Keys
           /\ p \in Hirers \cup Movers => Line(p).given \in Texts
<1>1. p \in Requests  BY DEF Requests
<1>2. /\ ask[p] \in Seq(Lines)
      /\ \A i \in DOMAIN ask[p] : p \in Hirers \cup Movers => ask[p][i].given \in Texts
  BY <1>1, AskFacts
<1>3. turn[p] \in DOMAIN ask[p] /\ at[p] \in DOMAIN Line(p).keys
  BY DEF TypeOK, PlacesTyped
<1>4. turn[p] \in 1 .. Len(ask[p]) /\ Line(p) \in Lines
  BY <1>2, <1>3 DEF Line
<1>5. Line(p).keys \in Seq(Keys)
  BY <1>4 DEF Lines
<1> QED  BY <1>2, <1>3, <1>4, <1>5 DEF Line

\* A row may be the first of a line of what was asked.
LEMMA FirstRow ==
    ASSUME TypeOK, NEW p \in Writers, ask[p] # None, NEW i \in 1 .. Len(ask[p])
    PROVE  i \in DOMAIN ask[p] /\ 1 \in DOMAIN ask[p][i].keys
<1>1. p \in Requests  BY DEF Requests
<1>2. ask[p] \in Seq(Lines) /\ \A j \in DOMAIN ask[p] : ask[p][j].keys # <<>>
  BY <1>1, AskFacts
<1>3. i \in DOMAIN ask[p] /\ ask[p][i] \in Lines
  BY <1>2
<1>4. ask[p][i].keys \in Seq(Keys) /\ ask[p][i].keys # <<>>
  BY <1>2, <1>3 DEF Lines
<1> QED  BY <1>3, <1>4

\* The requests of one kind are no renames, and no request is None.
LEMMA Kinds ==
    /\ Writers \subseteq Requests \ Renamers /\ Refreshers \subseteq Requests \ Renamers
    /\ FeeMakers \subseteq Requests \ Renamers /\ Deleters \subseteq Requests \ Renamers
    /\ Renamers \subseteq Requests /\ Hirers \cup Movers \subseteq Writers
    /\ Writers \cap (FeeMakers \cup Refreshers \cup Deleters) = {}
    /\ Refreshers \cap (FeeMakers \cup Deleters) = {}
    /\ None \notin Requests /\ None \notin Schools /\ None \notin Copies
    /\ Schools \cap Texts = {}
BY SchoolNamesAssumed DEF SchoolNamesAssumption, Requests, Writers

\* The four tables are those of the keys.
LEMMA TableFacts ==
    /\ DOMAIN Tables = 1 .. 4 /\ Len(Tables) = 4
    /\ \A k \in Keys : \E i \in 1 .. 4 : Tables[i] = k[1]
BY DEF Tables, Keys

-----------------------------------------------------------------------------
\* The end of a transaction that changes no row keeps the invariant.
LEMMA RollbackKeeps ==
    ASSUME IInv, NEW p \in Requests, NEW how \in Ends, Rollback(p, how)
    PROVE  IInv'
<1> USE DEF Rollback, End
<1>0. /\ \A q \in Requests \ {p} : pc'[q] = pc[q] /\ draft'[q] = draft[q]
      /\ pc'[p] = how /\ draft'[p] = NoRows /\ DOMAIN NoRows = {}
  BY DEF IInv, TypeOK, RowsTyped, RequestsTyped, NoRows
<1>1. TypeOK'
  <2>1. RowsTyped'
    BY <1>0 DEF IInv, TypeOK, RowsTyped
  <2>2. LocksTyped'
    BY DEF IInv, TypeOK, LocksTyped
  <2>3. RequestsTyped'
    BY DEF IInv, TypeOK, RequestsTyped, Steps
  <2>4. PlacesTyped'
    BY DEF IInv, TypeOK, PlacesTyped, Line
  <2> QED  BY <2>1, <2>2, <2>3, <2>4 DEF TypeOK
<1>2. Locking'
  <2>1. Asked' /\ Starting'
    BY <1>0, Kinds DEF IInv, Locking, Asked, Starting, Ends
  <2>2. LocksExclude'
    BY DEF IInv, TypeOK, LocksTyped, Locking, LocksExclude
  <2>3. RenameHolds'
    BY <1>0, Kinds, AskFacts DEF IInv, Locking, RenameHolds, Asked, Ends
  <2> QED  BY <2>1, <2>2, <2>3 DEF Locking
<1>3. Copying'
  <2>1. CopyIsCurrent'
    BY <1>0, Kinds DEF IInv, TypeOK, RequestsTyped, Copying, CopyIsCurrent, Copies, Ends
  <2>2. DraftIsCurrent'
    BY <1>0, Kinds DEF IInv, TypeOK, RowsTyped, Copying, DraftIsCurrent, Copies
  <2>3. CopyBears' /\ PutWhereNamed'
    BY <1>0, Kinds DEF IInv, Copying, CopyBears, PutWhereNamed, Line, Ends
  <2> QED  BY <2>1, <2>2, <2>3 DEF Copying
<1>4. Renaming'
  BY <1>0, Kinds DEF IInv, Renaming, RenameDraft, CascadeReaches, NamesAgree, Ends
<1> QED  BY <1>1, <1>2, <1>3, <1>4 DEF IInv

-----------------------------------------------------------------------------
\* The first plain read of a writer.
LEMMA BeginKeeps ==
    ASSUME IInv, NEW p \in Writers, Begin(p)
    PROVE  IInv'
<1>0. p \in Requests \ Renamers
  BY Kinds
<1>1. TypeOK'
  <2>1. RowsTyped' /\ LocksTyped'
    BY DEF Begin, IInv, TypeOK, RowsTyped, LocksTyped
  <2>2. RequestsTyped' /\ PlacesTyped'
    BY <1>0 DEF Begin, IInv, TypeOK, RowsTyped, RequestsTyped, PlacesTyped, Steps, Line
  <2> QED  BY <2>1, <2>2 DEF TypeOK
<1>2. Locking'
  BY <1>0 DEF Begin, IInv, TypeOK, RequestsTyped, Locking, Asked, Starting, LocksExclude,
     RenameHolds, Ends
<1>3. Copying'
  BY <1>0 DEF Begin, IInv, TypeOK, RequestsTyped, Copying, CopyIsCurrent, DraftIsCurrent,
     CopyBears, PutWhereNamed, Line
<1>4. Renaming'
  BY <1>0, Kinds DEF Begin, IInv, TypeOK, RequestsTyped, Renaming, RenameDraft,
     CascadeReaches, NamesAgree
<1> QED  BY <1>1, <1>2, <1>3, <1>4 DEF IInv

\* A move shares the school of one more line.
LEMMA CheckKeeps ==
    ASSUME IInv, NEW p \in Writers, Check(p)
    PROVE  IInv'
<1>0. p \in Requests \ Renamers /\ ask[p] # None
  BY Kinds DEF Check, IInv, Locking, Asked, Ends
<1>1. /\ turn[p] \in Nat /\ Len(ask[p]) \in Nat
      /\ turn'[p] \in 1 .. Len(ask[p]) /\ turn' \in [Requests -> Nat]
      /\ \A q \in Requests \ {p} : turn'[q] = turn[q]
  <2>1. turn[p] \in 1 .. Len(ask[p]) /\ Len(ask[p]) \in Nat \ {0}
    BY <1>0, LineFacts, AskFacts DEF IInv
  <2>2. turn \in [Requests -> Nat]
    BY DEF IInv, TypeOK, PlacesTyped
  <2> QED  BY <1>0, <2>1, <2>2 DEF Check
<1>2. PICK s \in Schools : renaming[s] = None /\ sharing' = [sharing EXCEPT ![s] = @ \cup {p}]
  BY DEF Check, Resolved, Shareable, Share
<1>3. pc'[p] \in {"check", "resolve"} /\ \A q \in Requests \ {p} : pc'[q] = pc[q]
  BY <1>0 DEF Check, IInv, TypeOK, RequestsTyped
<1>4. TypeOK'
  <2>1. RowsTyped' /\ LocksTyped'
    BY <1>0, <1>2 DEF Check, IInv, TypeOK, RowsTyped, LocksTyped
  <2>2. RequestsTyped'
    BY <1>0 DEF Check, IInv, TypeOK, RequestsTyped, Steps
  <2>3. turn'[p] \in DOMAIN ask[p] /\ at[p] \in DOMAIN ask[p][turn'[p]].keys
    BY <1>0, <1>1, FirstRow DEF Check, IInv, Locking, Starting
  <2>4. PlacesTyped'
    BY <1>0, <1>1, <2>3, Kinds DEF Check, IInv, TypeOK, PlacesTyped, Line
  <2> QED  BY <2>1, <2>2, <2>4 DEF TypeOK
<1>5. Locking'
  <2>1. Asked' /\ Starting'
    BY <1>0, <1>1, <1>3, Kinds DEF Check, IInv, Locking, Asked, Starting
  <2>2. LocksExclude' /\ RenameHolds'
    BY <1>0, <1>2, <1>3, Kinds
    DEF Check, IInv, TypeOK, LocksTyped, Locking, LocksExclude, RenameHolds
  <2> QED  BY <2>1, <2>2 DEF Locking
<1>6. Copying'
  <2>1. \A t \in Schools : sharing[t] \subseteq sharing'[t]
    BY <1>2 DEF IInv, TypeOK, LocksTyped
  <2>2. CopyIsCurrent'
    <3> SUFFICES ASSUME NEW q \in Requests, pc'[q] \in {"write", "find", "refresh"}
                 PROVE  /\ copy[q] # None
                        /\ q \in sharing'[copy[q].school]
                        /\ copy[q].name = school[copy[q].school]
      BY DEF CopyIsCurrent, Check
    <3>1. pc[q] \in {"write", "find", "refresh"}
      BY <1>3
    <3> QED
      BY <2>1, <3>1 DEF IInv, TypeOK, RequestsTyped, Copying, CopyIsCurrent, Copies
  <2>4. DraftIsCurrent'
    BY <2>1, Kinds DEF Check, IInv, TypeOK, RowsTyped, Copying, DraftIsCurrent, Copies
  <2>3. CopyBears' /\ PutWhereNamed'
    BY <1>1, <1>3, Kinds DEF Check, IInv, Copying, CopyBears, PutWhereNamed, Line
  <2> QED  BY <2>2, <2>4, <2>3 DEF Copying
<1>7. Renaming'
  BY <1>0, <1>1, <1>3, Kinds DEF Check, IInv, Renaming, RenameDraft, CascadeReaches, NamesAgree
<1> QED  BY <1>4, <1>5, <1>6, <1>7 DEF IInv

\* A writer takes the copy of its line from the school it shares.
LEMMA ResolveKeeps ==
    ASSUME IInv, NEW p \in Writers, Resolve(p)
    PROVE  IInv'
<1>0. p \in Requests \ Renamers /\ ask[p] # None
  BY Kinds DEF Resolve, IInv, Locking, Asked, Ends
<1>1. PICK s \in Schools :
        /\ renaming[s] = None /\ Bears(s, Line(p).given)
        /\ sharing' = [sharing EXCEPT ![s] = @ \cup {p}]
        /\ copy' = [copy EXCEPT ![p] = [school |-> s, name |-> school[s]]]
  BY DEF Resolve, Resolved, Shareable, Share
<1>2. pc'[p] = "write" /\ \A q \in Requests \ {p} : pc'[q] = pc[q] /\ copy'[q] = copy[q]
  BY <1>0, <1>1 DEF Resolve, IInv, TypeOK, RequestsTyped
<1>3. /\ copy'[p] = [school |-> s, name |-> school[s]]
      /\ copy'[p] \in Copies /\ copy'[p] # None
  BY <1>0, <1>1, Kinds DEF IInv, TypeOK, RequestsTyped, RowsTyped, Copies
<1>4. TypeOK'
  <2>1. RowsTyped' /\ LocksTyped'
    BY <1>0, <1>1 DEF Resolve, IInv, TypeOK, RowsTyped, LocksTyped
  <2>2. RequestsTyped'
    BY <1>0, <1>1, <1>3 DEF Resolve, IInv, TypeOK, RequestsTyped, Steps
  <2>3. PlacesTyped'
    BY DEF Resolve, IInv, TypeOK, PlacesTyped, Line
  <2> QED  BY <2>1, <2>2, <2>3 DEF TypeOK
<1>5. Locking'
  <2>1. Asked' /\ Starting'
    BY <1>0, <1>2, Kinds DEF Resolve, IInv, Locking, Asked, Starting
  <2>2. LocksExclude' /\ RenameHolds'
    BY <1>0, <1>1, <1>2, Kinds
    DEF Resolve, IInv, TypeOK, LocksTyped, Locking, LocksExclude, RenameHolds
  <2> QED  BY <2>1, <2>2 DEF Locking
<1>6. Copying'
  <2>1. /\ \A t \in Schools : sharing[t] \subseteq sharing'[t]
        /\ p \in sharing'[s]
    BY <1>1 DEF IInv, TypeOK, LocksTyped
  <2>2. CopyIsCurrent'
    <3> SUFFICES ASSUME NEW q \in Requests, pc'[q] \in {"write", "find", "refresh"}
                 PROVE  /\ copy'[q] # None
                        /\ q \in sharing'[copy'[q].school]
                        /\ copy'[q].name = school[copy'[q].school]
      BY DEF CopyIsCurrent, Resolve
    <3>1. CASE q = p
      BY <3>1, <1>3, <2>1
    <3>2. CASE q # p
      BY <3>2, <1>2, <2>1 DEF IInv, TypeOK, RequestsTyped, Copying, CopyIsCurrent, Copies
    <3> QED  BY <3>1, <3>2
  <2>3. DraftIsCurrent'
    BY <2>1, Kinds DEF Resolve, IInv, TypeOK, RowsTyped, Copying, DraftIsCurrent, Copies
  <2>4. p \in Hirers \cup Movers => Normal[school[s]] = Normal[Line(p).given]
    BY <1>0, <1>1, LineFacts DEF IInv, Bears
  <2>5. CopyBears'
    BY <2>4, <1>2, <1>3, Kinds DEF Resolve, IInv, Copying, CopyBears, Line
  <2>6. PutWhereNamed'
    BY DEF Resolve, IInv, Copying, PutWhereNamed
  <2> QED  BY <2>2, <2>3, <2>5, <2>6 DEF Copying
<1>7. Renaming'
  BY <1>0, <1>2, Kinds DEF Resolve, IInv, Renaming, RenameDraft, CascadeReaches, NamesAgree
<1> QED  BY <1>4, <1>5, <1>6, <1>7 DEF IInv

-----------------------------------------------------------------------------
\* A draft with one row more.
LEMMA DraftGrows ==
    ASSUME TypeOK, NEW p \in Requests, NEW k \in Keys, NEW c \in Copies,
           draft' = [draft EXCEPT ![p] = Overlay(@, [x \in {k} |-> c])]
    PROVE  /\ DOMAIN draft' = Requests
           /\ \A q \in Requests \ {p} : draft'[q] = draft[q]
           /\ DOMAIN draft'[p] = DOMAIN draft[p] \cup {k}
           /\ draft'[p][k] = c
           /\ \A x \in DOMAIN draft[p] \ {k} : draft'[p][x] = draft[p][x]
BY DEF TypeOK, RowsTyped, Overlay

\* A writer writes the next row of its line.
LEMMA WriteKeeps ==
    ASSUME IInv, NEW p \in Writers, Write(p)
    PROVE  IInv'
<1> DEFINE k == Line(p).keys[at[p]]
           last == at[p] = Len(Line(p).keys)
<1>0. p \in Requests \ Renamers /\ ask[p] # None /\ pc[p] = "write"
  BY Kinds DEF Write, IInv, Locking, Asked, Ends
<1>1. /\ turn[p] \in 1 .. Len(ask[p]) /\ Len(ask[p]) \in Nat \ {0}
      /\ Line(p).keys \in Seq(Keys) /\ at[p] \in 1 .. Len(Line(p).keys)
      /\ k \in Keys /\ ask[p] \in Seq(Lines)
  BY <1>0, LineFacts, AskFacts DEF IInv
<1>2. /\ copy[p] \in Copies /\ p \in sharing[copy[p].school]
      /\ copy[p].name = school[copy[p].school]
  BY <1>0 DEF IInv, TypeOK, RequestsTyped, Copying, CopyIsCurrent
<1>3. /\ DOMAIN draft' = Requests
      /\ \A q \in Requests \ {p} : draft'[q] = draft[q]
      /\ \A x \in DOMAIN draft'[p] :
           \/ x = k /\ draft'[p][x] = copy[p]
           \/ x \in DOMAIN draft[p] /\ draft'[p][x] = draft[p][x]
  <2>1. CASE draft' = draft
    BY <2>1 DEF IInv, TypeOK, RowsTyped
  <2>2. CASE draft' = [draft EXCEPT ![p] = Overlay(@, [x \in {k} |-> copy[p]])]
    <3>1. TypeOK
      BY DEF IInv
    <3>2. p \in Requests /\ k \in Keys /\ copy[p] \in Copies
      BY <1>0, <1>1, <1>2
    <3> HIDE DEF k
    <3>3. /\ DOMAIN draft' = Requests
          /\ \A q \in Requests \ {p} : draft'[q] = draft[q]
          /\ DOMAIN draft'[p] = DOMAIN draft[p] \cup {k}
          /\ draft'[p][k] = copy[p]
          /\ \A x \in DOMAIN draft[p] \ {k} : draft'[p][x] = draft[p][x]
      BY <2>2, <3>1, <3>2, DraftGrows
    <3> QED  BY <3>3
  <2>3. \/ draft' = draft
        \/ draft' = [draft EXCEPT ![p] = Overlay(@, [x \in {k} |-> copy[p]])]
    BY DEF Write
  <2> QED  BY <2>1, <2>2, <2>3
<1>4. /\ \A q \in Requests \ {p} : pc'[q] = pc[q] /\ turn'[q] = turn[q] /\ at'[q] = at[q]
      /\ pc'[p] \in {"write", "resolve", "commit"}
      /\ pc'[p] = "write" => turn'[p] = turn[p] /\ at'[p] = at[p] + 1 /\ ~last
      /\ pc'[p] # "write" => at'[p] = 1
      /\ turn'[p] \in 1 .. Len(ask[p])
      /\ turn' \in [Requests -> Nat] /\ at' \in [Requests -> Nat]
  <2>1. /\ turn \in [Requests -> Nat] /\ at \in [Requests -> Nat]
        /\ pc \in [Requests -> Steps]
    BY DEF IInv, TypeOK, PlacesTyped, RequestsTyped
  <2>2. turn'[p] = IF last /\ turn[p] < Len(ask[p]) THEN turn[p] + 1 ELSE turn[p]
    BY <1>0, <2>1 DEF Write
  <2>3. at'[p] = IF last THEN 1 ELSE at[p] + 1
    BY <1>0, <2>1 DEF Write
  <2>4. pc'[p] = IF ~last THEN "write"
                 ELSE IF turn[p] < Len(ask[p]) THEN "resolve" ELSE "commit"
    BY <1>0, <2>1 DEF Write
  <2>5. \A q \in Requests \ {p} : pc'[q] = pc[q] /\ turn'[q] = turn[q] /\ at'[q] = at[q]
    BY <1>0, <2>1 DEF Write
  <2>6. turn'[p] \in 1 .. Len(ask[p]) /\ turn'[p] \in Nat /\ at'[p] \in Nat
    BY <1>1, <2>2, <2>3
  <2>7. turn' \in [Requests -> Nat] /\ at' \in [Requests -> Nat]
    BY <1>0, <2>1, <2>6 DEF Write
  <2> QED  BY <1>1, <2>2, <2>3, <2>4, <2>5, <2>6, <2>7
<1>5. TypeOK'
  <2>1. RowsTyped' /\ LocksTyped'
    BY <1>0, <1>1, <1>2, <1>3 DEF Write, IInv, TypeOK, RowsTyped, LocksTyped
  <2>2. RequestsTyped'
    BY <1>0 DEF Write, IInv, TypeOK, RequestsTyped, Steps
  <2>3. turn'[p] \in DOMAIN ask[p] /\ at'[p] \in DOMAIN ask[p][turn'[p]].keys
    <3>1. CASE pc'[p] = "write"
      <4>1. at'[p] \in 1 .. Len(Line(p).keys)
        BY <3>1, <1>1, <1>4
      <4>2. DOMAIN Line(p).keys = 1 .. Len(Line(p).keys) /\ turn[p] \in DOMAIN ask[p]
        BY <1>1
      <4> QED  BY <3>1, <1>4, <4>1, <4>2 DEF Line
    <3>2. CASE pc'[p] # "write"
      BY <3>2, <1>0, <1>4, FirstRow DEF IInv
    <3> QED  BY <3>1, <3>2
  <2>4. PlacesTyped'
    BY <1>0, <1>4, <2>3, Kinds DEF Write, IInv, TypeOK, PlacesTyped, Line
  <2> QED  BY <2>1, <2>2, <2>4 DEF TypeOK
<1>6. Locking'
  <2>1. Asked' /\ Starting'
    BY <1>0, <1>4, Kinds DEF Write, IInv, Locking, Asked, Starting
  <2>2. LocksExclude' /\ RenameHolds'
    BY <1>0, <1>4, Kinds DEF Write, IInv, Locking, LocksExclude, RenameHolds
  <2> QED  BY <2>1, <2>2 DEF Locking
<1>7. Copying'
  <2>1. CopyIsCurrent'
    BY <1>0, <1>4 DEF Write, IInv, Copying, CopyIsCurrent
  <2>2. DraftIsCurrent'
    <3> SUFFICES ASSUME NEW q \in Requests \ Renamers, NEW x \in DOMAIN draft'[q]
                 PROVE  /\ q \in sharing[draft'[q][x].school]
                        /\ draft'[q][x].name = school[draft'[q][x].school]
      BY DEF DraftIsCurrent, Write
    <3>1. CASE q = p /\ x = k /\ draft'[p][x] = copy[p]
      BY <3>1, <1>2
    <3>2. CASE x \in DOMAIN draft[q] /\ draft'[q][x] = draft[q][x]
      BY <3>2 DEF IInv, Copying, DraftIsCurrent
    <3> QED  BY <3>1, <3>2, <1>3
  <2>3. CopyBears'
    BY <1>0, <1>4, Kinds DEF Write, IInv, Copying, CopyBears, Line
  <2>4. PutWhereNamed'
    <3> SUFFICES ASSUME NEW q \in Hirers \cup Movers, NEW x \in DOMAIN draft'[q]
                 PROVE  \E i \in DOMAIN ask[q] :
                          /\ \E j \in DOMAIN ask[q][i].keys : ask[q][i].keys[j] = x
                          /\ Normal[school[draft'[q][x].school]] = Normal[ask[q][i].given]
      BY DEF PutWhereNamed, Write
    <3>1. CASE q = p /\ x = k /\ draft'[p][x] = copy[p]
      <4>1. /\ turn[p] \in DOMAIN ask[p] /\ at[p] \in DOMAIN ask[p][turn[p]].keys
            /\ ask[p][turn[p]].keys[at[p]] = x
        BY <3>1, <1>1 DEF Line
      <4>2. Normal[copy[p].name] = Normal[ask[p][turn[p]].given]
        BY <3>1, <1>0 DEF IInv, Copying, CopyBears, Line
      <4> QED  BY <3>1, <4>1, <4>2, <1>2
    <3>2. CASE x \in DOMAIN draft[q] /\ draft'[q][x] = draft[q][x]
      BY <3>2 DEF IInv, Copying, PutWhereNamed
    <3> QED  BY <3>1, <3>2, <1>3, Kinds
  <2> QED  BY <2>1, <2>2, <2>3, <2>4 DEF Copying
<1>8. Renaming'
  <2>1. \A r \in Renamers : pc'[r] = pc[r] /\ draft'[r] = draft[r] /\ turn'[r] = turn[r]
    BY <1>0, <1>3, <1>4, Kinds
  <2> QED
    BY <2>1 DEF Write, IInv, Renaming, RenameDraft, CascadeReaches, NamesAgree
<1> QED  BY <1>5, <1>6, <1>7, <1>8 DEF IInv

-----------------------------------------------------------------------------
\* A rename takes the update lock on a school that nobody shares.
LEMMA LockSchoolKeeps ==
    ASSUME IInv, NEW r \in Renamers, LockSchool(r)
    PROVE  IInv'
<1> DEFINE s == ask[r].school
<1>0. r \in Requests /\ ask[r] # None /\ s \in Schools /\ r # None /\ pc[r] = "lock"
  BY Kinds, AskFacts DEF LockSchool, IInv, Locking, Asked, Ends
<1>1. /\ renaming[s] = None /\ sharing[s] = {}
      /\ renaming' = [renaming EXCEPT ![s] = r]
  BY DEF LockSchool, Lockable
<1>2. /\ pc'[r] = IF school[s] # ask[r].text THEN "cascade" ELSE "commit"
      /\ \A q \in Requests \ {r} : pc'[q] = pc[q]
      /\ turn[r] = 1
  BY <1>0 DEF LockSchool, IInv, TypeOK, RequestsTyped, Locking, Starting
<1>3. TypeOK'
  <2>1. RowsTyped' /\ LocksTyped'
    BY <1>0, <1>1 DEF LockSchool, IInv, TypeOK, RowsTyped, LocksTyped
  <2>2. RequestsTyped' /\ PlacesTyped'
    BY <1>0 DEF LockSchool, IInv, TypeOK, RequestsTyped, PlacesTyped, Steps, Line
  <2> QED  BY <2>1, <2>2 DEF TypeOK
<1>4. Locking'
  <2>1. Asked' /\ Starting'
    BY <1>0, <1>2, Kinds DEF LockSchool, IInv, Locking, Asked, Starting
  <2>2. LocksExclude'
    BY <1>0, <1>1 DEF LockSchool, IInv, TypeOK, LocksTyped, Locking, LocksExclude
  <2>3. \A q \in Renamers \ {r} : pc[q] \in {"cascade", "commit"} =>
          ask[q].school \in Schools /\ ask[q].school # s
    BY <1>0, <1>1, Kinds, AskFacts DEF IInv, Locking, Asked, Ends, RenameHolds
  <2>4. RenameHolds'
    BY <1>0, <1>1, <1>2, <2>3, Kinds
    DEF LockSchool, IInv, TypeOK, LocksTyped, Locking, RenameHolds
  <2> QED  BY <2>1, <2>2, <2>4 DEF Locking
<1>5. Copying'
  BY <1>0, <1>2, Kinds DEF LockSchool, IInv, Copying, CopyIsCurrent, DraftIsCurrent,
     CopyBears, PutWhereNamed, Line
<1>6. Renaming'
  <2>1. RenameDraft' /\ NamesAgree'
    BY <1>0, <1>2, Kinds DEF LockSchool, IInv, Renaming, RenameDraft, NamesAgree
  <2>2. CascadeReaches'
    <3> SUFFICES ASSUME NEW q \in Renamers, pc'[q] \in {"cascade", "commit"}, NEW k \in Keys,
                        row[k] # None, row[k].school = ask[q].school
                 PROVE  \/ k \in DOMAIN draft[q]
                        \/ k[1] = "schoolcontributedata" /\ Home[k] = None
                        \/ /\ pc'[q] = "cascade"
                           /\ \E i \in DOMAIN Tables : i >= turn[q] /\ Tables[i] = k[1]
                        \/ pc'[q] = "commit" /\ school[ask[q].school] = ask[q].text
      BY DEF CascadeReaches, LockSchool
    <3>1. CASE q # r
      BY <3>1, <1>2, Kinds DEF IInv, Renaming, CascadeReaches
    <3>2. CASE q = r
      BY <3>2, <1>2, TableFacts
    <3> QED  BY <3>1, <3>2
  <2> QED  BY <2>1, <2>2 DEF Renaming
<1> QED  BY <1>3, <1>4, <1>5, <1>6 DEF IInv

\* The UPDATE of a table reaches one more row.
LEMMA CascadeKeeps ==
    ASSUME IInv, NEW r \in Renamers, Cascade(r)
    PROVE  IInv'
<1>0. r \in Requests /\ ask[r] # None /\ pc[r] = "cascade"
  BY Kinds DEF Cascade, IInv, Locking, Asked, Ends
<1>1. ask[r].school \in Schools /\ ask[r].text \in Texts
  BY <1>0, AskFacts DEF IInv
<1> DEFINE c == [school |-> ask[r].school, name |-> ask[r].text]
<1>2. PICK k \in Keys :
        /\ row[k] # None /\ row[k].school = ask[r].school
        /\ draft' = [draft EXCEPT ![r] =
              Overlay(@, [x \in {k} |-> [row[k] EXCEPT !.name = ask[r].text]])]
  BY DEF Cascade, Pending
<1>3. [row[k] EXCEPT !.name = ask[r].text] = c /\ c \in Copies
  <2>1. row[k] \in [school : Schools, name : Texts]
    BY <1>2 DEF IInv, TypeOK, RowsTyped, Copies
  <2> QED  BY <1>1, <1>2, <2>1 DEF Copies
<1>4. /\ DOMAIN draft' = Requests
      /\ \A q \in Requests \ {r} : draft'[q] = draft[q]
      /\ DOMAIN draft'[r] = DOMAIN draft[r] \cup {k}
      /\ draft'[r][k] = c
      /\ \A x \in DOMAIN draft[r] \ {k} : draft'[r][x] = draft[r][x]
  <2>1. draft' = [draft EXCEPT ![r] = Overlay(@, [x \in {k} |-> c])]
    BY <1>2, <1>3
  <2>2. TypeOK
    BY DEF IInv
  <2> QED  BY ZenonT(30), <1>0, <1>3, <2>1, <2>2, DraftGrows
<1>5. TypeOK'
  <2>1. RowsTyped'
    BY <1>0, <1>3, <1>4 DEF Cascade, IInv, TypeOK, RowsTyped
  <2>2. LocksTyped' /\ RequestsTyped' /\ PlacesTyped'
    BY DEF Cascade, IInv, TypeOK, LocksTyped, RequestsTyped, PlacesTyped, Line
  <2> QED  BY <2>1, <2>2 DEF TypeOK
<1>6. Locking'
  BY DEF Cascade, IInv, Locking, Asked, Starting, LocksExclude, RenameHolds
<1>7. Copying'
  BY <1>0, <1>4, Kinds DEF Cascade, IInv, Copying, CopyIsCurrent, DraftIsCurrent,
     CopyBears, PutWhereNamed, Line
<1>8. Renaming'
  <2>1. RenameDraft'
    BY <1>0, <1>4, Kinds DEF Cascade, IInv, Renaming, RenameDraft
  <2>2. \A q \in Renamers : DOMAIN draft[q] \subseteq DOMAIN draft'[q]
    BY <1>4, Kinds
  <2>3. CascadeReaches' /\ NamesAgree'
    BY <2>2 DEF Cascade, IInv, Renaming, CascadeReaches, NamesAgree
  <2> QED  BY <2>1, <2>3 DEF Renaming
<1> QED  BY <1>5, <1>6, <1>7, <1>8 DEF IInv

\* The UPDATE of a table is over: every row of it is in the draft.
LEMMA CascadeNextKeeps ==
    ASSUME IInv, NEW r \in Renamers, CascadeNext(r)
    PROVE  IInv'
<1>0. r \in Requests /\ ask[r] # None /\ pc[r] = "cascade" /\ turn[r] \in 1 .. 4
  BY Kinds, TableFacts
  DEF CascadeNext, IInv, TypeOK, PlacesTyped, Locking, Asked, Ends
<1>1. \/ turn[r] < 4 /\ turn'[r] = turn[r] + 1 /\ pc'[r] = "cascade"
      \/ turn[r] = 4 /\ turn'[r] = 4 /\ pc'[r] = "commit"
  BY <1>0, TableFacts
  DEF CascadeNext, IInv, TypeOK, PlacesTyped, RequestsTyped
<1>2. /\ \A q \in Requests \ {r} : turn'[q] = turn[q] /\ pc'[q] = pc[q]
      /\ turn' \in [Requests -> Nat] /\ pc' \in [Requests -> Steps]
  <2>1. turn \in [Requests -> Nat] /\ pc \in [Requests -> Steps]
    BY DEF IInv, TypeOK, PlacesTyped, RequestsTyped
  <2>2. \A q \in Requests \ {r} : turn'[q] = turn[q] /\ pc'[q] = pc[q]
    BY <1>0, <2>1 DEF CascadeNext
  <2>3. turn' \in [Requests -> Nat] /\ pc' \in [Requests -> Steps]
    BY <1>0, <2>1 DEF CascadeNext, Steps
  <2> QED  BY <2>2, <2>3
<1>3. TypeOK'
  <2>1. RowsTyped' /\ LocksTyped' /\ RequestsTyped'
    BY <1>2 DEF CascadeNext, IInv, TypeOK, RowsTyped, LocksTyped, RequestsTyped
  <2>2. PlacesTyped'
    <3>1. /\ \A q \in Writers : turn'[q] = turn[q]
          /\ UNCHANGED <<ask, at, found>>
      BY <1>0, <1>2, Kinds DEF CascadeNext
    <3>2. \A q \in Renamers : turn'[q] \in DOMAIN Tables
      BY <1>0, <1>1, <1>2, Kinds, TableFacts DEF IInv, TypeOK, PlacesTyped
    <3> QED  BY <1>2, <3>1, <3>2 DEF IInv, TypeOK, PlacesTyped, Line
  <2> QED  BY <2>1, <2>2 DEF TypeOK
<1>4. Locking'
  BY <1>0, <1>1, <1>2, Kinds
  DEF CascadeNext, IInv, Locking, Asked, Starting, LocksExclude, RenameHolds
<1>5. Copying'
  BY <1>0, <1>1, <1>2, Kinds
  DEF CascadeNext, IInv, Copying, CopyIsCurrent, DraftIsCurrent, CopyBears, PutWhereNamed, Line
<1>6. Renaming'
  <2>1. RenameDraft' /\ NamesAgree'
    BY <1>0, <1>1, <1>2, Kinds
    DEF CascadeNext, IInv, Renaming, RenameDraft, NamesAgree
  <2>2. CascadeReaches'
    <3> SUFFICES ASSUME NEW q \in Renamers, pc'[q] \in {"cascade", "commit"}, NEW k \in Keys,
                        row[k] # None, row[k].school = ask[q].school,
                        k \notin DOMAIN draft[q],
                        k[1] = "schoolcontributedata" => Home[k] # None
                 PROVE  \/ /\ pc'[q] = "cascade"
                           /\ \E i \in DOMAIN Tables : i >= turn'[q] /\ Tables[i] = k[1]
                        \/ pc'[q] = "commit" /\ school[ask[q].school] = ask[q].text
      BY DEF CascadeReaches, CascadeNext
    <3>1. CASE q # r
      BY <3>1, <1>2, Kinds DEF IInv, Renaming, CascadeReaches
    <3>2. CASE q = r
      <4>1. PICK i \in 1 .. 4 : i >= turn[r] /\ Tables[i] = k[1]
        BY <3>2, <1>0, TableFacts DEF IInv, Renaming, CascadeReaches
      <4>2. k[1] # Tables[turn[r]]
        BY <3>2 DEF CascadeNext, Pending
      <4>3. i > turn[r]
        BY <4>1, <4>2, <1>0
      <4> QED  BY <3>2, <4>1, <4>3, <1>0, <1>1, TableFacts
    <3> QED  BY <3>1, <3>2
  <2> QED  BY <2>1, <2>2 DEF Renaming
<1> QED  BY <1>3, <1>4, <1>5, <1>6 DEF IInv

-----------------------------------------------------------------------------
\* A request that is no rename, writer or refresh and about to write nothing
\* takes a step that leaves rows, drafts and locks alone.
LEMMA PlainStepKeeps ==
    ASSUME IInv, NEW p \in Requests \ (Renamers \cup Writers \cup Refreshers),
           ask[p] # None, NEW to \in Steps \ {"write", "find", "refresh"}, pc' = [pc EXCEPT ![p] = to],
           deleted' \subseteq Schools, copy' \in [Requests -> Copies \cup {None}],
           \A q \in Requests \ {p} : copy'[q] = copy[q],
           UNCHANGED <<school, row, draft, sharing, renaming, ask, found, seen, turn, at>>
    PROVE  IInv'
<1>0. /\ \A q \in Requests \ {p} : pc'[q] = pc[q]
      /\ pc'[p] = to /\ pc' \in [Requests -> Steps]
  BY DEF IInv, TypeOK, RequestsTyped
<1>1. TypeOK'
  <2>1. RowsTyped' /\ LocksTyped' /\ PlacesTyped'
    BY DEF IInv, TypeOK, RowsTyped, LocksTyped, PlacesTyped, Line
  <2>2. RequestsTyped'
    BY <1>0 DEF IInv, TypeOK, RequestsTyped
  <2> QED  BY <2>1, <2>2 DEF TypeOK
<1>2. Locking'
  BY <1>0, Kinds DEF IInv, Locking, Asked, Starting, LocksExclude, RenameHolds
<1>3. Copying'
  <2>1. CopyIsCurrent'
    BY <1>0 DEF IInv, Copying, CopyIsCurrent
  <2>2. DraftIsCurrent' /\ PutWhereNamed'
    BY DEF IInv, Copying, DraftIsCurrent, PutWhereNamed
  <2>3. CopyBears'
    BY <1>0, Kinds DEF IInv, Copying, CopyBears, Line
  <2> QED  BY <2>1, <2>2, <2>3 DEF Copying
<1>4. Renaming'
  BY <1>0, Kinds DEF IInv, Renaming, RenameDraft, CascadeReaches, NamesAgree
<1> QED  BY <1>1, <1>2, <1>3, <1>4 DEF IInv

\* A deletion counts learners, then saves the school.
LEMMA DeleteStepKeeps ==
    ASSUME IInv, NEW d \in Deleters, DeleteStep(d)
    PROVE  IInv'
<1>0. d \in Requests \ (Renamers \cup Writers \cup Refreshers) /\ ask[d] # None
  BY Kinds DEF DeleteStep, CountLearners, DeleteSchool, IInv, Locking, Asked, Ends
<1>1. ask[d].school \in Schools
  BY <1>0, AskFacts DEF IInv
<1>2. PICK to \in Steps \ {"write", "find", "refresh"} : pc' = [pc EXCEPT ![d] = to]
  BY DEF DeleteStep, CountLearners, DeleteSchool, Steps, Ends
<1>3. /\ deleted' \subseteq Schools /\ copy' = copy
      /\ copy \in [Requests -> Copies \cup {None}]
  BY <1>1 DEF DeleteStep, CountLearners, DeleteSchool, IInv, TypeOK, RowsTyped, RequestsTyped
<1>4. UNCHANGED <<school, row, draft, sharing, renaming, ask, found, seen, turn, at>>
  BY DEF DeleteStep, CountLearners, DeleteSchool
<1> QED  BY <1>0, <1>2, <1>3, <1>4, PlainStepKeeps

\* A fees row is made with the name that was read.
LEMMA ReadForFeeKeeps ==
    ASSUME IInv, NEW f \in FeeMakers, ReadForFee(f)
    PROVE  IInv'
<1>0. f \in Requests \ (Renamers \cup Writers \cup Refreshers) /\ ask[f] # None
  BY Kinds DEF ReadForFee, IInv, Locking, Asked, Ends
<1>1. ask[f].school \in Schools
  BY <1>0, AskFacts DEF IInv
<1>2. [school |-> ask[f].school, name |-> school[ask[f].school]] \in Copies
  BY <1>1 DEF IInv, TypeOK, RowsTyped, Copies
<1>3. /\ copy' \in [Requests -> Copies \cup {None}]
      /\ \A q \in Requests \ {f} : copy'[q] = copy[q]
  BY <1>0, <1>2 DEF ReadForFee, IInv, TypeOK, RequestsTyped
<1>4. /\ pc' = [pc EXCEPT ![f] = "insert"] /\ deleted' = deleted
      /\ UNCHANGED <<school, row, draft, sharing, renaming, ask, found, seen, turn, at>>
  BY DEF ReadForFee
<1>5. "insert" \in Steps \ {"write", "find", "refresh"} /\ deleted \subseteq Schools
  BY DEF Steps, IInv, TypeOK, RowsTyped
<1> QED  BY <1>0, <1>3, <1>4, <1>5, PlainStepKeeps

\* The insert of a fees row touches no other table and no lock.
LEMMA InsertFeeKeeps ==
    ASSUME IInv, NEW f \in FeeMakers, InsertFee(f)
    PROVE  IInv'
<1>0. f \in Requests \ (Renamers \cup Writers) /\ ask[f] # None
  BY Kinds DEF InsertFee, IInv, Locking, Asked, Ends
<1>1. FeeKey(f) \in Keys /\ FeeKey(f)[1] = "schoolcontributedata"
  BY <1>0, AskFacts DEF IInv, FeeKey, Keys
<1>8. Home[FeeKey(f)] = None
  <2>1. ask \in Asks  BY DEF IInv, TypeOK, RequestsTyped
  <2>2. RowsAssumption  BY SchoolNamesAssumed
  <2>3. \A p \in Requests : ask[p] # None =>
          (p \in FeeMakers => Home[<<"schoolcontributedata", ask[p].fee>>] = None)
    BY <2>1, <2>2, Zenon DEF RowsAssumption
  <2> QED  BY <1>0, <2>3 DEF FeeKey
<1>2. /\ \A k \in Keys : k # FeeKey(f) => row'[k] = row[k]
      /\ row' \in [Keys -> Copies \cup {None}]
  BY <1>0, <1>1 DEF InsertFee, IInv, TypeOK, RowsTyped, RequestsTyped
<1>3. /\ pc'[f] = "done" /\ \A q \in Requests \ {f} : pc'[q] = pc[q]
      /\ pc' \in [Requests -> Steps]
  BY <1>0 DEF InsertFee, IInv, TypeOK, RequestsTyped, Steps, Ends
<1>4. TypeOK'
  <2>1. RowsTyped'
    BY <1>2 DEF InsertFee, IInv, TypeOK, RowsTyped
  <2>2. LocksTyped' /\ PlacesTyped' /\ RequestsTyped'
    BY <1>3 DEF InsertFee, IInv, TypeOK, LocksTyped, PlacesTyped, RequestsTyped, Line
  <2> QED  BY <2>1, <2>2 DEF TypeOK
<1>5. Locking'
  BY <1>0, <1>3, Kinds
  DEF InsertFee, IInv, Locking, Asked, Starting, LocksExclude, RenameHolds, Ends
<1>6. Copying'
  BY <1>0, <1>3, Kinds DEF InsertFee, IInv, Copying, CopyIsCurrent, DraftIsCurrent,
     CopyBears, PutWhereNamed, Line
<1>7. Renaming'
  BY <1>0, <1>1, <1>2, <1>3, <1>8, Kinds
  DEF InsertFee, IInv, Renaming, RenameDraft, CascadeReaches, NamesAgree
<1> QED  BY <1>4, <1>5, <1>6, <1>7 DEF IInv

\* A refresh shares its school and takes a copy of its name.
LEMMA ShareForRefreshKeeps ==
    ASSUME IInv, NEW u \in Refreshers, ShareForRefresh(u)
    PROVE  IInv'
<1> DEFINE s == ask[u].school
           c == [school |-> s, name |-> school[s]]
<1>0. u \in Requests \ (Renamers \cup Writers) /\ ask[u] # None
  BY Kinds DEF ShareForRefresh, IInv, Locking, Asked, Ends
<1>1. s \in Schools /\ c \in Copies /\ c # None
  <2>1. s \in Schools
    BY <1>0, AskFacts DEF IInv
  <2> QED  BY <2>1, Kinds DEF IInv, TypeOK, RowsTyped, Copies
<1>2. /\ renaming[s] = None /\ sharing' = [sharing EXCEPT ![s] = @ \cup {u}]
      /\ copy' = [copy EXCEPT ![u] = c]
  BY DEF ShareForRefresh, Shareable, Share
<1>3. /\ pc'[u] = "find" /\ copy'[u] = c
      /\ \A q \in Requests \ {u} : pc'[q] = pc[q] /\ copy'[q] = copy[q]
  BY <1>0, <1>2 DEF ShareForRefresh, IInv, TypeOK, RequestsTyped
<1>4. /\ \A t \in Schools : sharing[t] \subseteq sharing'[t]
      /\ u \in sharing'[s]
  BY <1>1, <1>2 DEF IInv, TypeOK, LocksTyped
<1>5. TypeOK'
  <2>1. RowsTyped' /\ LocksTyped' /\ PlacesTyped'
    BY <1>0, <1>1, <1>2
    DEF ShareForRefresh, IInv, TypeOK, RowsTyped, LocksTyped, PlacesTyped, Line
  <2>2. RequestsTyped'
    BY <1>0, <1>1, <1>2 DEF ShareForRefresh, IInv, TypeOK, RequestsTyped, Steps
  <2> QED  BY <2>1, <2>2 DEF TypeOK
<1>6. Locking'
  <2>1. Asked' /\ Starting'
    BY <1>0, <1>3, Kinds DEF ShareForRefresh, IInv, Locking, Asked, Starting
  <2>2. LocksExclude' /\ RenameHolds'
    BY <1>0, <1>2, <1>3, Kinds
    DEF ShareForRefresh, IInv, TypeOK, LocksTyped, Locking, LocksExclude, RenameHolds
  <2> QED  BY <2>1, <2>2 DEF Locking
<1>7. Copying'
  <2>1. CopyIsCurrent'
    <3> SUFFICES ASSUME NEW q \in Requests, pc'[q] \in {"write", "find", "refresh"}
                 PROVE  /\ copy'[q] # None
                        /\ q \in sharing'[copy'[q].school]
                        /\ copy'[q].name = school[copy'[q].school]
      BY DEF CopyIsCurrent, ShareForRefresh
    <3>1. CASE q = u
      BY <3>1, <1>1, <1>3, <1>4
    <3>2. CASE q # u
      BY <3>2, <1>3, <1>4 DEF IInv, TypeOK, RequestsTyped, Copying, CopyIsCurrent, Copies
    <3> QED  BY <3>1, <3>2
  <2>2. DraftIsCurrent'
    BY <1>4, Kinds DEF ShareForRefresh, IInv, TypeOK, RowsTyped, Copying, DraftIsCurrent, Copies
  <2>3. CopyBears' /\ PutWhereNamed'
    BY <1>0, <1>3, Kinds DEF ShareForRefresh, IInv, Copying, CopyBears, PutWhereNamed, Line
  <2> QED  BY <2>1, <2>2, <2>3 DEF Copying
<1>8. Renaming'
  BY <1>0, <1>3, Kinds
  DEF ShareForRefresh, IInv, Renaming, RenameDraft, CascadeReaches, NamesAgree
<1> QED  BY <1>5, <1>6, <1>7, <1>8 DEF IInv

\* A refresh finds finitely many rows, and saves them in some order.
LEMMA FoundOrder ==
    ASSUME NEW s \in Schools, NEW order \in SetToSeqs(FeesOf(s))
    PROVE  /\ order \in Seq(Keys) /\ \A n \in DOMAIN order : order[n] \in FeesOf(s)
           /\ FeesOf(s) # {} => 1 \in 1 .. Len(order)
<1> DEFINE mine == FeesOf(s)
           top == Cardinality(mine)
<1>1. IsFiniteSet(mine)
  <2>1. IsFiniteSet({"schoolcontributedata"} \X Fees)
    BY SchoolNamesAssumed, FS_Singleton, FS_Product DEF SchoolNamesAssumption
  <2> QED  BY <2>1, FS_Subset DEF FeesOf
<1>2. top \in Nat /\ (mine # {} => top # 0)
  BY <1>1, FS_CardinalityType, FS_EmptySet
<1>3. order \in [1 .. top -> mine]
  BY DEF SetToSeqs
<1>4. mine \subseteq Keys
  BY DEF FeesOf, Keys
<1> HIDE DEF mine, top
<1>5. order \in Seq(mine) /\ Len(order) = top /\ DOMAIN order = 1 .. top
  BY <1>2, <1>3
<1>6. order \in Seq(Keys) /\ \A n \in DOMAIN order : order[n] \in mine
  BY <1>3, <1>4, <1>5
<1>7. mine # {} => 1 \in 1 .. Len(order)
  BY <1>2, <1>5
<1> QED  BY <1>6, <1>7 DEF mine

\* What a refresh finds leaves rows, drafts and locks alone.
LEMMA FindFeesFacts ==
    ASSUME IInv, NEW u \in Refreshers, FindFees(u)
    PROVE  /\ u \in Requests \ (Renamers \cup Writers) /\ pc[u] = "find"
           /\ ask[u] # None /\ ask[u].school \in Schools
           /\ UNCHANGED <<school, deleted, row, draft, sharing, renaming, ask, seen, copy, turn, at>>
           /\ found' \in [Requests -> Seq(Keys)]
           /\ \A n \in DOMAIN found'[u] : found'[u][n] \in FeesOf(ask[u].school)
           /\ \A q \in Requests \ {u} : pc'[q] = pc[q] /\ found'[q] = found[q]
           /\ pc' \in [Requests -> Steps] /\ pc'[u] \in {"commit", "refresh"}
           /\ pc'[u] = "refresh" => 1 \in 1 .. Len(found'[u])
<1> DEFINE mine == FeesOf(ask[u].school)
<1>1. /\ u \in Requests \ (Renamers \cup Writers) /\ pc[u] = "find" /\ ask[u] # None
      /\ UNCHANGED <<school, deleted, row, draft, sharing, renaming, ask, seen, copy, turn, at>>
  BY Kinds DEF FindFees, IInv, Locking, Asked, Ends
<1>2. ask[u].school \in Schools
  BY <1>1, AskFacts DEF IInv
<1>3. PICK order \in SetToSeqs(mine) : found' = [found EXCEPT ![u] = order]
  BY DEF FindFees
<1>4. pc' = [pc EXCEPT ![u] = IF mine = {} THEN "commit" ELSE "refresh"]
  BY DEF FindFees
<1>5. /\ order \in Seq(Keys) /\ \A n \in DOMAIN order : order[n] \in mine
      /\ mine # {} => 1 \in 1 .. Len(order)
  BY <1>2, FoundOrder
<1> HIDE DEF mine
<1>6. /\ found' \in [Requests -> Seq(Keys)] /\ found'[u] = order
      /\ \A q \in Requests \ {u} : found'[q] = found[q]
  BY <1>1, <1>3, <1>5 DEF IInv, TypeOK, PlacesTyped
<1>7. /\ pc' \in [Requests -> Steps] /\ pc'[u] = IF mine = {} THEN "commit" ELSE "refresh"
      /\ \A q \in Requests \ {u} : pc'[q] = pc[q]
  BY <1>1, <1>4 DEF IInv, TypeOK, RequestsTyped, Steps
<1> QED  BY <1>1, <1>2, <1>5, <1>6, <1>7 DEF mine

\* A refresh finds the fees rows of its school.
LEMMA FindFeesKeeps ==
    ASSUME IInv, NEW u \in Refreshers, FindFees(u)
    PROVE  IInv'
<1>1. /\ u \in Requests \ (Renamers \cup Writers) /\ pc[u] = "find" /\ ask[u] # None
      /\ UNCHANGED <<school, deleted, row, draft, sharing, renaming, ask, seen, copy, turn, at>>
      /\ found' \in [Requests -> Seq(Keys)]
      /\ \A q \in Requests \ {u} : pc'[q] = pc[q] /\ found'[q] = found[q]
      /\ pc' \in [Requests -> Steps] /\ pc'[u] \in {"commit", "refresh"}
      /\ pc'[u] = "refresh" => 1 \in 1 .. Len(found'[u])
  BY FindFeesFacts
<1>2. TypeOK'
  <2>1. RowsTyped' /\ LocksTyped' /\ RequestsTyped'
    BY <1>1 DEF IInv, TypeOK, RowsTyped, LocksTyped, RequestsTyped
  <2>2. PlacesTyped'
    BY <1>1 DEF IInv, TypeOK, PlacesTyped, Line
  <2> QED  BY <2>1, <2>2 DEF TypeOK
<1>3. Locking'
  <2>1. at[u] = 1
    BY <1>1 DEF IInv, Locking, Starting
  <2>2. Starting'
    BY <1>1, <2>1, Kinds DEF IInv, Locking, Starting
  <2>3. Asked' /\ LocksExclude' /\ RenameHolds'
    BY <1>1, Kinds DEF IInv, Locking, Asked, LocksExclude, RenameHolds
  <2> QED  BY <2>2, <2>3 DEF Locking
<1>6. UNCHANGED <<school, row, draft, sharing, ask, copy, turn>>
  BY <1>1
<1>7. \A q \in Requests : pc'[q] \in {"write", "find", "refresh"} =>
         pc[q] \in {"write", "find", "refresh"}
  BY <1>1
<1>8. \A q \in Renamers \cup Writers : pc'[q] = pc[q]
  BY <1>1, Kinds
<1>4. Copying'
  <2>1. CopyIsCurrent'
    BY <1>6, <1>7 DEF IInv, Copying, CopyIsCurrent
  <2>2. DraftIsCurrent' /\ PutWhereNamed'
    BY <1>6 DEF IInv, Copying, DraftIsCurrent, PutWhereNamed
  <2>3. CopyBears'
    BY <1>6, <1>8, Kinds DEF IInv, Copying, CopyBears, Line
  <2> QED  BY <2>1, <2>2, <2>3 DEF Copying
<1>5. Renaming'
  <2>1. RenameDraft' /\ NamesAgree'
    BY <1>6, <1>8 DEF IInv, Renaming, RenameDraft, NamesAgree
  <2>2. CascadeReaches'
    BY <1>6, <1>8 DEF IInv, Renaming, CascadeReaches
  <2> QED  BY <2>1, <2>2 DEF Renaming
<1> QED  BY <1>2, <1>3, <1>4, <1>5 DEF IInv

\* A save of a refresh adds the row it is at to the draft.
LEMMA RefreshFeeFacts ==
    ASSUME IInv, NEW u \in Refreshers, RefreshFee(u)
    PROVE  LET k == found[u][at[u]] IN
           /\ u \in Requests \ (Renamers \cup Writers) /\ pc[u] = "refresh" /\ ask[u] # None
           /\ at[u] \in DOMAIN found[u] /\ k \in Keys /\ Free(u, k)
           /\ copy[u] \in Copies /\ u \in sharing[copy[u].school]
           /\ copy[u].name = school[copy[u].school]
           /\ UNCHANGED <<school, deleted, row, sharing, renaming, ask, found, seen, copy, turn>>
           /\ DOMAIN draft' = Requests /\ DOMAIN draft'[u] = DOMAIN draft[u] \cup {k}
           /\ draft'[u][k] = copy[u]
           /\ \A x \in DOMAIN draft[u] \ {k} : draft'[u][x] = draft[u][x]
           /\ \A q \in Requests \ {u} : pc'[q] = pc[q] /\ draft'[q] = draft[q] /\ at'[q] = at[q]
           /\ pc' \in [Requests -> Steps] /\ at' \in [Requests -> Nat]
           /\ pc'[u] \in {"refresh", "commit"}
           /\ pc'[u] = "refresh" => at'[u] \in 1 .. Len(found[u])
<1> DEFINE k == found[u][at[u]]
<1>1. /\ u \in Requests \ (Renamers \cup Writers) /\ pc[u] = "refresh" /\ ask[u] # None
      /\ UNCHANGED <<school, deleted, row, sharing, renaming, ask, found, seen, copy, turn>>
      /\ TypeOK /\ Free(u, k)
  BY Kinds DEF RefreshFee, IInv, Locking, Asked, Ends
<1>2. found[u] \in Seq(Keys) /\ at[u] \in 1 .. Len(found[u])
  BY <1>1 DEF IInv, Locking, Starting, TypeOK, PlacesTyped
<1>3. at[u] \in DOMAIN found[u] /\ k \in Keys /\ Len(found[u]) \in Nat
  BY <1>2
<1>4. /\ copy[u] \in Copies /\ u \in sharing[copy[u].school]
      /\ copy[u].name = school[copy[u].school]
  BY <1>1 DEF IInv, TypeOK, RequestsTyped, Copying, CopyIsCurrent
<1>5. draft' = [draft EXCEPT ![u] = Overlay(@, [x \in {k} |-> copy[u]])]
  BY DEF RefreshFee
<1>6. /\ at' = [at EXCEPT ![u] = @ + 1]
      /\ pc' = [pc EXCEPT ![u] = IF at[u] < Len(found[u]) THEN "refresh" ELSE "commit"]
  BY DEF RefreshFee
<1>7. at \in [Requests -> Nat] /\ pc \in [Requests -> Steps]
  BY <1>1 DEF TypeOK, PlacesTyped, RequestsTyped
<1>8. /\ \A q \in Requests \ {u} : pc'[q] = pc[q] /\ at'[q] = at[q]
      /\ pc' \in [Requests -> Steps] /\ at' \in [Requests -> Nat]
      /\ pc'[u] \in {"refresh", "commit"}
      /\ pc'[u] = "refresh" => at'[u] \in 1 .. Len(found[u])
  BY <1>1, <1>2, <1>3, <1>6, <1>7 DEF Steps
<1> HIDE DEF k
<1>9. /\ DOMAIN draft' = Requests
      /\ \A q \in Requests \ {u} : draft'[q] = draft[q]
      /\ DOMAIN draft'[u] = DOMAIN draft[u] \cup {k}
      /\ draft'[u][k] = copy[u]
      /\ \A x \in DOMAIN draft[u] \ {k} : draft'[u][x] = draft[u][x]
  <2>1. TypeOK /\ u \in Requests /\ k \in Keys /\ copy[u] \in Copies
    BY <1>1, <1>3, <1>4
  <2> QED  BY <2>1, <1>5, DraftGrows
<1> QED  BY <1>1, <1>3, <1>4, <1>8, <1>9 DEF k

\* A refresh writes its copy to the next of the rows it found.
LEMMA RefreshFeeKeeps ==
    ASSUME IInv, NEW u \in Refreshers, RefreshFee(u)
    PROVE  IInv'
<1> DEFINE k == found[u][at[u]]
<1>1. /\ u \in Requests \ (Renamers \cup Writers) /\ pc[u] = "refresh" /\ ask[u] # None
      /\ k \in Keys /\ copy[u] \in Copies /\ u \in sharing[copy[u].school]
      /\ copy[u].name = school[copy[u].school]
      /\ UNCHANGED <<school, deleted, row, sharing, renaming, ask, found, seen, copy, turn>>
      /\ DOMAIN draft' = Requests /\ DOMAIN draft'[u] = DOMAIN draft[u] \cup {k}
      /\ draft'[u][k] = copy[u]
      /\ \A x \in DOMAIN draft[u] \ {k} : draft'[u][x] = draft[u][x]
      /\ \A q \in Requests \ {u} : pc'[q] = pc[q] /\ draft'[q] = draft[q] /\ at'[q] = at[q]
      /\ pc' \in [Requests -> Steps] /\ at' \in [Requests -> Nat]
      /\ pc'[u] \in {"refresh", "commit"}
      /\ pc'[u] = "refresh" => at'[u] \in 1 .. Len(found[u])
  BY RefreshFeeFacts
<1> HIDE DEF k
<1>2. TypeOK'
  <2>1. RowsTyped'
    <3>1. \A q \in Requests \ {u} : \A x \in DOMAIN draft'[q] :
             x \in Keys /\ draft'[q][x] \in Copies
      BY <1>1 DEF IInv, TypeOK, RowsTyped
    <3>2. \A x \in DOMAIN draft'[u] : x \in Keys /\ draft'[u][x] \in Copies
      <4>1. \A x \in DOMAIN draft[u] : x \in Keys /\ draft[u][x] \in Copies
        BY <1>1 DEF IInv, TypeOK, RowsTyped
      <4> QED  BY <1>1, <4>1
    <3>3. /\ UNCHANGED <<school, deleted, row>> /\ DOMAIN draft' = Requests
          /\ school \in [Schools -> Texts] /\ deleted \subseteq Schools
          /\ row \in [Keys -> Copies \cup {None}]
      BY <1>1 DEF IInv, TypeOK, RowsTyped
    <3> QED  BY <3>1, <3>2, <3>3 DEF RowsTyped
  <2>2. LocksTyped' /\ RequestsTyped'
    BY <1>1 DEF IInv, TypeOK, LocksTyped, RequestsTyped
  <2>3. PlacesTyped'
    BY <1>1, Kinds DEF IInv, TypeOK, PlacesTyped, Line
  <2> QED  BY <2>1, <2>2, <2>3 DEF TypeOK
<1>3. Locking'
  <2>1. Starting'
    BY <1>1, Kinds DEF IInv, Locking, Starting
  <2>2. Asked' /\ LocksExclude' /\ RenameHolds'
    BY <1>1, Kinds DEF IInv, Locking, Asked, LocksExclude, RenameHolds
  <2> QED  BY <2>1, <2>2 DEF Locking
<1>4. Copying'
  <2>1. CopyIsCurrent' /\ CopyBears'
    BY <1>1, Kinds DEF IInv, Copying, CopyIsCurrent, CopyBears, Line
  <2>2. DraftIsCurrent'
    <3> SUFFICES ASSUME NEW q \in Requests \ Renamers, NEW x \in DOMAIN draft'[q]
                 PROVE  /\ q \in sharing[draft'[q][x].school]
                        /\ draft'[q][x].name = school[draft'[q][x].school]
      BY <1>1 DEF DraftIsCurrent
    <3>1. CASE q = u /\ x = k
      BY <3>1, <1>1
    <3>2. CASE x \in DOMAIN draft[q] /\ draft'[q][x] = draft[q][x]
      BY <3>2 DEF IInv, Copying, DraftIsCurrent
    <3> QED  BY <3>1, <3>2, <1>1
  <2>3. PutWhereNamed'
    <3>1. \A q \in Hirers \cup Movers : draft'[q] = draft[q]
      BY <1>1, Kinds
    <3>2. school' = school /\ ask' = ask
      BY <1>1
    <3> QED  BY <3>1, <3>2 DEF IInv, Copying, PutWhereNamed
  <2> QED  BY <2>1, <2>2, <2>3 DEF Copying
<1>5. Renaming'
  <2>1. \A r \in Renamers : pc'[r] = pc[r] /\ draft'[r] = draft[r]
    BY <1>1, Kinds
  <2> QED  BY <1>1, <2>1 DEF IInv, Renaming, RenameDraft, CascadeReaches, NamesAgree
<1> QED  BY <1>2, <1>3, <1>4, <1>5 DEF IInv

-----------------------------------------------------------------------------
\* What a commit leaves: the rows of the draft over the others, the request
\* ended, its locks released.
LEMMA CommitFacts ==
    ASSUME TypeOK, NEW p \in Requests, Commit(p)
    PROVE  /\ pc[p] = "commit" /\ pc'[p] = "done"
           /\ \A q \in Requests \ {p} : pc'[q] = pc[q] /\ draft'[q] = draft[q]
           /\ DOMAIN draft' = Requests /\ DOMAIN draft'[p] = {}
           /\ pc' \in [Requests -> Steps]
           /\ \A k \in Keys : row'[k] = IF k \in DOMAIN draft[p] THEN draft[p][k] ELSE row[k]
           /\ row' \in [Keys -> Copies \cup {None}]
           /\ \A s \in Schools : sharing'[s] = sharing[s] \ {p}
           /\ \A s \in Schools :
                renaming'[s] = IF renaming[s] = p THEN None ELSE renaming[s]
           /\ LocksTyped'
           /\ UNCHANGED <<deleted, ask, found, seen, copy, turn, at>>
<1>1. /\ pc[p] = "commit" /\ row' = Overlay(row, draft[p]) /\ End(p, "done")
  BY DEF Commit
<1>2. /\ DOMAIN row = Keys /\ DOMAIN draft[p] \subseteq Keys
      /\ row \in [Keys -> Copies \cup {None}]
      /\ \A k \in DOMAIN draft[p] : draft[p][k] \in Copies
  BY DEF TypeOK, RowsTyped
<1>3. /\ row' = [k \in Keys |-> IF k \in DOMAIN draft[p] THEN draft[p][k] ELSE row[k]]
  BY <1>1, <1>2 DEF Overlay
<1>4. row' \in [Keys -> Copies \cup {None}]
  BY <1>2, <1>3
<1>5. LocksTyped'
  BY <1>1 DEF End, TypeOK, LocksTyped
<1>6. pc' \in [Requests -> Steps]
  BY <1>1 DEF End, TypeOK, RequestsTyped, Steps, Ends
<1>7. /\ pc'[p] = "done"
      /\ \A q \in Requests \ {p} : pc'[q] = pc[q] /\ draft'[q] = draft[q]
      /\ DOMAIN draft' = Requests /\ DOMAIN draft'[p] = {}
  BY <1>1 DEF End, TypeOK, RowsTyped, RequestsTyped, NoRows
<1>8. /\ \A s \in Schools : sharing'[s] = sharing[s] \ {p}
      /\ \A s \in Schools :
           renaming'[s] = IF renaming[s] = p THEN None ELSE renaming[s]
      /\ UNCHANGED <<deleted, ask, found, seen, copy, turn, at>>
  BY <1>1 DEF End
<1> QED  BY <1>1, <1>3, <1>4, <1>5, <1>6, <1>7, <1>8

\* Only a rename that commits changes a school, to its new name.
LEMMA SchoolChanges ==
    ASSUME TypeOK, NEW p \in Requests, ask[p] # None, Commit(p)
    PROVE  /\ school' \in [Schools -> Texts]
           /\ p \notin Renamers => school' = school
           /\ p \in Renamers => /\ school'[ask[p].school] = ask[p].text
                                /\ \A s \in Schools \ {ask[p].school} :
                                     school'[s] = school[s]
<1>1. school \in [Schools -> Texts]
  BY DEF TypeOK, RowsTyped
<1>2. p \in Renamers => ask[p].school \in Schools /\ ask[p].text \in Texts
  BY AskFacts
<1> QED  BY <1>1, <1>2 DEF Commit

\* The types and the locks after any commit.
LEMMA CommitKeepsLocking ==
    ASSUME IInv, NEW p \in Requests, Commit(p)
    PROVE  TypeOK' /\ Locking'
<1>0. TypeOK
  BY DEF IInv
<1>1. pc[p] = "commit"
  BY DEF Commit
<1>2. ask[p] # None
  BY <1>1 DEF IInv, Locking, Asked, Ends
<1>3. TypeOK'
  <2>1. RowsTyped'
    BY <1>0, <1>2, CommitFacts, SchoolChanges DEF TypeOK, RowsTyped
  <2>2. RequestsTyped' /\ PlacesTyped'
    BY <1>0, CommitFacts DEF TypeOK, RequestsTyped, PlacesTyped, Line
  <2> QED  BY <1>0, <2>1, <2>2, CommitFacts DEF TypeOK
<1>4. Locking'
  <2>1. Asked' /\ Starting'
    BY <1>0, CommitFacts, Kinds DEF IInv, Locking, Asked, Starting, Ends
  <2>2. LocksExclude'
    BY <1>0, CommitFacts DEF IInv, Locking, LocksExclude
  <2>3. RenameHolds'
    <3> SUFFICES ASSUME NEW r \in Renamers, pc'[r] \in {"cascade", "commit"}
                 PROVE  renaming'[ask[r].school] = r
      BY <1>0, CommitFacts DEF RenameHolds
    <3>1. r # p /\ pc[r] \in {"cascade", "commit"} /\ r \in Requests
      BY <1>0, CommitFacts, Kinds
    <3>2. ask[r].school \in Schools
      BY <1>0, <3>1, AskFacts DEF IInv, Locking, Asked, Ends
    <3>3. renaming[ask[r].school] = r
      BY <3>1 DEF IInv, Locking, RenameHolds
    <3> QED  BY <1>0, <3>1, <3>2, <3>3, CommitFacts
  <2> QED  BY <2>1, <2>2, <2>3 DEF Locking
<1> QED  BY <1>3, <1>4

\* No other request shares the school whose name a commit changes, so what the
\* others have copied is still its name.
LEMMA CommitKeepsCopying ==
    ASSUME IInv, NEW p \in Requests, Commit(p)
    PROVE  Copying'
<1>0. TypeOK /\ pc[p] = "commit" /\ ask[p] # None
  BY DEF Commit, IInv, Locking, Asked, Ends
<1>1. \A q \in Requests \ {p} : \A s \in Schools :
        q \in sharing[s] => q \in sharing'[s] /\ school'[s] = school[s]
  <2> SUFFICES ASSUME NEW q \in Requests \ {p}, NEW s \in Schools, q \in sharing[s]
               PROVE  q \in sharing'[s] /\ school'[s] = school[s]
    OBVIOUS
  <2>1. q \in sharing'[s]
    BY <1>0, CommitFacts
  <2>2. CASE p \in Renamers
    <3>1. renaming[ask[p].school] = p /\ ask[p].school \in Schools /\ p # None
      BY <1>0, <2>2, Kinds, AskFacts DEF IInv, Locking, RenameHolds
    <3>2. s # ask[p].school
      BY <3>1 DEF IInv, Locking, LocksExclude
    <3> QED  BY <1>0, <2>1, <2>2, <3>2, SchoolChanges
  <2>3. CASE p \notin Renamers
    BY <1>0, <2>1, <2>3, SchoolChanges
  <2> QED  BY <2>2, <2>3
<1>2. CopyIsCurrent'
  <2> SUFFICES ASSUME NEW q \in Requests, pc'[q] \in {"write", "find", "refresh"}
               PROVE  /\ copy[q] # None
                      /\ q \in sharing'[copy[q].school]
                      /\ copy[q].name = school'[copy[q].school]
    BY <1>0, CommitFacts DEF CopyIsCurrent
  <2>1. q # p /\ pc[q] \in {"write", "find", "refresh"}
    BY <1>0, CommitFacts
  <2>2. copy[q] \in Copies /\ copy[q].school \in Schools
    BY <2>1 DEF IInv, TypeOK, RequestsTyped, Copying, CopyIsCurrent, Copies
  <2> QED  BY <1>1, <2>1, <2>2 DEF IInv, Copying, CopyIsCurrent
<1>3. \A q \in Requests : \A k \in DOMAIN draft'[q] :
        /\ q # p /\ k \in DOMAIN draft[q] /\ draft'[q][k] = draft[q][k]
        /\ draft[q][k].school \in Schools
  <2>1. \A q \in Requests : \A k \in DOMAIN draft'[q] :
          q # p /\ k \in DOMAIN draft[q] /\ draft'[q][k] = draft[q][k]
    BY <1>0, CommitFacts
  <2>2. \A q \in Requests : \A k \in DOMAIN draft[q] : draft[q][k].school \in Schools
    BY DEF IInv, TypeOK, RowsTyped, Copies
  <2> QED  BY <2>1, <2>2
<1>4. DraftIsCurrent'
  BY <1>1, <1>3 DEF IInv, Copying, DraftIsCurrent
<1>5. CopyBears'
  BY <1>0, CommitFacts, Kinds DEF IInv, Copying, CopyBears, Line
<1>6. PutWhereNamed'
  <2> SUFFICES ASSUME NEW q \in Hirers \cup Movers, NEW k \in DOMAIN draft'[q]
               PROVE  \E i \in DOMAIN ask[q] :
                        /\ \E j \in DOMAIN ask[q][i].keys : ask[q][i].keys[j] = k
                        /\ Normal[school'[draft'[q][k].school]] = Normal[ask[q][i].given]
    BY <1>0, CommitFacts DEF PutWhereNamed
  <2>1. q \in Requests \ Renamers
    BY Kinds
  <2>2. school'[draft'[q][k].school] = school[draft[q][k].school] /\ k \in DOMAIN draft[q]
    BY <2>1, <1>1, <1>3 DEF IInv, Copying, DraftIsCurrent
  <2> QED  BY <2>2 DEF IInv, Copying, PutWhereNamed
<1> QED  BY <1>2, <1>4, <1>5, <1>6 DEF Copying

\* What a commit writes agrees with the schools after it, and no row of a
\* school under another rename is added by it.
LEMMA CommitKeepsRenaming ==
    ASSUME IInv, NEW p \in Requests, Commit(p)
    PROVE  Renaming'
<1>0. TypeOK /\ pc[p] = "commit" /\ ask[p] # None
  BY DEF Commit, IInv, Locking, Asked, Ends
<1>1. RenameDraft'
  <2> SUFFICES ASSUME NEW r \in Renamers, NEW k \in DOMAIN draft'[r]
               PROVE  /\ pc'[r] \in {"cascade", "commit"}
                      /\ draft'[r][k] = [school |-> ask[r].school, name |-> ask[r].text]
    BY <1>0, CommitFacts DEF RenameDraft
  <2>1. r # p /\ r \in Requests
    BY <1>0, CommitFacts, Kinds
  <2> QED  BY <1>0, <2>1, CommitFacts DEF IInv, Renaming, RenameDraft
<1>2. NamesAgree'
  <2> SUFFICES ASSUME NEW k \in Keys, row'[k] # None,
                      k[1] = "schoolcontributedata" => Home[k] # None
               PROVE  row'[k].name = school'[row'[k].school]
    BY DEF NamesAgree
  <2>1. CASE p \in Renamers
    <3>1. CASE k \in DOMAIN draft[p]
      <4>1. row'[k] = [school |-> ask[p].school, name |-> ask[p].text]
        BY <1>0, <2>1, <3>1, CommitFacts DEF IInv, Renaming, RenameDraft
      <4> QED  BY <1>0, <2>1, <4>1, SchoolChanges
    <3>2. CASE k \notin DOMAIN draft[p]
      <4>1. row'[k] = row[k] /\ row[k].school \in Schools
        BY <1>0, <3>2, CommitFacts DEF TypeOK, RowsTyped, Copies
      <4>2. row[k].name = school[row[k].school]
        BY <4>1 DEF IInv, Renaming, NamesAgree
      <4>3. row[k].school = ask[p].school => school[ask[p].school] = ask[p].text
        BY <1>0, <2>1, <3>2, <4>1 DEF IInv, Renaming, CascadeReaches
      <4> QED  BY <1>0, <2>1, <4>1, <4>2, <4>3, SchoolChanges
    <3> QED  BY <3>1, <3>2
  <2>2. CASE p \notin Renamers
    <3>1. school' = school
      BY <1>0, <2>2, SchoolChanges
    <3>2. row'[k] = IF k \in DOMAIN draft[p] THEN draft[p][k] ELSE row[k]
      BY <1>0, CommitFacts
    <3> QED
      BY <2>2, <3>1, <3>2 DEF IInv, Renaming, NamesAgree, Copying, DraftIsCurrent
  <2> QED  BY <2>1, <2>2
<1>3. CascadeReaches'
  <2> SUFFICES ASSUME NEW r \in Renamers, pc'[r] \in {"cascade", "commit"}, NEW k \in Keys,
                      row'[k] # None, row'[k].school = ask[r].school,
                      k \notin DOMAIN draft'[r],
                      k[1] = "schoolcontributedata" => Home[k] # None
               PROVE  \/ /\ pc'[r] = "cascade"
                         /\ \E i \in DOMAIN Tables : i >= turn[r] /\ Tables[i] = k[1]
                      \/ pc'[r] = "commit" /\ school'[ask[r].school] = ask[r].text
    BY <1>0, CommitFacts DEF CascadeReaches
  <2>1. r # p /\ r \in Requests /\ pc'[r] = pc[r] /\ draft'[r] = draft[r]
    BY <1>0, CommitFacts, Kinds
  <2>2. /\ renaming[ask[r].school] = r /\ ask[r].school \in Schools
        /\ sharing[ask[r].school] = {} /\ r # None
    <3>1. renaming[ask[r].school] = r /\ r # None
      BY <2>1, Kinds DEF IInv, Locking, RenameHolds
    <3>2. ask[r].school \in Schools
      BY <1>0, <2>1, AskFacts DEF IInv, Locking, Asked, Ends
    <3> QED  BY <3>1, <3>2 DEF IInv, Locking, LocksExclude
  <2>3. p \in Renamers => ask[p].school # ask[r].school
    BY <1>0, <2>1, <2>2 DEF IInv, Locking, RenameHolds
  <2>4. school'[ask[r].school] = school[ask[r].school]
    BY <1>0, <2>2, <2>3, SchoolChanges
  <2>5. k \notin DOMAIN draft[p]
    <3> SUFFICES ASSUME k \in DOMAIN draft[p]  PROVE FALSE
      OBVIOUS
    <3>1. row'[k] = draft[p][k]
      BY <1>0, CommitFacts
    <3>2. CASE p \in Renamers
      <4>1. draft[p][k] = [school |-> ask[p].school, name |-> ask[p].text]
        BY <3>2 DEF IInv, Renaming, RenameDraft
      <4>2. row'[k].school = ask[p].school
        BY <3>1, <4>1
      <4> QED  BY <2>3, <3>2, <4>2
    <3>3. CASE p \notin Renamers
      BY <2>2, <3>1, <3>3 DEF IInv, Copying, DraftIsCurrent
    <3> QED  BY <3>2, <3>3
  <2>6. row'[k] = row[k]
    BY <1>0, <2>5, CommitFacts
  <2> QED  BY <2>1, <2>4, <2>6 DEF IInv, Renaming, CascadeReaches
<1> QED  BY <1>1, <1>2, <1>3 DEF Renaming

-----------------------------------------------------------------------------
\* The schools, rows and requests there are at first satisfy the invariant.
LEMMA InitInvariant ==
    ASSUME Init
    PROVE  IInv
<1>1. \A p \in Requests : /\ copy[p] = None /\ turn[p] = 1 /\ at[p] = 1
                          /\ draft[p] = NoRows /\ DOMAIN draft[p] = {}
                          /\ pc[p] = IF ask[p] = None THEN "done" ELSE FirstStep(p)
  BY DEF Init, NoRows
<1>2. \A p \in Requests :
        FirstStep(p) \in {"begin", "lock", "read", "share", "count"}
  BY DEF FirstStep, Requests
<1>3. TypeOK
  <2>1. RowsTyped
    <3>1. row \in [Keys -> Copies \cup {None}]
      BY SchoolNamesAssumed DEF Init, SchoolNamesAssumption, Copies
    <3> QED  BY <1>1, <3>1, SchoolNamesAssumed DEF Init, SchoolNamesAssumption, RowsTyped
  <2>2. LocksTyped
    BY DEF Init, LocksTyped
  <2>3. RequestsTyped
    BY <1>2, SchoolNamesAssumed
    DEF Init, RequestsTyped, Steps, Ends, SchoolNamesAssumption
  <2>4. PlacesTyped
    <3>1. turn \in [Requests -> Nat] /\ at \in [Requests -> Nat]
      BY DEF Init
    <3>2. \A p \in Renamers : turn[p] \in DOMAIN Tables
      BY <1>1, Kinds, TableFacts
    <3>3. ASSUME NEW p \in Writers, ask[p] # None
          PROVE  turn[p] \in DOMAIN ask[p] /\ at[p] \in DOMAIN Line(p).keys
      <4>1. p \in Requests /\ ask \in Asks
        BY Kinds DEF Init
      <4>2. /\ ask[p] \in Seq(Lines) /\ ask[p] # <<>>
            /\ \A i \in DOMAIN ask[p] : ask[p][i].keys # <<>>
        BY <3>3, <4>1, SchoolNamesAssumed, Zenon DEF AsksAssumption
      <4>3. 1 \in DOMAIN ask[p] /\ ask[p][1] \in Lines
        BY <4>2
      <4>4. ask[p][1].keys \in Seq(Keys) /\ ask[p][1].keys # <<>>
        BY <4>2, <4>3 DEF Lines
      <4> QED  BY <1>1, <4>1, <4>3, <4>4 DEF Line
    <3>4. found \in [Requests -> Seq(Keys)]
      BY DEF Init
    <3> QED  BY <3>1, <3>2, <3>3, <3>4 DEF PlacesTyped
  <2> QED  BY <2>1, <2>2, <2>3, <2>4 DEF TypeOK
<1>4. Locking
  BY <1>1, <1>2, Kinds
  DEF Init, Locking, Asked, Starting, LocksExclude, RenameHolds, Ends
<1>5. Copying
  BY <1>1, <1>2, Kinds
  DEF Copying, CopyIsCurrent, DraftIsCurrent, CopyBears, PutWhereNamed
<1>6. Renaming
  <2>1. RenameDraft /\ CascadeReaches
    BY <1>1, <1>2, Kinds DEF RenameDraft, CascadeReaches
  <2>2. NamesAgree
    BY SchoolNamesAssumed DEF Init, NamesAgree, SchoolNamesAssumption
  <2> QED  BY <2>1, <2>2 DEF Renaming
<1> QED  BY <1>3, <1>4, <1>5, <1>6 DEF IInv

\* Every step of a request, of a failing query or of the database keeps it.
LEMMA NextInvariant ==
    ASSUME IInv, [Next]_vars
    PROVE  IInv'
<1>1. ASSUME NEW p \in Requests, Commit(p)  PROVE IInv'
  BY <1>1, CommitKeepsLocking, CommitKeepsCopying, CommitKeepsRenaming DEF IInv
<1>2. ASSUME NEW p \in Requests, NEW how \in Ends, Rollback(p, how)  PROVE IInv'
  BY <1>2, RollbackKeeps
<1>3. "refused" \in Ends /\ "failed" \in Ends
  BY DEF Ends
<1>4. ASSUME NEW p \in Writers, WriterStep(p)  PROVE IInv'
  <2>1. p \in Requests  BY Kinds
  <2>2. CASE Begin(p)  BY <2>2, BeginKeeps
  <2>3. CASE RefuseDeleted(p)  BY <2>1, <2>3, <1>2, <1>3 DEF RefuseDeleted
  <2>9. CASE RefuseUnknown(p)  BY <2>1, <2>9, <1>2, <1>3 DEF RefuseUnknown
  <2>4. CASE Check(p)  BY <2>4, CheckKeeps
  <2>5. CASE Resolve(p)  BY <2>5, ResolveKeeps
  <2>6. CASE RefuseSchool(p)  BY <2>1, <2>6, <1>2, <1>3 DEF RefuseSchool
  <2>7. CASE Write(p)  BY <2>7, WriteKeeps
  <2>8. CASE Commit(p)  BY <2>1, <2>8, <1>1
  <2> QED  BY <1>4, <2>2, <2>3, <2>9, <2>4, <2>5, <2>6, <2>7, <2>8 DEF WriterStep
<1>5. ASSUME NEW r \in Renamers, RenameStep(r)  PROVE IInv'
  <2>1. r \in Requests  BY Kinds
  <2>2. CASE LockSchool(r)  BY <2>2, LockSchoolKeeps
  <2>3. CASE RefuseRename(r)  BY <2>1, <2>3, <1>2, <1>3 DEF RefuseRename
  <2>4. CASE Cascade(r)  BY <2>4, CascadeKeeps
  <2>5. CASE CascadeNext(r)  BY <2>5, CascadeNextKeeps
  <2>6. CASE Commit(r)  BY <2>1, <2>6, <1>1
  <2> QED  BY <1>5, <2>2, <2>3, <2>4, <2>5, <2>6 DEF RenameStep
<1>6. ASSUME NEW f \in FeeMakers, FeeStep(f)  PROVE IInv'
  <2>1. f \in Requests  BY Kinds
  <2>2. CASE ReadForFee(f)  BY <2>2, ReadForFeeKeeps
  <2>3. CASE RefuseFee(f)  BY <2>1, <2>3, <1>2, <1>3 DEF RefuseFee
  <2>4. CASE InsertFee(f)  BY <2>4, InsertFeeKeeps
  <2> QED  BY <1>6, <2>2, <2>3, <2>4 DEF FeeStep
<1>7. ASSUME NEW u \in Refreshers, RefreshStep(u)  PROVE IInv'
  <2>1. u \in Requests  BY Kinds
  <2>2. CASE ShareForRefresh(u)  BY <2>2, ShareForRefreshKeeps
  <2>3. CASE FindFees(u)  BY <2>3, FindFeesKeeps
  <2>5. CASE RefreshFee(u)  BY <2>5, RefreshFeeKeeps
  <2>4. CASE Commit(u)  BY <2>1, <2>4, <1>1
  <2> QED  BY <1>7, <2>2, <2>3, <2>4, <2>5 DEF RefreshStep
<1>8. ASSUME NEW d \in Deleters, DeleteStep(d)  PROVE IInv'
  BY <1>8, DeleteStepKeeps
<1>9. ASSUME NEW p \in Requests, Victim(p) \/ Fail(p)  PROVE IInv'
  BY <1>9, <1>2, <1>3 DEF Victim, Fail
<1>10. CASE UNCHANGED vars
  <2>1. TypeOK'
    BY <1>10 DEF vars, IInv, TypeOK, RowsTyped, LocksTyped, RequestsTyped, PlacesTyped, Line
  <2>2. Locking'
    BY <1>10 DEF vars, IInv, Locking, Asked, Starting, LocksExclude, RenameHolds
  <2>3. Copying'
    BY <1>10
    DEF vars, IInv, Copying, CopyIsCurrent, DraftIsCurrent, CopyBears, PutWhereNamed, Line
  <2>4. Renaming'
    BY <1>10 DEF vars, IInv, Renaming, RenameDraft, CascadeReaches, NamesAgree
  <2> QED  BY <2>1, <2>2, <2>3, <2>4 DEF IInv
<1> QED  BY <1>4, <1>5, <1>6, <1>7, <1>8, <1>9, <1>10 DEF Next, Progress

\* IInv holds in every state that any schools, rows and requests reach.
THEOREM Invariant == Spec => []IInv
BY InitInvariant, NextInvariant, PTL DEF Spec

\* Every variable keeps its type.
THEOREM TypeCorrect == Spec => []TypeOK
BY Invariant, PTL DEF IInv

\* A committed learner, login or class always carries its school's name, and
\* so does a fees row that was there at first, however renames, creations,
\* moves and refreshes overlap and fail.
THEOREM CopiesAgree == Spec => []NamesAgree
BY Invariant, PTL DEF IInv, Renaming

\* What a request that names its school has written is for a school that
\* bears the name.
THEOREM WritesWhereNamed == Spec => []PutWhereNamed
BY Invariant, PTL DEF IInv, Copying

(***************************************************************************)
(* The rows that requests hold and write                                   *)
(***************************************************************************)

\* Which kind of request is at which step.
Stations ==
    \A p \in Requests :
        /\ pc[p] \in {"begin", "resolve", "write"} => p \in Writers
        /\ pc[p] = "check" => p \in Movers
        /\ pc[p] \in {"lock", "cascade"} => p \in Renamers
        /\ pc[p] \in {"share", "find", "refresh"} => p \in Refreshers

\* A row is in the draft of one transaction.
OneDraft ==
    \A p, q \in Requests : p # q => DOMAIN draft[p] \cap DOMAIN draft[q] = {}

\* A rename shares no school, and holds its own from its cascade on.
RenamesAlone ==
    \A s \in Schools :
        /\ sharing[s] \cap Renamers = {}
        /\ \A r \in Renamers : renaming[s] = r =>
              pc[r] \in {"cascade", "commit"} /\ ask[r].school = s

\* A writer has drafted rows that it names; a class is drafted last.
WritersDraft ==
    \A p \in Writers : DOMAIN draft[p] # {} =>
        /\ pc[p] \in {"resolve", "write", "commit"}
        /\ DOMAIN draft[p] \subseteq RowsOf(ask[p])
        /\ p \in Classers => pc[p] = "commit"

\* A refresh has drafted fees rows, once it found some; nobody else drafts.
OthersDraft ==
    /\ \A u \in Refreshers : \A k \in DOMAIN draft[u] :
          pc[u] \in {"refresh", "commit"} /\ k[1] = "schoolcontributedata"
    /\ \A p \in FeeMakers \cup Deleters : DOMAIN draft[p] = {}

\* A cascade or a refresh has drafted rows that are there, and leaves them in
\* their school.
RewritesRows ==
    \A q \in Renamers \cup Refreshers : \A k \in DOMAIN draft[q] :
        row[k] # None /\ draft[q][k].school = row[k].school

\* The rows of a create are not there before its commit.
StillNew ==
    /\ \A p \in Creators : ask[p] # None /\ pc[p] # "done" =>
          \A k \in RowsOf(ask[p]) : row[k] = None
    /\ \A f \in FeeMakers : ask[f] # None /\ pc[f] # "done" => row[FeeKey(f)] = None

\* The rows that a move under way names are there.
MovesKnown ==
    \A p \in Movers : pc[p] \notin Ends \cup {"begin"} => Known(p)

\* What a refresh found are fees rows of the school whose copy it holds.
RefreshesOwn ==
    \A u \in Refreshers :
        /\ pc[u] \in {"find", "refresh"} => copy[u].school = ask[u].school
        /\ pc[u] = "refresh" => \A n \in DOMAIN found[u] : found[u][n] \in FeesOf(ask[u].school)

Drafting == OneDraft /\ WritersDraft /\ OthersDraft /\ RewritesRows /\ StillNew
RowsKept == Stations /\ RenamesAlone /\ MovesKnown /\ RefreshesOwn /\ Drafting

-----------------------------------------------------------------------------
\* The kinds of requests are disjoint.
LEMMA KindsApart ==
    /\ Creators \subseteq Writers /\ Movers \subseteq Writers /\ Classers \subseteq Writers
    /\ Creators \cap (Movers \cup Classers) = {} /\ Movers \cap Classers = {}
    /\ Enrollers \cup Hirers = Creators /\ Enrollers \cap Hirers = {}
    /\ Renamers \cap (Writers \cup FeeMakers \cup Refreshers \cup Deleters) = {}
    /\ Writers \cap (FeeMakers \cup Refreshers \cup Deleters) = {}
    /\ FeeMakers \cap (Refreshers \cup Deleters) = {} /\ Refreshers \cap Deleters = {}
    /\ Requests = Creators \cup Movers \cup Classers \cup Renamers \cup FeeMakers
                    \cup Refreshers \cup Deleters
BY SchoolNamesAssumed DEF SchoolNamesAssumption, Requests, Writers, Creators

\* The two rows of a person are rows, apart from those of others.
LEMMA PersonRows ==
    ASSUME NEW x \in People
    PROVE  /\ Student(x) \in Keys /\ Login(x) \in Keys
           /\ Student(x)[1] = "students" /\ Login(x)[1] = "schoolusers"
           /\ Student(x) # Login(x)
           /\ \A y \in People : /\ (Student(x) = Student(y)) <=> (x = y)
                                /\ (Login(x) = Login(y)) <=> (x = y)
                                /\ Student(x) # Login(y)
BY DEF Student, Login, Keys

\* The row a writer is at is one that it names, and so is every row of a line.
LEMMA RowAt ==
    ASSUME TypeOK, NEW p \in Writers, ask[p] # None
    PROVE  /\ Line(p).keys[at[p]] \in RowsOf(ask[p])
           /\ RowsOf(ask[p]) \subseteq Keys
<1>1. p \in Requests  BY Kinds
<1>2. turn[p] \in DOMAIN ask[p] /\ at[p] \in DOMAIN Line(p).keys
  BY DEF TypeOK, PlacesTyped
<1>3. Line(p).keys[at[p]] \in RowsOf(ask[p])
  BY <1>2 DEF Line, RowsOf
<1>4. ask[p] \in Seq(Lines)
  BY <1>1, AskFacts
<1>5. ASSUME NEW i \in DOMAIN ask[p], NEW j \in DOMAIN ask[p][i].keys
      PROVE  ask[p][i].keys[j] \in Keys
  <2>1. ask[p][i] \in Lines
    BY <1>4
  <2>2. ask[p][i].keys \in Seq(Keys)
    BY <2>1 DEF Lines
  <2> QED  BY <2>2
<1> QED  BY <1>3, <1>5 DEF RowsOf

\* Which rows a request names, by its kind.
LEMMA RowFacts ==
    ASSUME TypeOK, NEW p \in Requests, ask[p] # None
    PROVE  /\ p \in Creators =>
                /\ \A k \in RowsOf(ask[p]) :
                     /\ Home[k] = None
                     /\ k[1] \in {"students", "schoolusers"}
                     /\ \E x \in People : k \in {Student(x), Login(x)}
                /\ \A q \in Creators \ {p} :
                     ask[q] # None => RowsOf(ask[p]) \cap RowsOf(ask[q]) = {}
           /\ p \in Hirers => RowsOf(ask[p]) \subseteq {Login(x) : x \in People}
           /\ p \in Enrollers =>
                /\ \A i \in DOMAIN ask[p] : ask[p][i].given = ask[p][1].given
                /\ \A i \in DOMAIN ask[p] : \A j \in DOMAIN ask[p][i].keys : \A x \in People :
                     ask[p][i].keys[j] = Student(x) =>
                       \E h \in DOMAIN ask[p] :
                         h < i /\ \E l \in DOMAIN ask[p][h].keys : ask[p][h].keys[l] = Login(x)
           /\ p \in Movers =>
                \A i \in DOMAIN ask[p] :
                  \E x \in People : ask[p][i].keys = <<Student(x), Login(x)>>
           /\ p \in Classers =>
                Len(ask[p]) = 1 /\ \E c \in Classes : ask[p][1].keys = <<<<"standards", c>>>>
           /\ p \in FeeMakers =>
                /\ Home[FeeKey(p)] = None
                /\ FeeKey(p) \in Keys /\ FeeKey(p)[1] = "schoolcontributedata"
                /\ \A q \in FeeMakers \ {p} : ask[q] # None => FeeKey(q) # FeeKey(p)
<1>1. ask \in Asks  BY DEF TypeOK, RequestsTyped
<1>2. RowsAssumption  BY SchoolNamesAssumed
<1>3. p \in Creators =>
        /\ \A k \in RowsOf(ask[p]) : Home[k] = None
        /\ \A q \in Creators \ {p} :
             ask[q] # None => RowsOf(ask[p]) \cap RowsOf(ask[q]) = {}
  BY <1>1, <1>2, Zenon DEF RowsAssumption
<1>4. p \in Hirers => RowsOf(ask[p]) \subseteq {Login(x) : x \in People}
  BY <1>1, <1>2, Zenon DEF RowsAssumption
<1>5. p \in Enrollers =>
        RowsOf(ask[p]) \subseteq {Student(x) : x \in People} \cup {Login(x) : x \in People}
  BY <1>1, <1>2, Zenon DEF RowsAssumption
<1>6. p \in Enrollers =>
        /\ \A i \in DOMAIN ask[p] : ask[p][i].given = ask[p][1].given
        /\ \A i \in DOMAIN ask[p] : \A j \in DOMAIN ask[p][i].keys : \A x \in People :
             ask[p][i].keys[j] = Student(x) =>
               \E h \in DOMAIN ask[p] :
                 h < i /\ \E l \in DOMAIN ask[p][h].keys : ask[p][h].keys[l] = Login(x)
  BY <1>1, <1>2, Zenon DEF RowsAssumption
<1>7. p \in Movers =>
        \A i \in DOMAIN ask[p] :
          \E x \in People : ask[p][i].keys = <<Student(x), Login(x)>>
  BY <1>1, <1>2, Zenon DEF RowsAssumption
<1>8. p \in Classers =>
        Len(ask[p]) = 1 /\ \E c \in Classes : ask[p][1].keys = <<<<"standards", c>>>>
  BY <1>1, <1>2, Zenon DEF RowsAssumption
<1>9. p \in FeeMakers =>
        /\ Home[<<"schoolcontributedata", ask[p].fee>>] = None
        /\ \A q \in FeeMakers \ {p} : ask[q] # None => ask[q].fee # ask[p].fee
  BY <1>1, <1>2, Zenon DEF RowsAssumption
<1>10. p \in Creators => \A k \in RowsOf(ask[p]) :
         \E x \in People : k \in {Student(x), Login(x)}
  BY <1>4, <1>5 DEF Creators
<1>11. p \in Creators => \A k \in RowsOf(ask[p]) : k[1] \in {"students", "schoolusers"}
  BY <1>10, PersonRows
<1>12. p \in FeeMakers => /\ FeeKey(p) \in Keys /\ FeeKey(p)[1] = "schoolcontributedata"
                          /\ Home[FeeKey(p)] = None
  BY <1>9, AskFacts DEF FeeKey, Keys
<1>13. p \in FeeMakers => \A q \in FeeMakers \ {p} : ask[q] # None => FeeKey(q) # FeeKey(p)
  BY <1>9 DEF FeeKey
<1> QED  BY <1>3, <1>4, <1>6, <1>7, <1>8, <1>10, <1>11, <1>12, <1>13

\* The rows of a class and of a move, by their tables.
LEMMA RowTables ==
    ASSUME TypeOK, NEW p \in Writers, ask[p] # None, NEW k \in RowsOf(ask[p])
    PROVE  /\ k[1] # "schoolcontributedata"
           /\ p \in Classers <=> k[1] = "standards"
<1>1. p \in Requests  BY Kinds
<1>2. PICK i \in DOMAIN ask[p] : \E j \in DOMAIN ask[p][i].keys : k = ask[p][i].keys[j]
  BY DEF RowsOf
<1>3. ask[p] \in Seq(Lines)
  BY <1>1, AskFacts
<1>4. CASE p \in Creators
  BY <1>1, <1>4, RowFacts, KindsApart
<1>5. CASE p \in Movers
  <2>1. PICK x \in People : ask[p][i].keys = <<Student(x), Login(x)>>
    BY <1>1, <1>5, RowFacts
  <2>2. k \in {Student(x), Login(x)}
    BY <1>2, <2>1
  <2> QED  BY <1>5, <2>2, PersonRows, KindsApart
<1>6. CASE p \in Classers
  <2>1. PICK c \in Classes : ask[p][1].keys = <<<<"standards", c>>>>
    BY <1>1, <1>6, RowFacts
  <2>2. i = 1
    BY <1>1, <1>2, <1>3, <1>6, RowFacts
  <2>3. k = <<"standards", c>>
    BY <1>2, <2>1, <2>2
  <2> QED  BY <1>6, <2>3
<1> QED  BY <1>4, <1>5, <1>6 DEF Creators, Writers

-----------------------------------------------------------------------------
\* A step of p that writes no row and drafts none, unless it ends p or was
\* p's commit, leaves who drafts what.
LEMMA DraftsStay ==
    ASSUME RowsKept, NEW p \in Requests, UNCHANGED <<row, draft, ask>>,
           pc[p] \notin Ends \cup {"commit", "refresh"},
           \A q \in Requests \ {p} : pc'[q] = pc[q],
           p \in Writers => pc'[p] \in {"check", "resolve", "write", "commit"},
           p \in Writers /\ pc'[p] = "check" => pc[p] \in {"begin", "check"}
    PROVE  Drafting'
<1>1. OneDraft' /\ RewritesRows'
  BY DEF RowsKept, Drafting, OneDraft, RewritesRows
<1>2. WritersDraft'
  <2> SUFFICES ASSUME NEW q \in Writers, DOMAIN draft[q] # {}
               PROVE  /\ pc'[q] \in {"resolve", "write", "commit"}
                      /\ DOMAIN draft[q] \subseteq RowsOf(ask[q])
                      /\ q \in Classers => pc'[q] = "commit"
    BY DEF WritersDraft
  <2>1. /\ pc[q] \in {"resolve", "write", "commit"}
        /\ DOMAIN draft[q] \subseteq RowsOf(ask[q])
        /\ q \in Classers => pc[q] = "commit"
    BY DEF RowsKept, Drafting, WritersDraft
  <2>2. q \in Requests
    BY Kinds
  <2> QED  BY <2>1, <2>2
<1>3. OthersDraft'
  BY Kinds DEF RowsKept, Drafting, OthersDraft
<1>4. StillNew'
  BY Kinds, KindsApart DEF RowsKept, Drafting, StillNew, Ends, FeeKey
<1> QED  BY <1>1, <1>2, <1>3, <1>4 DEF Drafting

\* A step of p that changes no row, and of which p, if a refresh, is not the
\* next to save a row, leaves what the refreshes found.
LEMMA RefreshesStay ==
    ASSUME RowsKept, NEW p \in Requests, UNCHANGED <<row, ask>>,
           \A u \in Refreshers \ {p} :
              pc'[u] = pc[u] /\ found'[u] = found[u] /\ copy'[u] = copy[u],
           p \in Refreshers => pc'[p] \notin {"find", "refresh"}
    PROVE  RefreshesOwn'
<1>1. RefreshesOwn
  BY DEF RowsKept
<1>2. \A s \in Schools \cup {ask[u].school : u \in Refreshers} : FeesOf(s)' = FeesOf(s)
  BY DEF FeesOf
<1> SUFFICES ASSUME NEW u \in Refreshers
             PROVE  /\ pc'[u] \in {"find", "refresh"} => copy'[u].school = ask[u].school
                    /\ pc'[u] = "refresh" =>
                          \A n \in DOMAIN found'[u] : found'[u][n] \in FeesOf(ask[u].school)'
  BY DEF RefreshesOwn
<1>3. CASE u = p
  BY <1>3
<1>4. CASE u # p
  BY <1>1, <1>2, <1>4 DEF RefreshesOwn
<1> QED  BY <1>3, <1>4

\* The end of a transaction that changes no row.
LEMMA RollbackKeepsRows ==
    ASSUME IInv, RowsKept, NEW p \in Requests, NEW how \in {"refused", "failed"},
           pc[p] \notin Ends, Rollback(p, how)
    PROVE  RowsKept'
<1>0. /\ \A q \in Requests \ {p} : pc'[q] = pc[q] /\ draft'[q] = draft[q]
      /\ pc'[p] = how /\ draft'[p] = NoRows /\ DOMAIN NoRows = {}
      /\ UNCHANGED <<row, ask, found, copy>>
  BY DEF Rollback, End, IInv, TypeOK, RowsTyped, RequestsTyped, NoRows
<1>7. RefreshesOwn'
  BY <1>0, Kinds, RefreshesStay
<1>1. Stations'
  BY <1>0 DEF RowsKept, Stations
<1>2. RenamesAlone'
  <2>1. \A s \in Schools : /\ sharing'[s] = sharing[s] \ {p}
                           /\ renaming'[s] = IF renaming[s] = p THEN None ELSE renaming[s]
    BY DEF Rollback, End
  <2> QED  BY <1>0, <2>1, Kinds DEF RowsKept, RenamesAlone
<1>3. MovesKnown'
  BY <1>0, Kinds DEF RowsKept, MovesKnown, Known, Ends
<1>4. OneDraft' /\ OthersDraft' /\ RewritesRows'
  BY <1>0, Kinds DEF RowsKept, Drafting, OneDraft, OthersDraft, RewritesRows
<1>5. WritersDraft'
  BY <1>0, Kinds DEF RowsKept, Drafting, WritersDraft
<1>6. StillNew'
  <2>1. \A q \in Requests : pc'[q] # "done" => pc[q] # "done"
    BY <1>0 DEF Ends
  <2> QED  BY <1>0, <2>1, Kinds, KindsApart DEF RowsKept, Drafting, StillNew, FeeKey
<1> QED  BY <1>1, <1>2, <1>3, <1>4, <1>5, <1>6, <1>7 DEF RowsKept, Drafting

\* The steps of a writer that read: it begins, checks a line, resolves one.
LEMMA ReadsKeepRows ==
    ASSUME IInv, RowsKept, NEW p \in Writers, Begin(p) \/ Check(p) \/ Resolve(p)
    PROVE  RowsKept'
<1>0. /\ p \in Requests \ Renamers /\ pc[p] \in {"begin", "check", "resolve"}
      /\ UNCHANGED <<row, draft, ask, renaming>>
  BY Kinds DEF Begin, Check, Resolve
<1>1. /\ \A q \in Requests \ {p} : pc'[q] = pc[q]
      /\ pc'[p] \in {"check", "resolve", "write"}
      /\ pc'[p] = "check" => pc[p] \in {"begin", "check"} /\ p \in Movers
      /\ pc[p] = "begin" /\ p \in Movers => Known(p)
  <2>1. pc \in [Requests -> Steps]
    BY DEF IInv, TypeOK, RequestsTyped
  <2>2. CASE Begin(p)
    BY <2>1, <2>2, <1>0 DEF Begin
  <2>3. CASE Check(p)
    <3>1. p \in Movers
      BY <2>3, <1>0 DEF RowsKept, Stations, Check
    <3> QED  BY <2>1, <2>3, <3>1, <1>0 DEF Check
  <2>4. CASE Resolve(p)
    BY <2>1, <2>4, <1>0 DEF Resolve
  <2> QED  BY <2>2, <2>3, <2>4
<1>2. \A s \in Schools : sharing'[s] \subseteq sharing[s] \cup {p}
  BY DEF Begin, Check, Resolve, Share, IInv, TypeOK, LocksTyped
<1>3. Stations'
  BY <1>0, <1>1 DEF RowsKept, Stations
<1>4. RenamesAlone'
  BY <1>0, <1>1, <1>2, Kinds DEF RowsKept, RenamesAlone
<1>5. MovesKnown'
  BY <1>0, <1>1, Kinds DEF RowsKept, MovesKnown, Known, Ends
<1>6. pc[p] \notin Ends \cup {"commit", "refresh"}
  BY <1>0 DEF Ends
<1>7. Drafting'
  BY <1>0, <1>1, <1>6, DraftsStay
<1>8. RefreshesOwn'
  <2>1. p \notin Refreshers /\ found' = found /\ \A q \in Requests \ {p} : copy'[q] = copy[q]
    BY <1>0, Kinds DEF Begin, Check, Resolve, IInv, TypeOK, RequestsTyped
  <2> QED  BY <1>0, <1>1, <2>1, Kinds, RefreshesStay
<1> QED  BY <1>3, <1>4, <1>5, <1>7, <1>8 DEF RowsKept

\* What a write leaves: at most the row it is at joins the draft, which
\* nobody else has drafted.
LEMMA WriteFacts ==
    ASSUME IInv, NEW p \in Writers, Write(p)
    PROVE  LET k == Line(p).keys[at[p]] IN
           /\ p \in Requests \ Renamers /\ ask[p] # None /\ pc[p] = "write"
           /\ k \in Keys /\ k \in RowsOf(ask[p]) /\ copy[p] \in Copies
           /\ DOMAIN draft' = Requests
           /\ \A q \in Requests \ {p} : pc'[q] = pc[q] /\ draft'[q] = draft[q]
           /\ pc'[p] \in {"resolve", "write", "commit"}
           /\ UNCHANGED <<school, row, ask, found, sharing, renaming, copy>>
           /\ \/ NothingToSave(p, k) /\ draft' = draft
              \/ /\ ~NothingToSave(p, k) /\ Free(p, k)
                 /\ DOMAIN draft'[p] = DOMAIN draft[p] \cup {k}
                 /\ draft'[p][k] = copy[p]
                 /\ \A x \in DOMAIN draft[p] \ {k} : draft'[p][x] = draft[p][x]
<1> DEFINE k == Line(p).keys[at[p]]
<1>0. p \in Requests \ Renamers /\ ask[p] # None /\ pc[p] = "write" /\ TypeOK
  BY Kinds DEF Write, IInv, Locking, Asked, Ends
<1>1. k \in Keys /\ k \in RowsOf(ask[p])
  BY <1>0, LineFacts, RowAt
<1>2. copy[p] \in Copies
  BY <1>0 DEF IInv, TypeOK, RequestsTyped, Copying, CopyIsCurrent
<1>3. /\ \A q \in Requests \ {p} : pc'[q] = pc[q]
      /\ pc'[p] \in {"resolve", "write", "commit"}
      /\ UNCHANGED <<school, row, ask, found, sharing, renaming, copy>>
  BY <1>0 DEF Write, TypeOK, RequestsTyped
<1>4. \/ NothingToSave(p, k) /\ draft' = draft
      \/ /\ ~NothingToSave(p, k) /\ Free(p, k)
         /\ draft' = [draft EXCEPT ![p] = Overlay(@, [x \in {k} |-> copy[p]])]
  BY DEF Write
<1>5. DOMAIN draft = Requests
  BY <1>0 DEF TypeOK, RowsTyped
<1> HIDE DEF k
<1>6. CASE draft' = [draft EXCEPT ![p] = Overlay(@, [x \in {k} |-> copy[p]])]
  <2>1. /\ DOMAIN draft' = Requests
        /\ \A q \in Requests \ {p} : draft'[q] = draft[q]
        /\ DOMAIN draft'[p] = DOMAIN draft[p] \cup {k}
        /\ draft'[p][k] = copy[p]
        /\ \A x \in DOMAIN draft[p] \ {k} : draft'[p][x] = draft[p][x]
    BY <1>0, <1>1, <1>2, <1>6, DraftGrows
  <2>2. \/ NothingToSave(p, k) /\ draft' = draft
        \/ ~NothingToSave(p, k) /\ Free(p, k)
    BY <1>4
  <2> HIDE DEF NothingToSave
  <2> QED  BY <1>0, <1>1, <1>2, <1>3, <2>1, <2>2 DEF k
<1>7. CASE draft' = draft /\ NothingToSave(p, k)
  BY <1>0, <1>1, <1>2, <1>3, <1>5, <1>7 DEF k
<1> QED  BY <1>4, <1>6, <1>7

\* A row that p may lock is in no other draft.
LEMMA FreeRow ==
    ASSUME NEW p \in Requests, NEW k, Free(p, k), NEW q \in Requests \ {p}
    PROVE  k \notin DOMAIN draft[q]
BY DEF Free, Holders

\* A writer writes the next row of its line.
LEMMA WriteKeepsRows ==
    ASSUME IInv, RowsKept, NEW p \in Writers, Write(p)
    PROVE  RowsKept'
<1> DEFINE k == Line(p).keys[at[p]]
<1>0. /\ p \in Requests \ Renamers /\ ask[p] # None /\ pc[p] = "write"
      /\ k \in Keys /\ k \in RowsOf(ask[p])
      /\ DOMAIN draft' = Requests
      /\ \A q \in Requests \ {p} : pc'[q] = pc[q] /\ draft'[q] = draft[q]
      /\ pc'[p] \in {"resolve", "write", "commit"}
      /\ UNCHANGED <<row, ask, found, copy, sharing, renaming>>
      /\ \/ draft' = draft
         \/ Free(p, k) /\ DOMAIN draft'[p] = DOMAIN draft[p] \cup {k}
  BY WriteFacts
<1> HIDE DEF k
<1>1. Stations'
  BY <1>0 DEF RowsKept, Stations
<1>2. RenamesAlone'
  BY <1>0, Kinds DEF RowsKept, RenamesAlone
<1>3. MovesKnown'
  BY <1>0, Kinds DEF RowsKept, MovesKnown, Known, Ends
<1>4. OneDraft'
  BY <1>0, FreeRow DEF RowsKept, Drafting, OneDraft
<1>5. WritersDraft'
  <2> SUFFICES ASSUME NEW q \in Writers, DOMAIN draft'[q] # {}
               PROVE  /\ pc'[q] \in {"resolve", "write", "commit"}
                      /\ DOMAIN draft'[q] \subseteq RowsOf(ask[q])
                      /\ q \in Classers => pc'[q] = "commit"
    BY <1>0 DEF WritersDraft
  <2>1. CASE q # p
    BY <1>0, <2>1, Kinds DEF RowsKept, Drafting, WritersDraft
  <2>2. CASE q = p
    <3>1. DOMAIN draft'[p] \subseteq RowsOf(ask[p])
      BY <1>0 DEF RowsKept, Drafting, WritersDraft
    <3>2. ASSUME p \in Classers  PROVE pc'[p] = "commit"
      <4>1. PICK c \in Classes : ask[p][1].keys = <<<<"standards", c>>>>
        BY <1>0, <3>2, RowFacts DEF IInv
      <4>2. Len(ask[p]) = 1 /\ turn[p] \in 1 .. Len(ask[p]) /\ at[p] \in 1 .. Len(Line(p).keys)
        BY <1>0, <3>2, RowFacts, LineFacts DEF IInv
      <4>3. turn[p] = 1
        BY <4>2
      <4>4. Len(Line(p).keys) = 1
        <5> DEFINE one == <<"standards", c>>
        <5>1. Line(p).keys = <<one>>
          BY <4>1, <4>3 DEF Line
        <5> HIDE DEF one
        <5> QED  BY <5>1
      <4>5. at[p] = 1
        BY <4>2, <4>4
      <4> QED  BY <1>0, <4>2, <4>3, <4>4, <4>5 DEF Write, IInv, TypeOK, RequestsTyped
    <3> QED  BY <1>0, <2>2, <3>1, <3>2
  <2> QED  BY <2>1, <2>2
<1>6. OthersDraft' /\ RewritesRows'
  BY <1>0, Kinds DEF RowsKept, Drafting, OthersDraft, RewritesRows
<1>7. StillNew'
  BY <1>0, Kinds, KindsApart DEF RowsKept, Drafting, StillNew, FeeKey
<1>8. RefreshesOwn'
  BY <1>0, Kinds, RefreshesStay
<1> QED  BY <1>1, <1>2, <1>3, <1>4, <1>5, <1>6, <1>7, <1>8 DEF RowsKept, Drafting

\* A rename takes its school's update lock, or ends an UPDATE.
LEMMA RenameTurnsKeepRows ==
    ASSUME IInv, RowsKept, NEW r \in Renamers, LockSchool(r) \/ CascadeNext(r)
    PROVE  RowsKept'
<1>0. /\ r \in Requests /\ ask[r] # None /\ pc[r] \in {"lock", "cascade"}
      /\ UNCHANGED <<row, draft, ask, found, copy, sharing>>
  BY Kinds DEF LockSchool, CascadeNext, IInv, Locking, Asked, Ends
<1>1. /\ \A q \in Requests \ {r} : pc'[q] = pc[q]
      /\ pc'[r] \in {"cascade", "commit"}
  <2>1. pc \in [Requests -> Steps]
    BY DEF IInv, TypeOK, RequestsTyped
  <2>2. CASE LockSchool(r)
    BY <1>0, <2>1, <2>2 DEF LockSchool
  <2>3. CASE CascadeNext(r)
    BY <1>0, <2>1, <2>3 DEF CascadeNext
  <2> QED  BY <2>2, <2>3
<1>2. Stations'
  BY <1>0, <1>1 DEF RowsKept, Stations
<1>3. RenamesAlone'
  <2>1. \A s \in Schools :
          renaming'[s] = renaming[s] \/ (renaming'[s] = r /\ s = ask[r].school)
    <3>1. renaming \in [Schools -> Renamers \cup {None}]
      BY DEF IInv, TypeOK, LocksTyped
    <3>2. renaming' = renaming \/ renaming' = [renaming EXCEPT ![ask[r].school] = r]
      BY DEF LockSchool, CascadeNext
    <3> QED  BY <3>1, <3>2
  <2> QED  BY <1>0, <1>1, <2>1, Kinds DEF RowsKept, RenamesAlone
<1>4. MovesKnown'
  BY <1>0, <1>1, Kinds DEF RowsKept, MovesKnown, Known
<1>5. Drafting'
  <2>1. pc[r] \notin Ends \cup {"commit", "refresh"} /\ r \notin Writers
    BY <1>0, Kinds DEF Ends
  <2> QED  BY <1>0, <1>1, <2>1, DraftsStay
<1>6. RefreshesOwn'
  BY <1>0, <1>1, Kinds, RefreshesStay
<1> QED  BY <1>2, <1>3, <1>4, <1>5, <1>6 DEF RowsKept

\* The UPDATE of a table reaches one more row of the school.
LEMMA CascadeKeepsRows ==
    ASSUME IInv, RowsKept, NEW r \in Renamers, Cascade(r)
    PROVE  RowsKept'
<1>0. /\ r \in Requests /\ ask[r] # None /\ pc[r] = "cascade" /\ TypeOK
      /\ UNCHANGED <<row, pc, ask, found, copy, sharing, renaming>>
  BY Kinds DEF Cascade, IInv, Locking, Asked, Ends
<1>1. PICK k \in Keys :
        /\ row[k] # None /\ row[k].school = ask[r].school /\ Free(r, k)
        /\ draft' = [draft EXCEPT ![r] =
              Overlay(@, [x \in {k} |-> [row[k] EXCEPT !.name = ask[r].text]])]
  BY DEF Cascade, Pending
<1>2. [row[k] EXCEPT !.name = ask[r].text] \in Copies
  <2>1. row[k] \in [school : Schools, name : Texts]
    BY <1>0, <1>1 DEF TypeOK, RowsTyped, Copies
  <2> QED  BY <1>0, <2>1, AskFacts DEF Copies
<1>3. /\ DOMAIN draft' = Requests
      /\ \A q \in Requests \ {r} : draft'[q] = draft[q]
      /\ DOMAIN draft'[r] = DOMAIN draft[r] \cup {k}
      /\ draft'[r][k].school = row[k].school
      /\ \A x \in DOMAIN draft[r] \ {k} : draft'[r][x] = draft[r][x]
  <2> DEFINE c == [row[k] EXCEPT !.name = ask[r].text]
  <2>1. c \in Copies /\ draft' = [draft EXCEPT ![r] = Overlay(@, [x \in {k} |-> c])]
    BY <1>1, <1>2
  <2>2. r \in Requests /\ TypeOK
    BY <1>0
  <2>4. c.school = row[k].school
    BY <1>0, <1>1 DEF TypeOK, RowsTyped, Copies
  <2> HIDE DEF c
  <2>3. /\ DOMAIN draft' = Requests
        /\ \A q \in Requests \ {r} : draft'[q] = draft[q]
        /\ DOMAIN draft'[r] = DOMAIN draft[r] \cup {k}
        /\ draft'[r][k] = c
        /\ \A x \in DOMAIN draft[r] \ {k} : draft'[r][x] = draft[r][x]
    BY <2>1, <2>2, DraftGrows
  <2> QED  BY <2>3, <2>4
<1>4. Stations' /\ RenamesAlone' /\ MovesKnown'
  BY <1>0 DEF RowsKept, Stations, RenamesAlone, MovesKnown, Known
<1>5. OneDraft'
  BY <1>0, <1>1, <1>3, FreeRow DEF RowsKept, Drafting, OneDraft
<1>6. WritersDraft' /\ OthersDraft'
  BY <1>0, <1>3, Kinds DEF RowsKept, Drafting, WritersDraft, OthersDraft
<1>7. RewritesRows' /\ StillNew'
  BY <1>0, <1>1, <1>3, Kinds DEF RowsKept, Drafting, RewritesRows, StillNew, FeeKey
<1>8. RefreshesOwn'
  BY <1>0, Kinds, RefreshesStay
<1> QED  BY <1>4, <1>5, <1>6, <1>7, <1>8 DEF RowsKept, Drafting

\* The steps of fees rows, refreshes and deletions that write no row.
LEMMA OtherReadsKeepRows ==
    ASSUME IInv, RowsKept,
           \/ \E f \in FeeMakers : ReadForFee(f)
           \/ \E u \in Refreshers : ShareForRefresh(u) \/ FindFees(u)
           \/ \E d \in Deleters : DeleteStep(d)
    PROVE  RowsKept'
<1>1. PICK p \in FeeMakers \cup Refreshers \cup Deleters :
        \/ p \in FeeMakers /\ ReadForFee(p)
        \/ p \in Refreshers /\ ShareForRefresh(p)
        \/ p \in Refreshers /\ FindFees(p)
        \/ p \in Deleters /\ DeleteStep(p)
  OBVIOUS
<1>2. /\ p \in Requests \ (Renamers \cup Writers)
      /\ pc[p] \in {"read", "share", "find", "count", "delete"}
      /\ UNCHANGED <<row, draft, ask, renaming>>
  BY <1>1, Kinds
  DEF ReadForFee, ShareForRefresh, FindFees, DeleteStep, CountLearners, DeleteSchool
<1>3. /\ \A q \in Requests \ {p} : pc'[q] = pc[q]
      /\ pc'[p] \in {"insert", "find", "refresh", "commit", "delete"} \cup Ends
      /\ pc'[p] \in {"find", "refresh", "commit"} => p \in Refreshers
  <2>1. pc \in [Requests -> Steps]
    BY DEF IInv, TypeOK, RequestsTyped
  <2>2. CASE p \in FeeMakers /\ ReadForFee(p)
    BY <1>2, <2>1, <2>2 DEF ReadForFee
  <2>3. CASE p \in Refreshers /\ ShareForRefresh(p)
    BY <1>2, <2>1, <2>3 DEF ShareForRefresh
  <2>5. CASE p \in Refreshers /\ FindFees(p)
    BY <2>5, FindFeesFacts
  <2>4. CASE p \in Deleters /\ DeleteStep(p)
    BY <1>2, <2>1, <2>4 DEF DeleteStep, CountLearners, DeleteSchool, Ends
  <2> QED  BY <1>1, <2>2, <2>3, <2>4, <2>5
<1>4. \A s \in Schools : sharing'[s] \subseteq sharing[s] \cup {p}
  BY <1>1 DEF ReadForFee, ShareForRefresh, FindFees, Share, DeleteStep, CountLearners, DeleteSchool,
     IInv, TypeOK, LocksTyped
<1>5. Stations'
  BY <1>2, <1>3 DEF RowsKept, Stations, Ends
<1>6. RenamesAlone' /\ MovesKnown'
  BY <1>2, <1>3, <1>4, Kinds DEF RowsKept, RenamesAlone, MovesKnown, Known
<1>7. Drafting'
  <2>1. pc[p] \notin Ends \cup {"commit", "refresh"} /\ p \notin Writers
    BY <1>2 DEF Ends
  <2> QED  BY <1>2, <1>3, <2>1, DraftsStay
<1>8. RefreshesOwn'
  <2>1. CASE p \in Refreshers /\ ShareForRefresh(p)
    <3>1. /\ pc'[p] = "find" /\ copy'[p].school = ask[p].school /\ found' = found
          /\ \A q \in Requests \ {p} : copy'[q] = copy[q]
      BY <1>2, <2>1 DEF ShareForRefresh, IInv, TypeOK, RequestsTyped
    <3> QED  BY <1>2, <1>3, <3>1, Kinds DEF RowsKept, RefreshesOwn, FeesOf
  <2>2. CASE p \in Refreshers /\ FindFees(p)
    <3>1. /\ pc[p] = "find" /\ copy' = copy
          /\ \A n \in DOMAIN found'[p] : found'[p][n] \in FeesOf(ask[p].school)
          /\ \A q \in Requests \ {p} : found'[q] = found[q]
      BY <2>2, FindFeesFacts
    <3> QED  BY <1>2, <1>3, <3>1, Kinds DEF RowsKept, RefreshesOwn, FeesOf
  <2>3. CASE ReadForFee(p) \/ DeleteStep(p)
    <3>1. found' = found /\ \A q \in Requests \ {p} : copy'[q] = copy[q]
      BY <1>2, <2>3
      DEF ReadForFee, DeleteStep, CountLearners, DeleteSchool, IInv, TypeOK, RequestsTyped
    <3>2. pc'[p] \notin {"find", "refresh"}
      BY <1>2, <1>3, <2>3
      DEF ReadForFee, DeleteStep, CountLearners, DeleteSchool, IInv, TypeOK, RequestsTyped
    <3> QED  BY <1>2, <1>3, <3>1, <3>2, Kinds, RefreshesStay
  <2> QED  BY <1>1, <2>1, <2>2, <2>3
<1> QED  BY <1>5, <1>6, <1>7, <1>8 DEF RowsKept

\* The insert of a fees row, which no one has drafted.
LEMMA InsertFeeKeepsRows ==
    ASSUME IInv, RowsKept, NEW f \in FeeMakers, InsertFee(f)
    PROVE  RowsKept'
<1>0. /\ f \in Requests \ (Renamers \cup Writers) /\ ask[f] # None /\ pc[f] = "insert"
      /\ UNCHANGED <<draft, ask, found, copy, sharing, renaming>> /\ TypeOK
  BY Kinds DEF InsertFee, IInv, Locking, Asked, Ends
<1>1. FeeKey(f) \in Keys /\ FeeKey(f)[1] = "schoolcontributedata" /\ row[FeeKey(f)] = None
  BY <1>0, RowFacts DEF RowsKept, Drafting, StillNew
<1>2. \A k \in Keys : k # FeeKey(f) => row'[k] = row[k]
  BY <1>0, <1>1 DEF InsertFee, TypeOK, RowsTyped
<1>3. /\ pc'[f] = "done" /\ \A q \in Requests \ {f} : pc'[q] = pc[q]
  BY <1>0 DEF InsertFee, TypeOK, RequestsTyped
<1>4. Stations' /\ RenamesAlone'
  BY <1>0, <1>3, Kinds DEF RowsKept, Stations, RenamesAlone
<1>5. OneDraft' /\ WritersDraft' /\ OthersDraft'
  BY <1>0, <1>3, Kinds DEF RowsKept, Drafting, OneDraft, WritersDraft, OthersDraft
<1>6. RewritesRows'
  <2> SUFFICES ASSUME NEW q \in Renamers \cup Refreshers, NEW k \in DOMAIN draft[q]
               PROVE  row'[k] # None /\ draft[q][k].school = row'[k].school
    BY <1>0 DEF RewritesRows
  <2>1. k \in Keys
    BY <1>0, Kinds DEF TypeOK, RowsTyped
  <2>2. row[k] # None /\ draft[q][k].school = row[k].school
    BY DEF RowsKept, Drafting, RewritesRows
  <2> QED  BY <1>1, <1>2, <2>1, <2>2
<1>7. MovesKnown'
  <2> SUFFICES ASSUME NEW p \in Movers, pc'[p] \notin Ends \cup {"begin"}, NEW k \in RowsOf(ask[p])
               PROVE  row'[k] # None
    BY <1>0 DEF MovesKnown, Known
  <2>1. p # f /\ pc[p] \notin Ends \cup {"begin"} /\ p \in Requests /\ p \in Writers
    BY <1>0, <1>3, Kinds, KindsApart
  <2>2. row[k] # None
    BY <2>1 DEF RowsKept, MovesKnown, Known
  <2>3. k \in Keys
    BY <1>0, <2>1, RowAt DEF IInv, Locking, Asked
  <2> QED  BY <1>1, <1>2, <2>2, <2>3
<1>8. StillNew'
  <2>1. ASSUME NEW p \in Creators, ask[p] # None, pc'[p] # "done", NEW k \in RowsOf(ask[p])
        PROVE  row'[k] = None
    <3>1. p \in Writers /\ p # f /\ p \in Requests
      BY <1>0, Kinds, KindsApart
    <3>2. k \in Keys /\ k[1] # "schoolcontributedata"
      BY <1>0, <2>1, <3>1, RowAt, RowTables
    <3>3. row[k] = None
      BY <1>3, <2>1, <3>1 DEF RowsKept, Drafting, StillNew
    <3> QED  BY <1>1, <1>2, <3>2, <3>3
  <2>2. ASSUME NEW g \in FeeMakers, ask[g] # None, pc'[g] # "done"
        PROVE  row'[FeeKey(g)] = None
    <3>1. g # f /\ g \in Requests /\ FeeKey(g) # FeeKey(f) /\ FeeKey(g) \in Keys
      BY <1>0, <1>3, <2>2, Kinds, RowFacts
    <3>2. row[FeeKey(g)] = None
      BY <1>3, <2>2, <3>1 DEF RowsKept, Drafting, StillNew
    <3> QED  BY <1>2, <3>1, <3>2
  <2> QED  BY <1>0, <2>1, <2>2 DEF StillNew, FeeKey
<1>9. RefreshesOwn'
  <2> SUFFICES ASSUME NEW u \in Refreshers
               PROVE  /\ pc'[u] \in {"find", "refresh"} => copy[u].school = ask[u].school
                      /\ pc'[u] = "refresh" =>
                           \A n \in DOMAIN found[u] : found[u][n] \in FeesOf(ask[u].school)'
    BY <1>0 DEF RefreshesOwn
  <2>1. u # f /\ pc'[u] = pc[u]
    BY <1>0, <1>3, Kinds
  <2>2. \A k \in FeesOf(ask[u].school) : k \in FeesOf(ask[u].school)'
    <3> SUFFICES ASSUME NEW k \in FeesOf(ask[u].school)
                 PROVE  k \in FeesOf(ask[u].school)'
      OBVIOUS
    <3>1. k \in Keys /\ row[k] # None
      BY DEF FeesOf, Keys
    <3>2. row'[k] = row[k]
      BY <1>1, <1>2, <3>1
    <3> QED  BY <1>0, <3>2 DEF FeesOf
  <2> QED  BY <2>1, <2>2 DEF RowsKept, RefreshesOwn
<1> QED  BY <1>4, <1>5, <1>6, <1>7, <1>8, <1>9 DEF RowsKept, Drafting

\* A refresh drafts one more of the fees rows it found.
LEMMA RefreshFeeKeepsRows ==
    ASSUME IInv, RowsKept, NEW u \in Refreshers, RefreshFee(u)
    PROVE  RowsKept'
<1> DEFINE k == found[u][at[u]]
<1>0. /\ u \in Requests \ (Renamers \cup Writers) /\ pc[u] = "refresh"
      /\ at[u] \in DOMAIN found[u] /\ k \in Keys /\ Free(u, k)
      /\ UNCHANGED <<row, sharing, renaming, ask, found, copy>>
      /\ DOMAIN draft' = Requests /\ DOMAIN draft'[u] = DOMAIN draft[u] \cup {k}
      /\ draft'[u][k] = copy[u]
      /\ \A x \in DOMAIN draft[u] \ {k} : draft'[u][x] = draft[u][x]
      /\ \A q \in Requests \ {u} : pc'[q] = pc[q] /\ draft'[q] = draft[q]
      /\ pc'[u] \in {"refresh", "commit"}
  BY RefreshFeeFacts
<1>1. k \in FeesOf(ask[u].school) /\ copy[u].school = ask[u].school
  BY <1>0 DEF RowsKept, RefreshesOwn
<1>2. row[k] # None /\ row[k].school = copy[u].school /\ k[1] = "schoolcontributedata"
  BY <1>1 DEF FeesOf
<1> HIDE DEF k
<1>3. Stations' /\ RenamesAlone' /\ MovesKnown'
  BY <1>0, Kinds DEF RowsKept, Stations, RenamesAlone, MovesKnown, Known
<1>4. OneDraft'
  BY <1>0, FreeRow DEF RowsKept, Drafting, OneDraft
<1>5. WritersDraft' /\ OthersDraft'
  BY <1>0, <1>2, Kinds, KindsApart DEF RowsKept, Drafting, WritersDraft, OthersDraft
<1>6. RewritesRows' /\ StillNew'
  BY <1>0, <1>2, Kinds, KindsApart DEF RowsKept, Drafting, RewritesRows, StillNew, FeeKey
<1>7. RefreshesOwn'
  BY <1>0, Kinds DEF RowsKept, RefreshesOwn, FeesOf
<1> QED  BY <1>3, <1>4, <1>5, <1>6, <1>7 DEF RowsKept, Drafting

\* A row that is not there is drafted only by a create, or as a class.
LEMMA DraftedNew ==
    ASSUME RowsKept, NEW p \in Requests, NEW k \in DOMAIN draft[p], row[k] = None
    PROVE  p \in Creators \cup Classers
<1>1. p \notin Renamers \cup Refreshers
  BY DEF RowsKept, Drafting, RewritesRows
<1>2. p \notin FeeMakers \cup Deleters
  BY DEF RowsKept, Drafting, OthersDraft
<1>3. ASSUME p \in Movers  PROVE FALSE
  <2>1. pc[p] \in {"resolve", "write", "commit"} /\ k \in RowsOf(ask[p])
    BY <1>3, KindsApart DEF RowsKept, Drafting, WritersDraft
  <2> QED  BY <1>3, <2>1 DEF RowsKept, MovesKnown, Known, Ends
<1> QED  BY <1>1, <1>2, <1>3, KindsApart

\* Whoever has drafted a fees row leaves it in its school.
LEMMA FeesRowsStay ==
    ASSUME TypeOK, RowsKept, NEW p \in Requests, ask[p] # None, NEW k \in DOMAIN draft[p],
           k[1] = "schoolcontributedata"
    PROVE  draft[p][k].school = row[k].school
<1>1. ASSUME p \in Writers  PROVE FALSE
  <2>1. k \in RowsOf(ask[p])
    BY <1>1 DEF RowsKept, Drafting, WritersDraft
  <2> QED  BY <1>1, <2>1, RowTables
<1>2. p \notin FeeMakers \cup Deleters
  BY DEF RowsKept, Drafting, OthersDraft
<1> QED  BY <1>1, <1>2 DEF RowsKept, Drafting, RewritesRows, Requests

\* The rows of a commit, and its request's end.
LEMMA CommitKeepsRows ==
    ASSUME IInv, RowsKept, NEW p \in Requests, Commit(p)
    PROVE  RowsKept'
<1>0. /\ TypeOK /\ pc[p] = "commit" /\ pc'[p] = "done" /\ ask[p] # None
      /\ \A q \in Requests \ {p} : pc'[q] = pc[q] /\ draft'[q] = draft[q]
      /\ DOMAIN draft'[p] = {}
      /\ \A k \in Keys : row'[k] = IF k \in DOMAIN draft[p] THEN draft[p][k] ELSE row[k]
      /\ \A k \in DOMAIN draft[p] : draft[p][k] # None
      /\ UNCHANGED <<ask, found, copy>>
  <2>1. TypeOK /\ pc[p] = "commit" /\ ask[p] # None
    BY DEF Commit, IInv, Locking, Asked, Ends
  <2>2. \A k \in DOMAIN draft[p] : draft[p][k] # None
    BY <2>1, Kinds DEF TypeOK, RowsTyped
  <2> QED  BY <2>1, <2>2, CommitFacts
<1>1. Stations'
  BY <1>0 DEF RowsKept, Stations
<1>2. RenamesAlone'
  <2>1. /\ \A s \in Schools : sharing'[s] = sharing[s] \ {p}
        /\ \A s \in Schools : renaming'[s] = IF renaming[s] = p THEN None ELSE renaming[s]
    BY <1>0, CommitFacts
  <2> QED  BY <1>0, <2>1, Kinds DEF RowsKept, RenamesAlone
<1>3. MovesKnown'
  <2> SUFFICES ASSUME NEW q \in Movers, pc'[q] \notin Ends \cup {"begin"}, NEW k \in RowsOf(ask[q])
               PROVE  row'[k] # None
    BY <1>0 DEF MovesKnown, Known
  <2>1. q # p /\ q \in Requests /\ q \in Writers
    BY <1>0, Kinds, KindsApart DEF Ends
  <2>2. pc[q] \notin Ends \cup {"begin"}
    BY <1>0, <2>1
  <2>3. row[k] # None /\ k \in Keys
    BY <1>0, <2>1, <2>2, RowAt DEF RowsKept, MovesKnown, Known, IInv, Locking, Asked
  <2> QED  BY <1>0, <2>3
<1>4. OneDraft' /\ WritersDraft' /\ OthersDraft'
  BY <1>0, Kinds DEF RowsKept, Drafting, OneDraft, WritersDraft, OthersDraft
<1>5. RewritesRows'
  <2> SUFFICES ASSUME NEW q \in Renamers \cup Refreshers, NEW k \in DOMAIN draft'[q]
               PROVE  row'[k] # None /\ draft'[q][k].school = row'[k].school
    BY <1>0 DEF RewritesRows
  <2>1. q # p /\ q \in Requests /\ k \in DOMAIN draft[q]
    BY <1>0, Kinds
  <2>2. k \in Keys /\ k \notin DOMAIN draft[p]
    BY <1>0, <2>1 DEF TypeOK, RowsTyped, RowsKept, Drafting, OneDraft
  <2> QED  BY <1>0, <2>1, <2>2 DEF RowsKept, Drafting, RewritesRows
<1>6. StillNew'
  <2>1. ASSUME NEW q \in Creators, ask[q] # None, pc'[q] # "done", NEW k \in RowsOf(ask[q])
        PROVE  row'[k] = None
    <3>1. q # p /\ q \in Requests /\ q \in Writers /\ pc[q] # "done"
      BY <1>0, <2>1, Kinds, KindsApart
    <3>2. k \in Keys /\ row[k] = None
      BY <1>0, <2>1, <3>1, RowAt DEF RowsKept, Drafting, StillNew
    <3>3. ASSUME k \in DOMAIN draft[p]  PROVE FALSE
      <4>1. p \in Creators \/ p \in Classers
        BY <3>2, <3>3, DraftedNew
      <4>2. k \in RowsOf(ask[p])
        BY <3>3, <4>1, KindsApart DEF RowsKept, Drafting, WritersDraft
      <4>3. CASE p \in Creators
        BY <1>0, <2>1, <3>1, <4>2, <4>3, RowFacts
      <4>4. CASE p \in Classers
        BY <1>0, <2>1, <3>1, <4>2, <4>4, RowTables, KindsApart
      <4> QED  BY <4>1, <4>3, <4>4
    <3> QED  BY <1>0, <3>2, <3>3
  <2>2. ASSUME NEW f \in FeeMakers, ask[f] # None, pc'[f] # "done"
        PROVE  row'[FeeKey(f)] = None
    <3>1. /\ f # p /\ f \in Requests /\ pc[f] # "done"
          /\ FeeKey(f) \in Keys /\ FeeKey(f)[1] = "schoolcontributedata"
      BY <1>0, <2>2, Kinds, RowFacts
    <3>2. row[FeeKey(f)] = None
      BY <2>2, <3>1 DEF RowsKept, Drafting, StillNew
    <3>3. ASSUME FeeKey(f) \in DOMAIN draft[p]  PROVE FALSE
      <4>1. p \in Writers
        BY <3>2, <3>3, DraftedNew, KindsApart
      <4>2. FeeKey(f) \in RowsOf(ask[p])
        BY <3>3, <4>1 DEF RowsKept, Drafting, WritersDraft
      <4> QED  BY <1>0, <3>1, <4>1, <4>2, RowTables
    <3> QED  BY <1>0, <3>1, <3>2, <3>3
  <2> QED  BY <1>0, <2>1, <2>2 DEF StillNew, FeeKey
<1>7. RefreshesOwn'
  <2> SUFFICES ASSUME NEW u \in Refreshers
               PROVE  /\ pc'[u] \in {"find", "refresh"} => copy[u].school = ask[u].school
                      /\ pc'[u] = "refresh" =>
                           \A n \in DOMAIN found[u] : found[u][n] \in FeesOf(ask[u].school)'
    BY <1>0 DEF RefreshesOwn
  <2>1. pc'[u] \in {"find", "refresh"} => pc'[u] = pc[u]
    BY <1>0, Kinds
  <2>2. \A k \in FeesOf(ask[u].school) : k \in FeesOf(ask[u].school)'
    <3> SUFFICES ASSUME NEW k \in FeesOf(ask[u].school)
                 PROVE  k \in FeesOf(ask[u].school)'
      OBVIOUS
    <3>1. k \in Keys /\ row[k] # None /\ k[1] = "schoolcontributedata"
      BY DEF FeesOf, Keys
    <3>2. k \in DOMAIN draft[p] => draft[p][k].school = row[k].school
      BY <1>0, <3>1, FeesRowsStay
    <3>3. row'[k] # None /\ row'[k].school = row[k].school
      BY <1>0, <3>1, <3>2
    <3> QED  BY <1>0, <3>3 DEF FeesOf
  <2> QED  BY <2>1, <2>2 DEF RowsKept, RefreshesOwn
<1> QED  BY <1>1, <1>2, <1>3, <1>4, <1>5, <1>6, <1>7 DEF RowsKept, Drafting

\* At first nobody has drafted and the rows of the creates are not there.
LEMMA InitRows ==
    ASSUME Init
    PROVE  RowsKept
<1>1. \A p \in Requests : /\ draft[p] = NoRows /\ DOMAIN draft[p] = {}
                          /\ pc[p] = IF ask[p] = None THEN "done" ELSE FirstStep(p)
  BY DEF Init, NoRows
<1>2. TypeOK
  BY InitInvariant DEF IInv
<1>3. /\ \A p \in Writers : FirstStep(p) = "begin"
      /\ \A p \in Renamers : FirstStep(p) = "lock"
      /\ \A p \in FeeMakers : FirstStep(p) = "read"
      /\ \A p \in Refreshers : FirstStep(p) = "share"
      /\ \A p \in Deleters : FirstStep(p) = "count"
  BY KindsApart DEF FirstStep
<1>4. Stations
  BY <1>1, <1>3, KindsApart DEF Stations, Writers
<1>5. RenamesAlone
  BY Kinds DEF Init, RenamesAlone
<1>6. MovesKnown
  BY <1>1, <1>3, Kinds, KindsApart DEF MovesKnown, Ends
<1>7. OneDraft /\ WritersDraft /\ OthersDraft /\ RewritesRows
  BY <1>1, Kinds DEF OneDraft, WritersDraft, OthersDraft, RewritesRows
<1>9. RefreshesOwn
  BY <1>1, <1>3, Kinds DEF RefreshesOwn
<1>8. StillNew
  <2>1. \A k \in Keys : Home[k] = None => row[k] = None
    BY DEF Init
  <2>2. \A p \in Creators : ask[p] # None => \A k \in RowsOf(ask[p]) : Home[k] = None /\ k \in Keys
    BY <1>2, Kinds, KindsApart, RowFacts, RowAt
  <2>3. \A f \in FeeMakers : ask[f] # None => Home[FeeKey(f)] = None /\ FeeKey(f) \in Keys
    BY <1>2, Kinds, RowFacts
  <2> QED  BY <2>1, <2>2, <2>3 DEF StillNew
<1> QED  BY <1>4, <1>5, <1>6, <1>7, <1>8, <1>9 DEF RowsKept, Drafting

\* Every step keeps who holds which rows.
LEMMA NextRows ==
    ASSUME IInv, RowsKept, [Next]_vars
    PROVE  RowsKept'
<1>1. ASSUME NEW p \in Requests, NEW how \in {"refused", "failed"}, pc[p] \notin Ends,
             Rollback(p, how)
      PROVE  RowsKept'
  BY <1>1, RollbackKeepsRows
<1>2. ASSUME NEW p \in Writers, WriterStep(p)  PROVE RowsKept'
  <2>1. p \in Requests  BY Kinds
  <2>2. CASE Begin(p) \/ Check(p) \/ Resolve(p)  BY <2>2, ReadsKeepRows
  <2>3. CASE RefuseDeleted(p) \/ RefuseUnknown(p) \/ RefuseSchool(p)
    <3>1. pc[p] \in {"begin", "check", "resolve"} /\ Rollback(p, "refused")
      BY <2>3 DEF RefuseDeleted, RefuseUnknown, RefuseSchool
    <3>2. pc[p] \notin Ends
      BY <3>1 DEF Ends
    <3> QED  BY <2>1, <3>1, <3>2, <1>1
  <2>4. CASE Write(p)  BY <2>4, WriteKeepsRows
  <2>5. CASE Commit(p)  BY <2>1, <2>5, CommitKeepsRows
  <2> QED  BY <1>2, <2>2, <2>3, <2>4, <2>5 DEF WriterStep
<1>3. ASSUME NEW r \in Renamers, RenameStep(r)  PROVE RowsKept'
  <2>1. r \in Requests  BY Kinds
  <2>2. CASE LockSchool(r) \/ CascadeNext(r)  BY <2>2, RenameTurnsKeepRows
  <2>3. CASE RefuseRename(r)
    BY <2>1, <2>3, <1>1 DEF RefuseRename, Ends
  <2>4. CASE Cascade(r)  BY <2>4, CascadeKeepsRows
  <2>5. CASE Commit(r)  BY <2>1, <2>5, CommitKeepsRows
  <2> QED  BY <1>3, <2>2, <2>3, <2>4, <2>5 DEF RenameStep
<1>4. ASSUME NEW f \in FeeMakers, FeeStep(f)  PROVE RowsKept'
  <2>1. f \in Requests  BY Kinds
  <2>2. CASE ReadForFee(f)  BY <2>2, OtherReadsKeepRows
  <2>3. CASE RefuseFee(f)
    BY <2>1, <2>3, <1>1 DEF RefuseFee, Ends
  <2>4. CASE InsertFee(f)  BY <2>4, InsertFeeKeepsRows
  <2> QED  BY <1>4, <2>2, <2>3, <2>4 DEF FeeStep
<1>5. ASSUME NEW u \in Refreshers, RefreshStep(u)  PROVE RowsKept'
  <2>1. u \in Requests  BY Kinds
  <2>2. CASE ShareForRefresh(u) \/ FindFees(u)  BY <2>2, OtherReadsKeepRows
  <2>3. CASE RefreshFee(u)  BY <2>3, RefreshFeeKeepsRows
  <2>4. CASE Commit(u)  BY <2>1, <2>4, CommitKeepsRows
  <2> QED  BY <1>5, <2>2, <2>3, <2>4 DEF RefreshStep
<1>6. ASSUME NEW d \in Deleters, DeleteStep(d)  PROVE RowsKept'
  BY <1>6, OtherReadsKeepRows
<1>7. ASSUME NEW p \in Requests, Fail(p)  PROVE RowsKept'
  BY <1>7, <1>1 DEF Fail
<1>8. ASSUME NEW p \in Requests, Victim(p)  PROVE RowsKept'
  <2>1. Rollback(p, "failed")
    BY <1>8 DEF Victim
  <2>2. p \in Waiting
    BY <1>8 DEF Victim, Rings
  <2>3. pc[p] \notin Ends
    BY <2>2 DEF Waiting, Blockers, Ends
  <2> QED  BY <2>1, <2>3, <1>1
<1>9. CASE UNCHANGED vars
  <2>1. UNCHANGED <<row, draft, sharing, renaming, pc, ask, found, copy>>
    BY <1>9 DEF vars
  <2>4. RefreshesOwn'
    BY <2>1 DEF RowsKept, RefreshesOwn, FeesOf
  <2>2. Stations' /\ RenamesAlone' /\ MovesKnown'
    BY <2>1 DEF RowsKept, Stations, RenamesAlone, MovesKnown, Known
  <2>3. Drafting'
    BY <2>1 DEF RowsKept, Drafting, OneDraft, WritersDraft, OthersDraft, RewritesRows,
       StillNew, FeeKey
  <2> QED  BY <2>2, <2>3, <2>4 DEF RowsKept
<1> QED  BY <1>2, <1>3, <1>4, <1>5, <1>6, <1>7, <1>8, <1>9 DEF Next, Progress

\* Who holds and drafts which rows, whatever the requests and their overlaps.
THEOREM RowsInvariant == Spec => []RowsKept
BY InitRows, NextRows, InitInvariant, NextInvariant, Invariant, PTL DEF Spec

-----------------------------------------------------------------------------
\* Whom a request waits for: the rename of a school, or who drafted a row
\* that it names, that its cascade has to reach or that it saves next.
LEMMA Waits ==
    ASSUME IInv, RowsKept, NEW p \in Requests, pc[p] # "lock", NEW q \in Blockers(p)
    PROVE  /\ q \in Requests
           /\ \/ \E s \in Schools : renaming[s] = q
              \/ /\ q # p
                 /\ \E k \in DOMAIN draft[q] :
                      \/ p \in Writers /\ pc[p] = "write" /\ k = Line(p).keys[at[p]]
                      \/ p \in Renamers /\ pc[p] = "cascade" /\ k \in Pending(p)
                      \/ p \in Refreshers /\ pc[p] = "refresh" /\ k \in FeesOf(ask[p].school)
<1>0. TypeOK /\ Stations /\ Asked
  BY DEF IInv, Locking, RowsKept
<1>1. CASE pc[p] \in {"check", "resolve"}
  <2>1. PICK s \in Candidates(p) : q = renaming[s] /\ q # None
    BY <1>1 DEF Blockers
  <2>2. s \in Schools
    BY <2>1 DEF Candidates
  <2> QED  BY <1>0, <2>1, <2>2, Kinds DEF TypeOK, LocksTyped
<1>2. CASE pc[p] = "share"
  <2>1. q = renaming[ask[p].school] /\ q # None
    BY <1>2 DEF Blockers
  <2>2. ask[p].school \in Schools
    BY <1>0, <1>2, AskFacts DEF Stations, Asked, Ends
  <2> QED  BY <1>0, <2>1, <2>2, Kinds DEF TypeOK, LocksTyped
<1>3. CASE pc[p] = "write"
  <2> DEFINE k == Line(p).keys[at[p]]
  <2>1. q \in Holders(k) \ {p}
    BY <1>3 DEF Blockers
  <2>2. q \in Requests /\ q # p /\ k \in DOMAIN draft[q]
    BY <2>1 DEF Holders
  <2>3. p \in Writers
    BY <1>0, <1>3 DEF Stations
  <2> QED  BY <1>3, <2>2, <2>3
<1>4. CASE pc[p] = "cascade"
  <2>0. Blockers(p) = (UNION {Holders(k) : k \in Pending(p)}) \ {p}
    BY <1>4 DEF Blockers
  <2>1. PICK k \in Pending(p) : q \in Holders(k) /\ q # p
    BY <2>0
  <2>2. q \in Requests /\ k \in DOMAIN draft[q]
    BY <2>1 DEF Holders
  <2>3. p \in Renamers
    BY <1>0, <1>4 DEF Stations
  <2> QED  BY <1>4, <2>1, <2>2, <2>3
<1>5. CASE pc[p] = "refresh"
  <2> DEFINE k == found[p][at[p]]
  <2>1. q \in Holders(k) \ {p}
    BY <1>5 DEF Blockers
  <2>2. q \in Requests /\ q # p /\ k \in DOMAIN draft[q]
    BY <2>1 DEF Holders
  <2>3. p \in Refreshers
    BY <1>0, <1>5 DEF Stations
  <2>4. at[p] \in DOMAIN found[p]
    BY <1>0, <1>5, <2>3, Kinds DEF IInv, Locking, Starting, TypeOK, PlacesTyped
  <2>5. k \in FeesOf(ask[p].school)
    BY <1>5, <2>3, <2>4 DEF RowsKept, RefreshesOwn
  <2> QED  BY <1>5, <2>2, <2>3, <2>5
<1> QED  BY <1>1, <1>2, <1>3, <1>4, <1>5 DEF Blockers

\* A rename that waits for its school holds nothing.
LEMMA LockHoldsNothing ==
    ASSUME IInv, RowsKept, NEW q \in Requests, pc[q] = "lock", NEW p \in Requests
    PROVE  q \notin Blockers(p)
<1> SUFFICES ASSUME q \in Blockers(p)  PROVE FALSE
  OBVIOUS
<1>1. q \in Renamers
  BY DEF RowsKept, Stations
<1>2. DOMAIN draft[q] = {}
  BY <1>1 DEF IInv, Renaming, RenameDraft
<1>3. \A s \in Schools : q \notin sharing[s] /\ renaming[s] # q
  BY <1>1 DEF RowsKept, RenamesAlone
<1>4. CASE pc[p] = "lock"
  <2>1. ask[p].school \in Schools
    BY <1>4, AskFacts DEF IInv, Locking, Asked, Ends, RowsKept, Stations
  <2> QED  BY <1>3, <1>4, <2>1 DEF Blockers
<1>5. CASE pc[p] # "lock"
  BY <1>2, <1>3, <1>5, Waits
<1> QED  BY <1>4, <1>5

\* A request without a move that others wait for, and that waits itself,
\* is a cascade or a refresh, or has drafted rows of its create.
LEMMA WhoIsWaitedFor ==
    ASSUME IInv, RowsKept, NEW p \in Waiting \ Movers, NEW k \in DOMAIN draft[p]
    PROVE  \/ p \in Renamers /\ pc[p] = "cascade"
           \/ p \in Refreshers
           \/ p \in Creators /\ ask[p] # None /\ pc[p] # "done" /\ k \in RowsOf(ask[p])
<1>1. p \in Requests /\ pc[p] \notin Ends \cup {"commit"}
  BY DEF Waiting, Blockers, Ends
<1>2. CASE p \in Renamers
  BY <1>1, <1>2 DEF IInv, Renaming, RenameDraft
<1>3. CASE p \in Creators
  <2>1. k \in RowsOf(ask[p])
    BY <1>3, KindsApart DEF RowsKept, Drafting, WritersDraft
  <2> QED  BY <1>1, <1>3, <2>1 DEF IInv, Locking, Asked, Ends
<1>4. CASE p \in Classers
  BY <1>1, <1>4, KindsApart DEF RowsKept, Drafting, WritersDraft
<1>5. CASE p \in FeeMakers \cup Deleters
  BY <1>1, <1>5 DEF RowsKept, Drafting, OthersDraft
<1> QED  BY <1>1, <1>2, <1>3, <1>4, <1>5, KindsApart

\* Only a move waits for a create: nobody else names its rows, which no
\* cascade and no refresh finds.
LEMMA NobodyWaitsForACreate ==
    ASSUME IInv, RowsKept, NEW p \in Creators, NEW q \in Requests \ Movers,
           ask[p] # None, pc[p] # "done", p \in Blockers(q), pc[q] # "lock",
           DOMAIN draft[p] \subseteq RowsOf(ask[p])
    PROVE  FALSE
<1>0. p \in Requests /\ p \in Writers /\ p \notin Renamers /\ TypeOK
  BY Kinds, KindsApart DEF IInv
<1>1. \A s \in Schools : renaming[s] # p
  BY <1>0, Kinds DEF TypeOK, LocksTyped
<1>2. PICK k \in DOMAIN draft[p] :
        \/ q \in Writers /\ pc[q] = "write" /\ k = Line(q).keys[at[q]]
        \/ q \in Renamers /\ pc[q] = "cascade" /\ k \in Pending(q)
        \/ q \in Refreshers /\ pc[q] = "refresh" /\ k \in FeesOf(ask[q].school)
  BY <1>1, Waits
<1>3. k \in RowsOf(ask[p]) /\ row[k] = None
  BY <1>2 DEF RowsKept, Drafting, StillNew
<1>4. q # p
  BY <1>1, Waits
<1>5. CASE q \in Writers /\ pc[q] = "write" /\ k = Line(q).keys[at[q]]
  <2>1. ask[q] # None
    BY <1>5 DEF IInv, Locking, Asked, Ends
  <2>2. k \in RowsOf(ask[q])
    BY <1>0, <1>5, <2>1, RowAt
  <2>3. CASE q \in Creators
    BY <1>0, <1>3, <1>4, <2>1, <2>2, <2>3, RowFacts
  <2>4. CASE q \in Classers
    BY <1>0, <1>3, <2>1, <2>2, <2>4, RowTables, KindsApart
  <2> QED  BY <1>5, <2>3, <2>4 DEF Writers, Creators
<1>6. k \notin Pending(q) /\ k \notin FeesOf(ask[q].school)
  BY <1>3 DEF Pending, FeesOf
<1> QED  BY <1>2, <1>5, <1>6

\* In a ring without a move, each is a rename in its cascade or a refresh.
LEMMA RingOfCascades ==
    ASSUME IInv, RowsKept, NEW ring \in Rings, ring \cap Movers = {}, NEW p \in ring
    PROVE  (p \in Renamers /\ pc[p] = "cascade") \/ p \in Refreshers
<1>1. p \in Waiting \ Movers /\ p \in Requests
  BY DEF Rings, Waiting
<1>2. PICK q \in ring : p \in Blockers(q)
  BY DEF Rings
<1>3. q \in Waiting \ Movers /\ q \in Requests
  BY DEF Rings, Waiting
<1>4. pc[q] # "lock"
  <2>1. PICK w \in ring : q \in Blockers(w)
    BY DEF Rings
  <2>2. w \in Requests
    BY DEF Rings, Waiting
  <2> QED  BY <1>3, <2>1, <2>2, LockHoldsNothing
<1>5. CASE \E s \in Schools : renaming[s] = p
  <2>1. p \in Renamers
    BY <1>1, <1>5, Kinds DEF IInv, TypeOK, LocksTyped
  <2>2. pc[p] \in {"cascade", "commit"}
    BY <1>5, <2>1 DEF RowsKept, RenamesAlone
  <2>3. pc[p] # "commit"
    BY <1>1 DEF Waiting, Blockers
  <2> QED  BY <2>1, <2>2, <2>3
<1>6. CASE ~ \E s \in Schools : renaming[s] = p
  <2>1. PICK k \in DOMAIN draft[p] : TRUE
    BY <1>2, <1>3, <1>4, <1>6, Waits
  <2>2. CASE (p \in Renamers /\ pc[p] = "cascade") \/ p \in Refreshers
    BY <2>2
  <2>3. CASE p \in Creators /\ ask[p] # None /\ pc[p] # "done"
    <3>1. DOMAIN draft[p] \subseteq RowsOf(ask[p])
      BY <2>1, <2>3, KindsApart DEF RowsKept, Drafting, WritersDraft
    <3> QED  BY <1>2, <1>3, <1>4, <2>3, <3>1, NobodyWaitsForACreate
  <2> QED  BY <1>1, <2>1, <2>2, <2>3, WhoIsWaitedFor
<1> QED  BY <1>5, <1>6

\* A cascade waits for no cascade and no refresh: these have drafted rows of
\* schools they hold, and the cascade holds its own alone.
LEMMA CascadesDoNotWait ==
    ASSUME IInv, RowsKept, NEW p \in Renamers, pc[p] = "cascade",
           NEW q \in Renamers \cup Refreshers
    PROVE  q \notin Blockers(p)
<1> SUFFICES ASSUME q \in Blockers(p)  PROVE FALSE
  OBVIOUS
<1>0. Blockers(p) = (UNION {Holders(k) : k \in Pending(p)}) \ {p}
  BY DEF Blockers
<1>1. PICK k \in Pending(p) : q # p /\ q \in Holders(k)
  BY <1>0
<1>2. q \in Requests /\ k \in DOMAIN draft[q]
  BY <1>1 DEF Holders
<1>3. draft[q][k].school = ask[p].school
  BY <1>1, <1>2 DEF RowsKept, Drafting, RewritesRows, Pending
<1>4. renaming[ask[p].school] = p
  BY DEF IInv, Locking, RenameHolds
<1>5. CASE q \in Renamers
  <2>0. /\ pc[q] \in {"cascade", "commit"}
        /\ draft[q][k] = [school |-> ask[q].school, name |-> ask[q].text]
    BY <1>2, <1>5 DEF IInv, Renaming, RenameDraft
  <2>1. pc[q] \in {"cascade", "commit"} /\ draft[q][k].school = ask[q].school
    BY <2>0
  <2>2. renaming[ask[q].school] = q
    BY <1>5, <2>1 DEF IInv, Locking, RenameHolds
  <2> QED  BY <1>1, <1>3, <1>4, <2>1, <2>2
<1>6. CASE q \in Refreshers
  <2>1. q \in sharing[ask[p].school]
    BY <1>2, <1>3, <1>6, Kinds DEF IInv, Copying, DraftIsCurrent
  <2>2. ask[p].school \in Schools /\ p # None
    BY Kinds, AskFacts DEF IInv, Locking, Asked, Ends
  <2> QED  BY <1>4, <2>1, <2>2 DEF IInv, Locking, LocksExclude
<1> QED  BY <1>5, <1>6

\* Of requests that wait for each other in a ring one is a move, or all are
\* refreshes, for any schools, rows and requests.
THEOREM OnlyMovesRing == Spec => []RingsNeedAMove
<1>1. IInv /\ RowsKept => RingsNeedAMove
  <2> SUFFICES ASSUME IInv, RowsKept, NEW ring \in Rings, ring \cap Movers = {}, NEW p \in ring
               PROVE  p \in Refreshers
    BY DEF RingsNeedAMove
  <2>1. PICK q \in ring : q \in Blockers(p)
    BY DEF Rings
  <2>2. /\ (p \in Renamers /\ pc[p] = "cascade") \/ p \in Refreshers
        /\ q \in Renamers \cup Refreshers
    BY RingOfCascades
  <2> QED  BY <2>1, <2>2, CascadesDoNotWait
<1> QED  BY <1>1, Invariant, RowsInvariant, PTL

-----------------------------------------------------------------------------
\* A move names no learner in two of its lines.
MovesNameOnce ==
    \A a \in Asks : \A p \in Movers : a[p] # None =>
        \A i, j \in DOMAIN a[p] : a[p][i].keys = a[p][j].keys => i = j

\* An enrolment drafts rows of one school, and a learner after the login.
EnrolsBoth(p) ==
    /\ pc[p] = "write" => copy[p].school = Line(p).given
    /\ \A k \in DOMAIN draft[p] : draft[p][k].school = ask[p][1].given
    /\ \A x \in People : Student(x) \in DOMAIN draft[p] => Login(x) \in DOMAIN draft[p]
    /\ pc[p] \in {"begin", "resolve", "write"} =>
          \A i \in DOMAIN ask[p] : \A j \in DOMAIN ask[p][i].keys :
             i < turn[p] \/ (i = turn[p] /\ j < at[p]) => ask[p][i].keys[j] \in DOMAIN draft[p]

\* The learner of the line is drafted, the login comes next.
HalfMoved(p, x) == pc[p] = "write" /\ at[p] = 2 /\ Line(p).keys = <<Student(x), Login(x)>>

\* The login is drafted with the learner's school or was in it.
Followed(p, x) ==
    IF Login(x) \in DOMAIN draft[p]
    THEN draft[p][Login(x)].school = draft[p][Student(x)].school
    ELSE row[Login(x)] # None /\ row[Login(x)].school = draft[p][Student(x)].school

\* A move passes a learner and then the login, of a line it is past.
MovesBoth(p) ==
    \A x \in People :
        /\ HalfMoved(p, x) => /\ Student(x) \in DOMAIN draft[p] /\ Login(x) \notin DOMAIN draft[p]
                              /\ draft[p][Student(x)] = copy[p]
        /\ Login(x) \in DOMAIN draft[p] => Student(x) \in DOMAIN draft[p]
        /\ Student(x) \in DOMAIN draft[p] =>
              /\ HalfMoved(p, x) \/ Followed(p, x)
              /\ \E i \in DOMAIN ask[p] :
                    /\ ask[p][i].keys = <<Student(x), Login(x)>>
                    /\ i < turn[p] \/ (i = turn[p] /\ (at[p] = 2 \/ pc[p] = "commit"))

Together ==
    /\ \A p \in Enrollers : EnrolsBoth(p)
    /\ \A p \in Movers : MovesBoth(p)
    /\ LoginFollowsLearner

\* A step of p that writes no row of a person concerns only what p drafted.
LEMMA OthersTogether ==
    ASSUME IInv, Together, NEW p \in Requests, ask' = ask,
           \A x \in People : row'[Student(x)] = row[Student(x)] /\ row'[Login(x)] = row[Login(x)],
           \A q \in Writers \ {p} :
              /\ pc'[q] = pc[q] /\ draft'[q] = draft[q] /\ turn'[q] = turn[q]
              /\ at'[q] = at[q] /\ copy'[q] = copy[q],
           p \in Enrollers => EnrolsBoth(p)', p \in Movers => MovesBoth(p)'
    PROVE  Together'
<1>1. ASSUME NEW q \in Enrollers \ {p}  PROVE EnrolsBoth(q)'
  <2>1. q \in Writers  BY KindsApart
  <2>2. EnrolsBoth(q)  BY DEF Together
  <2> QED  BY <2>1, <2>2 DEF EnrolsBoth, Line
<1>2. ASSUME NEW q \in Movers \ {p}  PROVE MovesBoth(q)'
  <2>1. q \in Writers  BY KindsApart
  <2>2. MovesBoth(q)  BY DEF Together
  <2>3. \A x \in People : HalfMoved(q, x)' <=> HalfMoved(q, x)
    BY <2>1 DEF HalfMoved, Line
  <2>4. \A x \in People : Followed(q, x)' <=> Followed(q, x)
    BY <2>1 DEF Followed
  <2> QED  BY <2>1, <2>2, <2>3, <2>4 DEF MovesBoth
<1>3. LoginFollowsLearner'
  BY DEF Together, LoginFollowsLearner
<1> QED  BY <1>1, <1>2, <1>3 DEF Together

\* A writer that has drafted nothing and writes no row next.
LEMMA NothingDrafted ==
    ASSUME NEW p \in Requests, DOMAIN draft'[p] = {}, pc'[p] # "write"
    PROVE  /\ MovesBoth(p)'
           /\ pc'[p] \notin {"begin", "resolve"} => EnrolsBoth(p)'
BY DEF MovesBoth, EnrolsBoth, HalfMoved

\* The lines of an enrolment give schools by id, and their rows are numbered.
LEMMA EnrolLines ==
    ASSUME TypeOK, NEW p \in Enrollers, ask[p] # None
    PROVE  /\ Line(p).given \in Schools /\ Line(p).given = ask[p][1].given
           /\ DOMAIN ask[p] = 1 .. Len(ask[p])
           /\ \A i \in DOMAIN ask[p] :
                DOMAIN ask[p][i].keys = 1 .. Len(ask[p][i].keys) /\ Len(ask[p][i].keys) \in Nat
<1>1. p \in Requests /\ p \in Writers /\ ask \in Asks
  BY Kinds, KindsApart DEF TypeOK, RequestsTyped
<1>2. ask[p] \in Seq(Lines) /\ turn[p] \in DOMAIN ask[p]
  BY <1>1, AskFacts DEF TypeOK, PlacesTyped
<1>3. \A i \in DOMAIN ask[p] : ask[p][i].given \in Schools
  BY <1>1, SchoolNamesAssumed, Zenon DEF AsksAssumption
<1>4. \A i \in DOMAIN ask[p] : ask[p][i].given = ask[p][1].given
  BY <1>1, RowFacts
<1>5. ASSUME NEW i \in DOMAIN ask[p]
      PROVE  DOMAIN ask[p][i].keys = 1 .. Len(ask[p][i].keys) /\ Len(ask[p][i].keys) \in Nat
  <2>1. ask[p][i] \in Lines
    BY <1>2, <1>5
  <2>2. ask[p][i].keys \in Seq(Keys)
    BY <2>1 DEF Lines
  <2> QED  BY <2>2
<1> QED  BY <1>2, <1>3, <1>4, <1>5 DEF Line

\* The steps of a writer that read.
LEMMA ReadsTogether ==
    ASSUME IInv, RowsKept, Together, NEW p \in Writers, Begin(p) \/ Check(p) \/ Resolve(p)
    PROVE  Together'
<1>0. p \in Requests /\ ask[p] # None /\ UNCHANGED <<row, draft, ask, at>>
  BY Kinds DEF Begin, Check, Resolve, IInv, Locking, Asked, Ends
<1>1. \A q \in Writers \ {p} :
        /\ pc'[q] = pc[q] /\ draft'[q] = draft[q] /\ turn'[q] = turn[q]
        /\ at'[q] = at[q] /\ copy'[q] = copy[q]
  BY <1>0, Kinds DEF Begin, Check, Resolve, IInv, TypeOK, RequestsTyped, PlacesTyped
<1>2. CASE Begin(p) \/ Check(p)
  <2>1. pc[p] \in {"begin", "check"} /\ pc'[p] # "write"
    BY <1>0, <1>2 DEF Begin, Check, IInv, TypeOK, RequestsTyped
  <2>2. DOMAIN draft[p] = {}
    BY <2>1 DEF RowsKept, Drafting, WritersDraft
  <2>3. MovesBoth(p)'
    BY <1>0, <2>1, <2>2, NothingDrafted
  <2>4. p \in Enrollers => EnrolsBoth(p)'
    <3> SUFFICES ASSUME p \in Enrollers  PROVE EnrolsBoth(p)'
      OBVIOUS
    <3>1. Begin(p) /\ pc[p] = "begin" /\ turn' = turn
      BY <1>2, KindsApart DEF Check, RowsKept, Stations, Begin
    <3>2. EnrolsBoth(p)
      BY DEF Together
    <3> QED  BY <1>0, <2>1, <2>2, <3>1, <3>2 DEF EnrolsBoth
  <2> QED  BY <1>0, <1>1, <2>3, <2>4, OthersTogether
<1>3. CASE Resolve(p)
  <2>1. /\ pc[p] = "resolve" /\ pc'[p] = "write" /\ at[p] = 1 /\ turn' = turn
    BY <1>0, <1>3 DEF Resolve, IInv, TypeOK, RequestsTyped, Locking, Starting
  <2>2. PICK s \in Schools : Candidates(p) = {s} /\ copy'[p] = [school |-> s, name |-> school[s]]
    BY <1>0, <1>3 DEF Resolve, Resolved, IInv, TypeOK, RequestsTyped
  <2>3. ASSUME p \in Enrollers  PROVE EnrolsBoth(p)'
    <3>1. EnrolsBoth(p)
      BY <2>3 DEF Together
    <3>2. Line(p).given \in Schools
      BY <1>0, <2>3, EnrolLines DEF IInv
    <3>3. copy'[p].school = Line(p).given
      BY <2>2, <3>2 DEF Candidates
    <3> QED  BY <1>0, <2>1, <3>1, <3>3 DEF EnrolsBoth, Line
  <2>4. ASSUME p \in Movers  PROVE MovesBoth(p)'
    <3>1. MovesBoth(p)
      BY <2>4 DEF Together
    <3>2. \A x \in People : ~HalfMoved(p, x)' /\ ~HalfMoved(p, x)
      BY <1>0, <2>1 DEF HalfMoved
    <3>3. \A x \in People : Followed(p, x)' <=> Followed(p, x)
      BY <1>0 DEF Followed
    <3> QED  BY <1>0, <2>1, <3>1, <3>2, <3>3 DEF MovesBoth
  <2> QED  BY <1>0, <1>1, <2>3, <2>4, OthersTogether
<1> QED  BY <1>2, <1>3

\* Where a write leaves its writer.
LEMMA WriteTurns ==
    ASSUME IInv, NEW p \in Writers, Write(p)
    PROVE  /\ \A q \in Requests \ {p} : turn'[q] = turn[q] /\ at'[q] = at[q]
           /\ turn[p] \in 1 .. Len(ask[p]) /\ Len(ask[p]) \in Nat
           /\ at[p] \in 1 .. Len(Line(p).keys) /\ Len(Line(p).keys) \in Nat
           /\ \/ /\ at[p] # Len(Line(p).keys)
                 /\ pc'[p] = "write" /\ turn'[p] = turn[p] /\ at'[p] = at[p] + 1
              \/ /\ at[p] = Len(Line(p).keys) /\ turn[p] < Len(ask[p])
                 /\ pc'[p] = "resolve" /\ turn'[p] = turn[p] + 1 /\ at'[p] = 1
              \/ /\ at[p] = Len(Line(p).keys) /\ turn[p] = Len(ask[p])
                 /\ pc'[p] = "commit" /\ turn'[p] = turn[p] /\ at'[p] = 1
<1>0. p \in Requests /\ ask[p] # None /\ TypeOK
  BY Kinds DEF Write, IInv, Locking, Asked, Ends
<1>1. /\ turn \in [Requests -> Nat] /\ at \in [Requests -> Nat] /\ pc \in [Requests -> Steps]
  BY <1>0 DEF TypeOK, PlacesTyped, RequestsTyped
<1>2. /\ turn[p] \in 1 .. Len(ask[p]) /\ Len(ask[p]) \in Nat
      /\ at[p] \in 1 .. Len(Line(p).keys) /\ Len(Line(p).keys) \in Nat
  <2>1. turn[p] \in 1 .. Len(ask[p]) /\ at[p] \in 1 .. Len(Line(p).keys)
        /\ Line(p).keys \in Seq(Keys) /\ ask[p] \in Seq(Lines)
    BY <1>0, LineFacts, AskFacts
  <2> QED  BY <2>1
<1>3. \A q \in Requests \ {p} : turn'[q] = turn[q] /\ at'[q] = at[q]
  BY <1>0, <1>1 DEF Write
<1> DEFINE last == at[p] = Len(Line(p).keys)
<1>4. /\ turn'[p] = IF last /\ turn[p] < Len(ask[p]) THEN turn[p] + 1 ELSE turn[p]
      /\ at'[p] = IF last THEN 1 ELSE at[p] + 1
      /\ pc'[p] = IF ~last THEN "write"
                  ELSE IF turn[p] < Len(ask[p]) THEN "resolve" ELSE "commit"
  BY <1>0, <1>1 DEF Write
<1> QED  BY <1>2, <1>3, <1>4

\* An enrolment writes its next row, of its one school.
LEMMA EnrolWrites ==
    ASSUME IInv, RowsKept, Together, NEW p \in Enrollers, Write(p)
    PROVE  EnrolsBoth(p)'
<1> DEFINE k == Line(p).keys[at[p]]
<1>0. p \in Writers /\ p \in Requests /\ EnrolsBoth(p) /\ TypeOK
  BY Kinds, KindsApart DEF Together, IInv
<1>1. /\ ask[p] # None /\ pc[p] = "write" /\ UNCHANGED <<ask, copy>>
      /\ DOMAIN draft'[p] = DOMAIN draft[p] \cup {k}
      /\ draft'[p][k] = copy[p]
      /\ \A x \in DOMAIN draft[p] \ {k} : draft'[p][x] = draft[p][x]
  BY <1>0, WriteFacts, KindsApart DEF NothingToSave
<1>2. copy[p].school = ask[p][1].given /\ copy[p].school = Line(p).given
  BY <1>0, <1>1, EnrolLines DEF EnrolsBoth
<1>3. /\ turn[p] \in DOMAIN ask[p] /\ at[p] \in DOMAIN ask[p][turn[p]].keys
      /\ k = ask[p][turn[p]].keys[at[p]]
  BY <1>0, <1>1 DEF TypeOK, PlacesTyped, Line
<1>4. \A i \in DOMAIN ask[p] : \A j \in DOMAIN ask[p][i].keys :
         i < turn[p] \/ (i = turn[p] /\ j < at[p]) => ask[p][i].keys[j] \in DOMAIN draft[p]
  BY <1>0, <1>1 DEF EnrolsBoth
<1>5. /\ turn[p] \in Nat /\ at[p] \in Nat
      /\ \A i \in DOMAIN ask[p] : i \in Nat /\ \A j \in DOMAIN ask[p][i].keys : j \in Nat \ {0}
  BY <1>0, <1>1, EnrolLines DEF TypeOK, PlacesTyped
<1>6. \A x \in DOMAIN draft'[p] : draft'[p][x].school = ask[p][1].given
  <2>1. \A x \in DOMAIN draft[p] : draft[p][x].school = ask[p][1].given
    BY <1>0 DEF EnrolsBoth
  <2> HIDE DEF k
  <2> QED  BY <1>1, <1>2, <2>1
<1>7. ASSUME NEW x \in People, Student(x) \in DOMAIN draft'[p]  PROVE Login(x) \in DOMAIN draft'[p]
  <2>1. CASE Student(x) \in DOMAIN draft[p]
    BY <1>0, <1>1, <2>1 DEF EnrolsBoth
  <2>2. CASE Student(x) = k
    <3>1. PICK h \in DOMAIN ask[p] :
            h < turn[p] /\ \E l \in DOMAIN ask[p][h].keys : ask[p][h].keys[l] = Login(x)
      <4>1. \A i \in DOMAIN ask[p] : \A j \in DOMAIN ask[p][i].keys : \A y \in People :
              ask[p][i].keys[j] = Student(y) =>
                \E h \in DOMAIN ask[p] :
                  h < i /\ \E l \in DOMAIN ask[p][h].keys : ask[p][h].keys[l] = Login(y)
        BY <1>0, <1>1, RowFacts
      <4> QED  BY <1>3, <2>2, <4>1
    <3>2. Login(x) \in DOMAIN draft[p]
      BY <1>4, <3>1
    <3> QED  BY <1>1, <3>2
  <2> QED  BY <1>1, <1>7, <2>1, <2>2
<1>8. ASSUME pc'[p] \in {"begin", "resolve", "write"},
             NEW i \in DOMAIN ask[p], NEW j \in DOMAIN ask[p][i].keys,
             i < turn'[p] \/ (i = turn'[p] /\ j < at'[p])
      PROVE  ask[p][i].keys[j] \in DOMAIN draft'[p]
  <2>1. j \in 1 .. Len(ask[p][i].keys) /\ Len(ask[p][i].keys) \in Nat
    BY <1>0, <1>1, EnrolLines
  <2>2. i < turn[p] \/ (i = turn[p] /\ j < at[p]) \/ (i = turn[p] /\ j = at[p])
    <3>1. CASE pc'[p] = "write"
      <4>1. turn'[p] = turn[p] /\ at'[p] = at[p] + 1
        BY <1>0, <3>1, WriteTurns
      <4> QED  BY <1>5, <1>8, <4>1
    <3>2. CASE pc'[p] = "resolve"
      <4>1. turn'[p] = turn[p] + 1 /\ at'[p] = 1 /\ at[p] = Len(ask[p][turn[p]].keys)
        BY <1>0, <3>2, WriteTurns DEF Line
      <4>2. i <= turn[p]
        BY <1>5, <1>8, <4>1
      <4> QED  BY <1>5, <2>1, <4>1, <4>2
    <3> QED  BY <1>0, <1>8, <3>1, <3>2, WriteTurns
  <2> QED  BY <1>1, <1>3, <1>4, <2>2
<1>9. pc'[p] = "write" => copy'[p].school = Line(p)'.given
  <2>1. pc'[p] = "write" => turn'[p] = turn[p]
    BY <1>0, WriteTurns
  <2> QED  BY <1>1, <1>2, <2>1 DEF Line
<1> HIDE DEF k
<1> QED  BY <1>1, <1>6, <1>7, <1>8, <1>9 DEF EnrolsBoth

\* A move writes the learner of a line, then the login unless it is in the
\* learner's school already.
LEMMA MoveWrites ==
    ASSUME MovesNameOnce, IInv, RowsKept, Together, NEW p \in Movers, Write(p)
    PROVE  MovesBoth(p)'
<1> DEFINE k == Line(p).keys[at[p]]
<1>0. p \in Writers /\ p \in Requests /\ MovesBoth(p) /\ TypeOK
  BY Kinds, KindsApart DEF Together, IInv
<1>1. /\ ask[p] # None /\ pc[p] = "write" /\ UNCHANGED <<ask, copy, row>>
      /\ copy[p] \in Copies /\ copy[p] # None
      /\ pc'[p] \in {"resolve", "write", "commit"}
      /\ \/ NothingToSave(p, k) /\ draft' = draft
         \/ /\ ~NothingToSave(p, k)
            /\ DOMAIN draft'[p] = DOMAIN draft[p] \cup {k}
            /\ draft'[p][k] = copy[p]
            /\ \A x \in DOMAIN draft[p] \ {k} : draft'[p][x] = draft[p][x]
  BY <1>0, WriteFacts, Kinds
<1>2. turn[p] \in DOMAIN ask[p] /\ DOMAIN ask[p] \subseteq Nat /\ turn[p] \in Nat /\ at[p] \in Nat
  <2>1. ask[p] \in Seq(Lines) /\ turn[p] \in 1 .. Len(ask[p]) /\ at[p] \in Nat
    BY <1>0, <1>1, AskFacts, LineFacts DEF TypeOK, PlacesTyped
  <2> QED  BY <2>1
<1>3. PICK x \in People : Line(p).keys = <<Student(x), Login(x)>>
  BY ZenonT(30), <1>0, <1>1, <1>2, RowFacts DEF Line
<1>4. Len(Line(p).keys) = 2 /\ at[p] \in {1, 2}
  <2> DEFINE a == Student(x)
             b == Login(x)
  <2>1. Line(p).keys = <<a, b>>
    BY <1>3
  <2> HIDE DEF a, b
  <2>2. Len(Line(p).keys) = 2
    BY <2>1
  <2>3. at[p] \in 1 .. Len(Line(p).keys)
    BY <1>0, WriteTurns
  <2> QED  BY <2>2, <2>3
<1>5. \A y \in People : HalfMoved(p, y) => y = x
  <2> SUFFICES ASSUME NEW y \in People, Line(p).keys = <<Student(y), Login(y)>>  PROVE y = x
    BY DEF HalfMoved
  <2>1. Student(y) = Student(x)
    BY <1>3
  <2> QED  BY <2>1, PersonRows
<1> DEFINE Passed(y) == \E i \in DOMAIN ask[p] :
              /\ ask[p][i].keys = <<Student(y), Login(y)>>
              /\ i < turn'[p] \/ (i = turn'[p] /\ (at'[p] = 2 \/ pc'[p] = "commit"))
<1>6. CASE at[p] = 1
  <2>1. k = Student(x) /\ ~NothingToSave(p, k)
    BY <1>3, <1>6, PersonRows DEF NothingToSave
  <2>2. pc'[p] = "write" /\ turn'[p] = turn[p] /\ at'[p] = 2
    BY <1>0, <1>4, <1>6, WriteTurns
  <2> HIDE DEF k
  <2>3. Student(x) \notin DOMAIN draft[p]
    <3> SUFFICES ASSUME Student(x) \in DOMAIN draft[p]  PROVE FALSE
      OBVIOUS
    <3>1. PICK i \in DOMAIN ask[p] : ask[p][i].keys = <<Student(x), Login(x)>> /\ i < turn[p]
      BY <1>0, <1>1, <1>6 DEF MovesBoth
    <3>2. ask[p][i].keys = ask[p][turn[p]].keys /\ ask \in Asks
      BY <1>0, <1>3, <3>1 DEF Line, TypeOK, RequestsTyped
    <3>3. i = turn[p]
      BY <1>1, <1>2, <3>1, <3>2, MovesNameOnce DEF MovesNameOnce
    <3> QED  BY <1>2, <3>1, <3>3
  <2>4. Login(x) \notin DOMAIN draft[p]
    BY <1>0, <2>3 DEF MovesBoth
  <2>5. /\ DOMAIN draft'[p] = DOMAIN draft[p] \cup {Student(x)}
        /\ draft'[p][Student(x)] = copy[p]
        /\ \A r \in DOMAIN draft[p] : draft'[p][r] = draft[p][r]
    BY <1>1, <2>1, <2>3
  <2>6. HalfMoved(p, x)' /\ \A y \in People : HalfMoved(p, y)' => y = x
    BY <1>1, <1>3, <1>5, <2>2, PersonRows DEF HalfMoved, Line
  <2>7. Passed(x)
    BY <1>2, <1>3, <2>2 DEF Line
  <2>8. ASSUME NEW y \in People \ {x}
        PROVE  /\ Login(y) \in DOMAIN draft'[p] <=> Login(y) \in DOMAIN draft[p]
               /\ Student(y) \in DOMAIN draft'[p] <=> Student(y) \in DOMAIN draft[p]
               /\ Student(y) \in DOMAIN draft[p] => Followed(p, y)' /\ Passed(y)
    <3>1. Student(y) # Student(x) /\ Login(y) # Student(x)
      BY PersonRows
    <3>2. /\ Login(y) \in DOMAIN draft'[p] <=> Login(y) \in DOMAIN draft[p]
          /\ Student(y) \in DOMAIN draft'[p] <=> Student(y) \in DOMAIN draft[p]
      BY <2>5, <3>1
    <3>3. ASSUME Student(y) \in DOMAIN draft[p]  PROVE Followed(p, y)' /\ Passed(y)
      <4>1. Followed(p, y)
        BY <1>0, <1>6, <3>3 DEF MovesBoth, HalfMoved
      <4>2. Followed(p, y)'
        BY <1>1, <2>5, <3>2, <3>3, <4>1 DEF Followed
      <4>3. PICK i \in DOMAIN ask[p] : ask[p][i].keys = <<Student(y), Login(y)>> /\ i < turn[p]
        BY <1>0, <1>1, <1>6, <3>3 DEF MovesBoth
      <4> QED  BY <2>2, <4>2, <4>3
    <3> QED  BY <3>2, <3>3
  <2>9. Login(x) \notin DOMAIN draft'[p] /\ Student(x) \in DOMAIN draft'[p]
    BY <2>4, <2>5, PersonRows
  <2>10. ASSUME NEW y \in People
         PROVE  /\ HalfMoved(p, y)' => /\ Student(y) \in DOMAIN draft'[p]
                                       /\ Login(y) \notin DOMAIN draft'[p]
                                       /\ draft'[p][Student(y)] = copy'[p]
                /\ Login(y) \in DOMAIN draft'[p] => Student(y) \in DOMAIN draft'[p]
                /\ Student(y) \in DOMAIN draft'[p] =>
                      (HalfMoved(p, y)' \/ Followed(p, y)') /\ Passed(y)
    <3>1. CASE y = x
      BY <1>1, <2>5, <2>6, <2>7, <2>9, <3>1
    <3>2. CASE y # x
      <4>1. Login(y) \in DOMAIN draft[p] => Student(y) \in DOMAIN draft[p]
        BY <1>0 DEF MovesBoth
      <4> QED  BY <2>6, <2>8, <3>2, <4>1
    <3> QED  BY <3>1, <3>2
  <2> QED  BY <1>1, <2>10 DEF MovesBoth
<1>7. CASE at[p] = 2
  <2>1. k = Login(x) /\ HalfMoved(p, x)
    BY <1>1, <1>3, <1>7 DEF HalfMoved
  <2>2. \/ pc'[p] = "resolve" /\ turn'[p] = turn[p] + 1
        \/ pc'[p] = "commit" /\ turn'[p] = turn[p]
    BY <1>0, <1>4, <1>7, WriteTurns
  <2>3. /\ Student(x) \in DOMAIN draft[p] /\ Login(x) \notin DOMAIN draft[p]
        /\ draft[p][Student(x)] = copy[p]
    BY <1>0, <2>1 DEF MovesBoth
  <2>4. \/ row[Login(x)] = copy[p] /\ draft' = draft
        \/ /\ DOMAIN draft'[p] = DOMAIN draft[p] \cup {Login(x)}
           /\ draft'[p][Login(x)] = copy[p]
           /\ \A r \in DOMAIN draft[p] : draft'[p][r] = draft[p][r]
    <3> HIDE DEF k
    <3> QED  BY <1>1, <2>1, <2>3 DEF NothingToSave
  <2> HIDE DEF k
  <2>5. \A y \in People : ~HalfMoved(p, y)'
    BY <2>2 DEF HalfMoved
  <2>6. Followed(p, x)' /\ Student(x) \in DOMAIN draft'[p]
    BY <1>1, <2>3, <2>4 DEF Followed
  <2>7. ASSUME NEW y \in People, Student(y) \in DOMAIN draft[p]  PROVE Passed(y)
    <3>1. PICK i \in DOMAIN ask[p] :
            /\ ask[p][i].keys = <<Student(y), Login(y)>>
            /\ i < turn[p] \/ i = turn[p]
      BY <1>0, <2>7 DEF MovesBoth
    <3>2. i < turn'[p] \/ (i = turn'[p] /\ pc'[p] = "commit")
      BY <1>2, <2>2, <3>1
    <3> QED  BY <3>1, <3>2
  <2>8. ASSUME NEW y \in People \ {x}
        PROVE  /\ Login(y) \in DOMAIN draft'[p] <=> Login(y) \in DOMAIN draft[p]
               /\ Student(y) \in DOMAIN draft'[p] <=> Student(y) \in DOMAIN draft[p]
               /\ Student(y) \in DOMAIN draft[p] => Followed(p, y)'
    <3>1. Student(y) # Login(x) /\ Login(y) # Login(x)
      BY PersonRows
    <3>2. /\ Login(y) \in DOMAIN draft'[p] <=> Login(y) \in DOMAIN draft[p]
          /\ Student(y) \in DOMAIN draft'[p] <=> Student(y) \in DOMAIN draft[p]
      BY <2>4, <3>1
    <3>3. ASSUME Student(y) \in DOMAIN draft[p]  PROVE Followed(p, y)'
      <4>1. Followed(p, y)
        BY <1>0, <1>5, <3>3 DEF MovesBoth
      <4> QED  BY <1>1, <2>4, <3>2, <3>3, <4>1 DEF Followed
    <3> QED  BY <3>2, <3>3
  <2>9. ASSUME NEW y \in People
        PROVE  /\ Login(y) \in DOMAIN draft'[p] => Student(y) \in DOMAIN draft'[p]
               /\ Student(y) \in DOMAIN draft'[p] => Followed(p, y)' /\ Passed(y)
    <3>1. CASE y = x
      BY <2>3, <2>6, <2>7, <3>1
    <3>2. CASE y # x
      <4>1. Login(y) \in DOMAIN draft[p] => Student(y) \in DOMAIN draft[p]
        BY <1>0 DEF MovesBoth
      <4> QED  BY <2>7, <2>8, <3>2, <4>1
    <3> QED  BY <3>1, <3>2
  <2> QED  BY <1>1, <2>5, <2>9 DEF MovesBoth
<1> QED  BY <1>4, <1>6, <1>7

\* Who commits the row of a person: a rename keeps its school, a create makes
\* it, a move has the learner of a login it drafts.
LEMMA WhoDraftsAPerson ==
    ASSUME IInv, RowsKept, Together, NEW p \in Requests, pc[p] = "commit", NEW x \in People,
           NEW k \in {Student(x), Login(x)}, k \in DOMAIN draft[p]
    PROVE  \/ p \in Renamers /\ row[k] # None /\ draft[p][k].school = row[k].school
           \/ p \in Creators /\ row[k] = None
           \/ p \in Movers /\ Student(x) \in DOMAIN draft[p]
<1>0. /\ k \in Keys /\ k[1] \in {"students", "schoolusers"} /\ TypeOK /\ ask[p] # None
  BY PersonRows DEF IInv, Locking, Asked, Ends
<1>1. CASE p \in Renamers
  <2>2. row[k] # None /\ draft[p][k].school = row[k].school
    BY <1>1 DEF RowsKept, Drafting, RewritesRows
  <2> QED  BY <1>1, <2>2
<1>2. CASE p \in Creators
  <2>1. k \in RowsOf(ask[p])
    BY <1>2, KindsApart DEF RowsKept, Drafting, WritersDraft
  <2> QED  BY <1>0, <1>2, <2>1 DEF RowsKept, Drafting, StillNew
<1>3. CASE p \in Movers
  <2>1. MovesBoth(p)
    BY <1>3 DEF Together
  <2> QED  BY <1>3, <2>1 DEF MovesBoth
<1>4. CASE p \in Classers
  <2>1. k \in RowsOf(ask[p]) /\ p \in Writers
    BY <1>4, KindsApart DEF RowsKept, Drafting, WritersDraft
  <2> QED  BY <1>0, <1>4, <2>1, RowTables
<1>5. CASE p \in Refreshers \cup FeeMakers \cup Deleters
  BY <1>0, <1>5 DEF RowsKept, Drafting, OthersDraft
<1> QED  BY <1>1, <1>2, <1>3, <1>4, <1>5, KindsApart

\* A commit leaves every learner with a login of the same school.
LEMMA CommitFollows ==
    ASSUME IInv, RowsKept, Together, NEW p \in Requests, Commit(p)
    PROVE  LoginFollowsLearner'
<1> SUFFICES ASSUME NEW x \in People, row'[Student(x)] # None
             PROVE  row'[Login(x)] # None /\ row'[Login(x)].school = row'[Student(x)].school
  BY DEF LoginFollowsLearner
<1> DEFINE l == Student(x)
           g == Login(x)
<1>0. /\ l \in Keys /\ g \in Keys /\ l # g
  BY PersonRows
<1>1. /\ TypeOK /\ pc[p] = "commit"
      /\ row'[l] = IF l \in DOMAIN draft[p] THEN draft[p][l] ELSE row[l]
      /\ row'[g] = IF g \in DOMAIN draft[p] THEN draft[p][g] ELSE row[g]
  BY <1>0, CommitFacts DEF Commit, IInv
<1>2. \A k \in DOMAIN draft[p] : draft[p][k] # None
  BY <1>1, Kinds DEF TypeOK, RowsTyped
<1>3. row[l] # None => row[g] # None /\ row[g].school = row[l].school
  BY DEF Together, LoginFollowsLearner
<1>4. CASE p \in Renamers
  <2>1. l \in DOMAIN draft[p] => row[l] # None /\ draft[p][l].school = row[l].school
    BY <1>1, <1>4, KindsApart, WhoDraftsAPerson
  <2>2. g \in DOMAIN draft[p] => row[g] # None /\ draft[p][g].school = row[g].school
    BY <1>1, <1>4, KindsApart, WhoDraftsAPerson
  <2> HIDE DEF l, g
  <2> QED  BY <1>1, <1>2, <1>3, <2>1, <2>2 DEF l, g
<1>5. CASE p \in Creators
  <2>1. CASE l \in DOMAIN draft[p]
    <3>1. p \in Enrollers
      <4>1. l \in RowsOf(ask[p]) /\ ask[p] # None
        BY <1>1, <1>5, <2>1, KindsApart
        DEF RowsKept, Drafting, WritersDraft, IInv, Locking, Asked, Ends
      <4>2. p \notin Hirers
        BY <1>1, <4>1, RowFacts, PersonRows
      <4> QED  BY <1>5, <4>2 DEF Creators
    <3>2. EnrolsBoth(p)
      BY <3>1 DEF Together
    <3>3. g \in DOMAIN draft[p] /\ draft[p][g].school = draft[p][l].school
      BY <2>1, <3>2 DEF EnrolsBoth
    <3> QED  BY <1>1, <1>2, <2>1, <3>3
  <2>2. CASE l \notin DOMAIN draft[p]
    <3>1. row[l] # None /\ row[g] # None
      BY <1>1, <1>3, <2>2
    <3>2. g \notin DOMAIN draft[p]
      BY <1>1, <1>5, <3>1, KindsApart, WhoDraftsAPerson
    <3> QED  BY <1>1, <1>3, <2>2, <3>2
  <2> QED  BY <2>1, <2>2
<1>6. CASE p \in Movers
  <2>1. MovesBoth(p)
    BY <1>6 DEF Together
  <2>2. CASE l \in DOMAIN draft[p]
    <3>1. Followed(p, x)
      BY <1>1, <2>1, <2>2 DEF MovesBoth, HalfMoved
    <3> QED  BY <1>1, <1>2, <2>2, <3>1 DEF Followed
  <2>3. CASE l \notin DOMAIN draft[p]
    <3>1. g \notin DOMAIN draft[p]
      BY <2>1, <2>3 DEF MovesBoth
    <3> QED  BY <1>1, <1>3, <2>3, <3>1
  <2> QED  BY <2>2, <2>3
<1>7. CASE p \notin Renamers \cup Creators \cup Movers
  <2>1. l \notin DOMAIN draft[p] /\ g \notin DOMAIN draft[p]
    BY <1>1, <1>7, WhoDraftsAPerson
  <2> QED  BY <1>1, <1>3, <2>1
<1> QED  BY <1>4, <1>5, <1>6, <1>7

\* What the others have drafted still goes with what a commit leaves: the
\* login that a move passed over is nobody else's to move.
LEMMA CommitTogether ==
    ASSUME IInv, RowsKept, Together, NEW p \in Requests, Commit(p)
    PROVE  Together'
<1>0. /\ TypeOK /\ pc[p] = "commit" /\ pc'[p] = "done" /\ DOMAIN draft'[p] = {}
      /\ \A q \in Requests \ {p} : pc'[q] = pc[q] /\ draft'[q] = draft[q]
      /\ \A k \in Keys : row'[k] = IF k \in DOMAIN draft[p] THEN draft[p][k] ELSE row[k]
      /\ UNCHANGED <<ask, copy, turn, at>>
  <2>1. TypeOK /\ pc[p] = "commit"
    BY DEF IInv, Commit
  <2> QED  BY <2>1, CommitFacts
<1>1. EnrolsBoth(p)' /\ MovesBoth(p)'
  BY <1>0, NothingDrafted
<1>2. ASSUME NEW q \in Enrollers  PROVE EnrolsBoth(q)'
  <2>1. CASE q # p
    <3>1. EnrolsBoth(q) /\ q \in Requests
      BY KindsApart, Kinds DEF Together
    <3> QED  BY <1>0, <2>1, <3>1 DEF EnrolsBoth, Line
  <2> QED  BY <1>1, <2>1
<1>3. ASSUME NEW q \in Movers, q # p  PROVE MovesBoth(q)'
  <2>0. MovesBoth(q) /\ q \in Requests
    BY KindsApart, Kinds DEF Together
  <2>1. pc'[q] = pc[q] /\ draft'[q] = draft[q]
    BY <1>0, <1>3, <2>0
  <2>2. \A x \in People : HalfMoved(q, x)' <=> HalfMoved(q, x)
    BY <1>0, <2>1 DEF HalfMoved, Line
  <2>3. ASSUME NEW x \in People, Student(x) \in DOMAIN draft[q], Followed(q, x)
        PROVE  Followed(q, x)'
    <3>1. CASE Login(x) \in DOMAIN draft[q]
      BY <2>1, <2>3, <3>1 DEF Followed
    <3>2. CASE Login(x) \notin DOMAIN draft[q]
      <4>1. row[Login(x)] # None /\ row[Login(x)].school = draft[q][Student(x)].school
        BY <2>3, <3>2 DEF Followed
      <4>2. Student(x) \notin DOMAIN draft[p]
        BY <1>3, <2>0, <2>3 DEF RowsKept, Drafting, OneDraft
      <4>3. Login(x) \in DOMAIN draft[p] => draft[p][Login(x)].school = row[Login(x)].school
        BY <1>0, <4>1, <4>2, WhoDraftsAPerson
      <4>4. Login(x) \in Keys /\ \A k \in DOMAIN draft[p] : draft[p][k] # None
        BY <1>0, PersonRows, Kinds DEF TypeOK, RowsTyped
      <4> QED  BY <1>0, <2>1, <3>2, <4>1, <4>3, <4>4 DEF Followed
    <3> QED  BY <3>1, <3>2
  <2> QED  BY <1>0, <2>0, <2>1, <2>2, <2>3 DEF MovesBoth
<1>4. LoginFollowsLearner'
  BY CommitFollows
<1> QED  BY <1>1, <1>2, <1>3, <1>4 DEF Together

\* At first nothing is drafted, and the learners there have logins.
LEMMA InitTogether ==
    ASSUME Init
    PROVE  Together
<1>1. \A p \in Requests : /\ draft[p] = NoRows /\ DOMAIN draft[p] = {}
                          /\ pc[p] = IF ask[p] = None THEN "done" ELSE FirstStep(p)
                          /\ turn[p] = 1 /\ at[p] = 1
  BY DEF Init, NoRows
<1>2. \A p \in Writers : p \in Requests /\ FirstStep(p) = "begin"
  BY Kinds DEF FirstStep
<1>3. TypeOK
  BY InitInvariant DEF IInv
<1>4. ASSUME NEW p \in Enrollers  PROVE EnrolsBoth(p)
  <2>1. p \in Requests /\ p \in Writers
    BY Kinds, KindsApart
  <2>2. CASE ask[p] = None
    BY <1>1, <2>1, <2>2 DEF EnrolsBoth
  <2>3. CASE ask[p] # None
    <3>1. /\ DOMAIN ask[p] = 1 .. Len(ask[p])
          /\ \A i \in DOMAIN ask[p] :
               DOMAIN ask[p][i].keys = 1 .. Len(ask[p][i].keys) /\ Len(ask[p][i].keys) \in Nat
      BY <1>3, <2>3, EnrolLines
    <3>2. \A i \in DOMAIN ask[p] : \A j \in DOMAIN ask[p][i].keys :
            ~(i < turn[p] \/ (i = turn[p] /\ j < at[p]))
      BY <1>1, <2>1, <3>1
    <3>3. pc[p] = "begin" /\ DOMAIN draft[p] = {}
      BY <1>1, <1>2, <2>1, <2>3
    <3> QED  BY <3>2, <3>3 DEF EnrolsBoth
  <2> QED  BY <2>2, <2>3
<1>5. ASSUME NEW p \in Movers  PROVE MovesBoth(p)
  <2>1. p \in Requests /\ p \in Writers
    BY Kinds, KindsApart
  <2>2. pc[p] # "write" /\ DOMAIN draft[p] = {}
    BY <1>1, <1>2, <2>1
  <2> QED  BY <2>2 DEF MovesBoth, HalfMoved
<1>6. LoginFollowsLearner
  <2> SUFFICES ASSUME NEW x \in People, row[Student(x)] # None
               PROVE  row[Login(x)] # None /\ row[Login(x)].school = row[Student(x)].school
    BY DEF LoginFollowsLearner
  <2>1. Home[Student(x)] # None => Home[Login(x)] = Home[Student(x)]
    BY SchoolNamesAssumed DEF RowsAssumption
  <2>2. /\ \A k \in Keys : row[k] = IF Home[k] = None THEN None
                                    ELSE [school |-> Home[k], name |-> FirstName[Home[k]]]
        /\ Student(x) \in Keys /\ Login(x) \in Keys
    BY PersonRows DEF Init
  <2>3. Home[Student(x)] # None /\ row[Login(x)] = row[Student(x)]
    BY <2>1, <2>2
  <2> QED  BY <2>3
<1> QED  BY <1>4, <1>5, <1>6 DEF Together

\* Every step keeps the learners and the logins together, if no move names a
\* learner twice.
LEMMA NextTogether ==
    ASSUME MovesNameOnce, IInv, RowsKept, Together, [Next]_vars
    PROVE  Together'
<1>1. ASSUME NEW p \in Requests, NEW how \in {"refused", "failed"}, Rollback(p, how)
      PROVE  Together'
  <2>1. /\ pc'[p] = how /\ DOMAIN draft'[p] = {}
        /\ \A q \in Requests \ {p} : pc'[q] = pc[q] /\ draft'[q] = draft[q]
        /\ UNCHANGED <<row, ask, turn, at, copy>>
    BY <1>1 DEF Rollback, End, NoRows, IInv, TypeOK, RowsTyped, RequestsTyped
  <2>2. EnrolsBoth(p)' /\ MovesBoth(p)'
    BY <1>1, <2>1, NothingDrafted
  <2> QED  BY <2>1, <2>2, Kinds, OthersTogether
<1>2. ASSUME NEW p \in Writers, WriterStep(p)  PROVE Together'
  <2>1. p \in Requests  BY Kinds
  <2>2. CASE Begin(p) \/ Check(p) \/ Resolve(p)  BY <2>2, ReadsTogether
  <2>3. CASE RefuseDeleted(p) \/ RefuseUnknown(p) \/ RefuseSchool(p)
    BY <2>1, <2>3, <1>1 DEF RefuseDeleted, RefuseUnknown, RefuseSchool
  <2>4. CASE Write(p)
    <3>1. /\ \A q \in Requests \ {p} : pc'[q] = pc[q] /\ draft'[q] = draft[q]
          /\ \A q \in Requests \ {p} : turn'[q] = turn[q] /\ at'[q] = at[q]
          /\ UNCHANGED <<row, ask, copy>>
      BY <2>4, WriteFacts, WriteTurns
    <3>2. /\ p \in Enrollers => EnrolsBoth(p)'
          /\ p \in Movers => MovesBoth(p)'
      BY <2>4, EnrolWrites, MoveWrites
    <3> QED  BY <2>1, <3>1, <3>2, Kinds, OthersTogether
  <2>5. CASE Commit(p)  BY <2>1, <2>5, CommitTogether
  <2> QED  BY <1>2, <2>2, <2>3, <2>4, <2>5 DEF WriterStep
<1>3. ASSUME NEW p \in Requests \ Writers, ask' = ask,
             \A x \in People :
                row'[Student(x)] = row[Student(x)] /\ row'[Login(x)] = row[Login(x)],
             \A q \in Requests \ {p} :
                /\ pc'[q] = pc[q] /\ draft'[q] = draft[q] /\ turn'[q] = turn[q]
                /\ at'[q] = at[q] /\ copy'[q] = copy[q]
      PROVE  Together'
  BY <1>3, Kinds, KindsApart, OthersTogether
<1>4. ASSUME NEW r \in Renamers, RenameStep(r)  PROVE Together'
  <2>1. r \in Requests \ Writers  BY Kinds, KindsApart
  <2>2. CASE RefuseRename(r)  BY <2>1, <2>2, <1>1 DEF RefuseRename
  <2>3. CASE Commit(r)  BY <2>1, <2>3, CommitTogether
  <2>4. CASE LockSchool(r) \/ Cascade(r) \/ CascadeNext(r)
    <3>1. /\ UNCHANGED <<row, ask, at, copy>>
          /\ \A q \in Requests \ {r} :
               pc'[q] = pc[q] /\ draft'[q] = draft[q] /\ turn'[q] = turn[q]
      BY <2>1, <2>4
      DEF LockSchool, Cascade, CascadeNext, IInv, TypeOK, RowsTyped, RequestsTyped, PlacesTyped
    <3> QED  BY <2>1, <3>1, <1>3
  <2> QED  BY <1>4, <2>2, <2>3, <2>4 DEF RenameStep
<1>5. ASSUME NEW f \in FeeMakers, FeeStep(f)  PROVE Together'
  <2>1. f \in Requests \ Writers  BY Kinds, KindsApart
  <2>2. CASE RefuseFee(f)  BY <2>1, <2>2, <1>1 DEF RefuseFee
  <2>3. CASE ReadForFee(f)
    <3>1. /\ UNCHANGED <<row, draft, ask, at, turn>>
          /\ \A q \in Requests \ {f} : pc'[q] = pc[q] /\ copy'[q] = copy[q]
      BY <2>1, <2>3 DEF ReadForFee, IInv, TypeOK, RequestsTyped
    <3> QED  BY <2>1, <3>1, <1>3
  <2>4. CASE InsertFee(f)
    <3>1. ask[f] # None
      BY <2>1, <2>4 DEF InsertFee, IInv, Locking, Asked, Ends
    <3>2. FeeKey(f)[1] = "schoolcontributedata"
      BY DEF FeeKey
    <3>3. \A x \in People :
            row'[Student(x)] = row[Student(x)] /\ row'[Login(x)] = row[Login(x)]
      BY <2>4, <3>2, PersonRows DEF InsertFee, IInv, TypeOK, RowsTyped
    <3>4. /\ UNCHANGED <<draft, ask, at, turn, copy>>
          /\ \A q \in Requests \ {f} : pc'[q] = pc[q]
      BY <2>1, <2>4 DEF InsertFee, IInv, TypeOK, RequestsTyped
    <3> QED  BY <2>1, <3>3, <3>4, <1>3
  <2> QED  BY <1>5, <2>2, <2>3, <2>4 DEF FeeStep
<1>6. ASSUME NEW u \in Refreshers, RefreshStep(u)  PROVE Together'
  <2>1. u \in Requests \ Writers  BY Kinds, KindsApart
  <2>2. CASE Commit(u)  BY <2>1, <2>2, CommitTogether
  <2>3. CASE ShareForRefresh(u) \/ FindFees(u) \/ RefreshFee(u)
    <3>1. /\ UNCHANGED <<row, ask, turn>>
          /\ \A q \in Requests \ {u} :
               /\ pc'[q] = pc[q] /\ draft'[q] = draft[q]
               /\ copy'[q] = copy[q] /\ at'[q] = at[q]
      BY <2>1, <2>3
      DEF ShareForRefresh, FindFees, RefreshFee, IInv, TypeOK, RowsTyped, RequestsTyped,
          PlacesTyped
    <3> QED  BY <2>1, <3>1, <1>3
  <2> QED  BY <1>6, <2>2, <2>3 DEF RefreshStep
<1>7. ASSUME NEW d \in Deleters, DeleteStep(d)  PROVE Together'
  <2>1. d \in Requests \ Writers  BY Kinds, KindsApart
  <2>2. /\ UNCHANGED <<row, draft, ask, at, turn, copy>>
        /\ \A q \in Requests \ {d} : pc'[q] = pc[q]
    BY <1>7, <2>1 DEF DeleteStep, CountLearners, DeleteSchool, IInv, TypeOK, RequestsTyped
  <2> QED  BY <2>1, <2>2, <1>3
<1>8. ASSUME NEW p \in Requests, Victim(p) \/ Fail(p)  PROVE Together'
  BY <1>8, <1>1 DEF Victim, Fail
<1>9. CASE UNCHANGED vars
  <2>1. UNCHANGED <<row, draft, pc, ask, copy, turn, at>>
    BY <1>9 DEF vars
  <2>2. ASSUME NEW p \in Enrollers  PROVE EnrolsBoth(p)'
    <3>1. EnrolsBoth(p)  BY DEF Together
    <3> QED  BY <2>1, <3>1 DEF EnrolsBoth, Line
  <2>3. ASSUME NEW p \in Movers  PROVE MovesBoth(p)'
    <3>1. MovesBoth(p)  BY DEF Together
    <3> QED  BY <2>1, <3>1 DEF MovesBoth, HalfMoved, Followed, Line
  <2>4. LoginFollowsLearner'
    BY <2>1 DEF Together, LoginFollowsLearner
  <2> QED  BY <2>2, <2>3, <2>4 DEF Together
<1> QED  BY <1>2, <1>4, <1>5, <1>6, <1>7, <1>8, <1>9 DEF Next, Progress

\* A learner and the login are always in one school, however enrolments,
\* renames and moves overlap and fail, if no move names a learner twice.
THEOREM LoginsFollow ==
    ASSUME MovesNameOnce
    PROVE  Spec => []LoginFollowsLearner
<1>1. Init => Together
  BY InitTogether
<1>2. IInv /\ RowsKept /\ Together /\ [Next]_vars => Together'
  BY NextTogether
<1>3. Together => LoginFollowsLearner
  BY DEF Together
<1> QED  BY <1>1, <1>2, <1>3, Invariant, RowsInvariant, PTL DEF Spec
=============================================================================
