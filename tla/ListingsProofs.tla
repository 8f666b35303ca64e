-------------------------- MODULE ListingsProofs ----------------------------
(***************************************************************************)
(* What holds of every listing, for any ids, tenants, filters, page sizes  *)
(* and number of writers: the pages descend strictly (StrictlyDescending)  *)
(* and skip nothing that stays (NothingSkipped).                           *)
(*                                                                         *)
(* The argument: the cursor stands at the last item the client was given,  *)
(* so every row that the listing has had all along was given already or    *)
(* comes after the cursor.  The query finds the latter, in order; those it *)
(* cuts off come after the last row of the page, where the new cursor is.  *)
(***************************************************************************)
EXTENDS Listings, FiniteSetTheorems, SequenceTheorems, TLAPS

\* The pages of a client, its cursor and what has been listed all along.
CursorAtLastItem ==
    cursor # None =>
        /\ scope # None /\ cursor.scope = scope
        /\ items # <<>> /\ cursor.after = items[Len(items)]

LastingIsListed ==
    IF scope = None THEN lasting = {} ELSE lasting \subseteq KeysOf(Listed(rows, scope))

\* The inductive invariant.
IInv ==
    /\ TypeOK
    /\ IsFiniteSet(rows)
    /\ CursorAtLastItem
    /\ LastingIsListed
    /\ StrictlyDescending
    /\ NothingSkipped

Descending(q) == \A i, j \in DOMAIN q : i < j => Older(q[j], q[i])

-----------------------------------------------------------------------------
(* The order of the rows.                                                  *)

\* Timestamp and id order the rows of a listing strictly.
LEMMA OlderIsOrder ==
    /\ \A k, l, m \in Keys : Older(k, l) /\ Older(l, m) => Older(k, m)
    /\ \A k \in Keys : ~ Older(k, k)
<1>1. Ids \subseteq Nat /\ 0..MaxTime \subseteq Nat
    BY ListingAssumption DEF ListingAssumption
<1>2. \A k \in Keys : k.at \in Nat /\ k.id \in Nat
    BY <1>1 DEF Keys, Times
<1> QED BY <1>2 DEF Older

\* LIMIT n keeps a prefix of at most n rows.
LEMMA UptoIsPrefix ==
    ASSUME NEW T, NEW q \in Seq(T), NEW n \in Nat
    PROVE  /\ Upto(q, n) \in Seq(T)
           /\ Len(Upto(q, n)) = IF Len(q) < n THEN Len(q) ELSE n
           /\ \A i \in 1..Len(Upto(q, n)) : Upto(q, n)[i] = q[i]
<1> DEFINE m == IF Len(q) < n THEN Len(q) ELSE n
<1>1. Len(q) \in Nat /\ m \in Nat /\ m <= Len(q)
    BY LenProperties
<1>2. \A i \in 1..m : q[i] \in T
    BY <1>1, ElementOfSeq
<1>3. /\ SubSeq(q, 1, m) \in Seq(T)
      /\ Len(SubSeq(q, 1, m)) = IF 1 <= m THEN m - 1 + 1 ELSE 0
      /\ \A i \in 1..(m - 1 + 1) : SubSeq(q, 1, m)[i] = q[1 + i - 1]
    BY <1>1, <1>2, SubSeqProperties
<1>4. Upto(q, n) = SubSeq(q, 1, m)
    BY DEF Upto
<1>5. Len(Upto(q, n)) = m
    BY <1>1, <1>3, <1>4
<1>6. \A i \in 1..m : Upto(q, n)[i] = q[i]
    BY <1>1, <1>3, <1>4
<1> QED BY <1>3, <1>4, <1>5, <1>6

\* ORDER BY gives a sequence of exactly the selected rows.
LEMMA OrderedIsSequence ==
    ASSUME NEW S, IsFiniteSet(S), NEW q \in Ordered(S)
    PROVE  /\ q \in Seq(S)
           /\ DOMAIN q = 1..Len(q)
           /\ \A k \in S : \E i \in 1..Len(q) : q[i] = k
           /\ Descending(q)
<1>1. Cardinality(S) \in Nat
    BY FS_CardinalityType
<1>2. q \in [1..Cardinality(S) -> S]
    BY DEF Ordered
<1>3. q \in Seq(S)
    BY <1>1, <1>2
<1>4. DOMAIN q = 1..Len(q)
    BY <1>3, LenProperties
<1> QED BY <1>3, <1>4 DEF Ordered, Descending

-----------------------------------------------------------------------------
(* One page.                                                               *)

\* A page of the rows S is a descending part of them; with more rows than
\* the page has room for, those left out come after its last, the n-th.
LEMMA PageOfRows ==
    ASSUME NEW S \in SUBSET Keys, IsFiniteSet(S), NEW q \in Ordered(S),
           NEW n \in Nat \ {0}
    PROVE  LET found == Upto(q, n + 1)
               page == Upto(found, n)
           IN  /\ page \in Seq(S)
               /\ Descending(page)
               /\ Len(found) > n => Len(page) = n
               /\ \A k \in S : \/ \E i \in 1..Len(page) : page[i] = k
                               \/ Len(found) > n /\ Older(k, page[n])
<1> DEFINE found == Upto(q, n + 1)
           page == Upto(found, n)
<1>1. /\ q \in Seq(S) /\ DOMAIN q = 1..Len(q) /\ Descending(q)
      /\ \A k \in S : \E i \in 1..Len(q) : q[i] = k
    BY OrderedIsSequence
<1>2. Len(q) \in Nat /\ n + 1 \in Nat
    BY <1>1, LenProperties
<1>3. /\ found \in Seq(S)
      /\ Len(found) = IF Len(q) < n + 1 THEN Len(q) ELSE n + 1
      /\ \A i \in 1..Len(found) : found[i] = q[i]
    <2> HIDE DEF found
    <2>1. ASSUME NEW m \in Nat
          PROVE  /\ Upto(q, m) \in Seq(S)
                 /\ Len(Upto(q, m)) = IF Len(q) < m THEN Len(q) ELSE m
                 /\ \A i \in 1..Len(Upto(q, m)) : Upto(q, m)[i] = q[i]
        BY <1>1, UptoIsPrefix
    <2> QED BY <2>1, <1>2 DEF found
<1>4. /\ page \in Seq(S)
      /\ Len(page) = IF Len(found) < n THEN Len(found) ELSE n
      /\ \A i \in 1..Len(page) : page[i] = found[i]
    BY <1>3, UptoIsPrefix
<1>5. Len(page) = IF Len(q) < n THEN Len(q) ELSE n
    BY <1>2, <1>3, <1>4
<1>6. \A i \in 1..Len(page) : page[i] = q[i]
    BY <1>2, <1>3, <1>4, <1>5
<1>7. DOMAIN page = 1..Len(page)
    BY <1>4, LenProperties
<1>8. Descending(page)
    <2> HIDE DEF page
    <2>1. SUFFICES ASSUME NEW i \in 1..Len(page), NEW j \in 1..Len(page), i < j
                   PROVE  Older(page[j], page[i])
        BY <1>7 DEF Descending
    <2>2. i \in 1..Len(q) /\ j \in 1..Len(q)
        BY <1>2, <1>5
    <2>3. Older(q[j], q[i])
        BY <2>1, <2>2, <1>1 DEF Descending
    <2> QED BY <2>3, <1>6
<1>9. Len(found) > n => Len(page) = n
    BY <1>2, <1>3, <1>4
<1>10. ASSUME NEW k \in S
       PROVE  \/ \E i \in 1..Len(page) : page[i] = k
              \/ Len(found) > n /\ Older(k, page[n])
    <2>1. PICK i \in 1..Len(q) : q[i] = k
        BY <1>1
    <2>2. CASE i <= Len(page)
        BY <2>1, <2>2, <1>2, <1>5, <1>6
    <2>3. CASE i > Len(page)
        <3>1. Len(page) = n /\ n < i /\ Len(found) > n /\ n \in 1..Len(q)
            BY <2>3, <1>2, <1>3, <1>5
        <3>2. Older(q[i], q[n])
            BY <3>1, <1>1 DEF Descending
        <3> QED BY <3>1, <3>2, <2>1, <1>6
    <2> QED BY <2>2, <2>3, <1>2, <1>5
<1> QED BY <1>4, <1>8, <1>9, <1>10

\* The keys of finitely many rows are finitely many.
LEMMA KeysAreFinite ==
    ASSUME NEW table \in SUBSET Rows, IsFiniteSet(table), NEW s, NEW after
    PROVE  /\ Beyond(KeysOf(Listed(table, s)), after) \subseteq Keys
           /\ IsFiniteSet(Beyond(KeysOf(Listed(table, s)), after))
<1> DEFINE listed == Listed(table, s)
           key == [r \in listed |-> [at |-> r.at, id |-> r.id]]
<1>1. listed \in SUBSET table /\ listed \subseteq Rows
    BY DEF Listed
<1>2. IsFiniteSet(listed)
    BY <1>1, FS_Subset
<1>3. KeysOf(listed) \subseteq Keys
    BY <1>1 DEF KeysOf, Rows, Keys
<1>4. key \in Surjection(listed, KeysOf(listed))
    BY DEF Surjection, KeysOf
<1>5. IsFiniteSet(KeysOf(listed))
    BY <1>2, <1>4, FS_Surjection
<1>6. Beyond(KeysOf(listed), after) \in SUBSET KeysOf(listed)
    BY DEF Beyond
<1> QED BY <1>3, <1>5, <1>6, FS_Subset

\* A page put behind the items the client has: the items still descend, the
\* cursor is at the last of them, and no row that the page could have had is
\* lost.
LEMMA PageFollows ==
    ASSUME rows \subseteq Rows, IsFiniteSet(rows),
           NEW s \in Scopes, NEW n \in Limits,
           NEW before \in Seq(Keys), Descending(before),
           NEW after \in Keys \cup {None},
           IF after = None THEN before = <<>>
                           ELSE before # <<>> /\ after = before[Len(before)],
           Page(s, before, after, n)
    PROVE  /\ items' \in Seq(Keys)
           /\ Descending(items')
           /\ cursor' \in Cursors \cup {None}
           /\ cursor' # None => /\ cursor'.scope = s
                                /\ items' # <<>> /\ cursor'.after = items'[Len(items')]
           /\ \A i \in DOMAIN before : i \in DOMAIN items' /\ items'[i] = before[i]
           /\ \A k \in Beyond(KeysOf(Listed(rows, s)), after) :
                 \/ \E i \in DOMAIN items' : items'[i] = k
                 \/ cursor' # None /\ Older(k, cursor'.after)
<1> DEFINE S == Beyond(KeysOf(Listed(rows, s)), after)
<1>1. S \in SUBSET Keys /\ IsFiniteSet(S)
    BY KeysAreFinite
<1>2. n \in Nat \ {0}
    BY ListingAssumption DEF ListingAssumption
<1>3. PICK q \in Ordered(S) : PageResult(s, before, Upto(q, n + 1), n)
    BY DEF Page
<1> DEFINE found == Upto(q, n + 1)
           page == Upto(found, n)
<1>4. /\ page \in Seq(S)
      /\ Descending(page)
      /\ Len(found) > n => Len(page) = n
      /\ \A k \in S : \/ \E i \in 1..Len(page) : page[i] = k
                      \/ Len(found) > n /\ Older(k, page[n])
    BY <1>1, <1>2, PageOfRows
<1>5. /\ items' = before \o page
      /\ cursor' = IF Len(found) > n THEN Encode(s, page[n]) ELSE None
    BY <1>3 DEF PageResult
<1> HIDE DEF S, found, page
<1>6. /\ page \in Seq(Keys) /\ Len(page) \in Nat /\ DOMAIN page = 1..Len(page)
      /\ \A i \in 1..Len(page) : page[i] \in S /\ page[i] \in Keys
    BY <1>1, <1>4, SeqMonotonic, LenProperties, ElementOfSeq
<1>7. /\ Len(before) \in Nat /\ DOMAIN before = 1..Len(before)
      /\ \A i \in 1..Len(before) : before[i] \in Keys
    BY LenProperties, ElementOfSeq
<1>8. /\ items' \in Seq(Keys)
      /\ Len(items') = Len(before) + Len(page)
      /\ \A i \in 1..(Len(before) + Len(page)) :
            items'[i] = IF i <= Len(before) THEN before[i] ELSE page[i - Len(before)]
    BY <1>5, <1>6, ConcatProperties
<1>9. DOMAIN items' = 1..(Len(before) + Len(page))
    BY <1>8, LenProperties
<1>10. Descending(items')
    <2>1. SUFFICES ASSUME NEW i \in DOMAIN items', NEW j \in DOMAIN items', i < j
                   PROVE  Older(items'[j], items'[i])
        BY DEF Descending
    <2>2. i \in Nat /\ j \in Nat
        BY <1>6, <1>7, <1>9
    <2>3. CASE j <= Len(before)
        <3>1. i \in DOMAIN before /\ j \in DOMAIN before
            BY <2>1, <2>2, <2>3, <1>7, <1>9
        <3>2. items'[i] = before[i] /\ items'[j] = before[j]
            BY <2>1, <2>2, <2>3, <1>6, <1>7, <1>8, <1>9
        <3> QED BY <2>1, <3>1, <3>2 DEF Descending
    <2>4. CASE i <= Len(before) /\ j > Len(before)
        <3>1. i \in 1..Len(before) /\ j - Len(before) \in 1..Len(page)
            BY <2>2, <2>4, <1>6, <1>7, <1>9
        <3>2. items'[i] = before[i] /\ items'[j] = page[j - Len(before)]
            BY <2>4, <3>1, <1>6, <1>7, <1>8, <1>9
        <3>3. after # None /\ after \in Keys /\ after = before[Len(before)]
            BY <3>1, <1>7
        <3>4. Older(page[j - Len(before)], after)
            BY <3>1, <3>3, <1>6 DEF S, Beyond
        <3>5. after = before[i] \/ Older(after, before[i])
            <4>1. CASE i = Len(before)
                BY <4>1, <3>3
            <4>2. CASE i < Len(before)
                <5>1. Len(before) \in DOMAIN before /\ i \in DOMAIN before
                    BY <4>2, <3>1, <1>7
                <5> QED BY <4>2, <5>1, <3>3 DEF Descending
            <4> QED BY <4>1, <4>2, <2>4, <2>2, <1>7
        <3>6. before[i] \in Keys /\ page[j - Len(before)] \in Keys
            BY <3>1, <1>6, <1>7
        <3>7. Older(page[j - Len(before)], before[i])
            BY <3>3, <3>4, <3>5, <3>6, OlderIsOrder
        <3> QED BY <3>2, <3>7
    <2>5. CASE i > Len(before)
        <3>1. /\ i - Len(before) \in DOMAIN page /\ j - Len(before) \in DOMAIN page
              /\ i - Len(before) < j - Len(before)
            BY <2>1, <2>2, <2>5, <1>6, <1>7, <1>9
        <3>2. ~ (i <= Len(before)) /\ ~ (j <= Len(before))
            BY <2>1, <2>2, <2>5, <1>7
        <3>3. items'[i] = page[i - Len(before)]
            BY <3>2, <1>8, <1>9
        <3>4. items'[j] = page[j - Len(before)]
            BY <3>2, <1>8, <1>9
        <3> QED BY <3>1, <3>3, <3>4, <1>4 DEF Descending
    <2> QED BY <2>3, <2>4, <2>5, <2>2, <1>7
<1>11. ASSUME Len(found) > n
       PROVE  /\ n \in 1..Len(page) /\ Len(items') = Len(before) + n
              /\ items'[Len(items')] = page[n] /\ items' # <<>>
    <2>1. Len(page) = n /\ n \in 1..Len(page)
        BY <1>11, <1>2, <1>4
    <2>2. Len(items') = Len(before) + n /\ Len(items') > 0
        BY <2>1, <1>2, <1>7, <1>8
    <2>3. items'[Len(items')] = page[n]
        BY <2>1, <2>2, <1>2, <1>7, <1>8
    <2> QED BY <2>1, <2>2, <2>3
<1>12. cursor' # None => /\ cursor'.scope = s
                         /\ items' # <<>> /\ cursor'.after = items'[Len(items')]
    BY <1>5, <1>11 DEF Encode
<1>13. cursor' \in Cursors \cup {None}
    BY <1>5, <1>6, <1>11 DEF Encode, Cursors
<1>14. \A i \in DOMAIN before : i \in DOMAIN items' /\ items'[i] = before[i]
    BY <1>6, <1>7, <1>8, <1>9
<1>15. ASSUME NEW k \in S
       PROVE  \/ \E i \in DOMAIN items' : items'[i] = k
              \/ cursor' # None /\ Older(k, cursor'.after)
    <2>1. CASE \E i \in 1..Len(page) : page[i] = k
        <3>1. PICK i \in 1..Len(page) : page[i] = k
            BY <2>1
        <3> DEFINE j == Len(before) + i
        <3>2. j \in 1..(Len(before) + Len(page)) /\ ~ (j <= Len(before)) /\ j - Len(before) = i
            BY <1>6, <1>7
        <3> HIDE DEF j
        <3>3. items'[j] = page[j - Len(before)]
            BY <3>2, <1>8
        <3> QED BY <3>1, <3>2, <3>3, <1>9
    <2>2. CASE Len(found) > n /\ Older(k, page[n])
        <3>1. cursor' = Encode(s, page[n]) /\ page[n] \in Keys
            BY <2>2, <1>5, <1>6, <1>11
        <3>2. cursor' \in Cursors /\ cursor'.after = page[n]
            BY <3>1 DEF Encode, Cursors
        <3> QED BY <3>2, <2>2, NoneIsNothing DEF NoneIsNothing
    <2> QED BY <2>1, <2>2, <1>4
<1> QED BY <1>8, <1>10, <1>12, <1>13, <1>14, <1>15 DEF S

-----------------------------------------------------------------------------
(* Every step.                                                             *)

LEMMA InitIInv == Init => IInv
<1> SUFFICES ASSUME Init PROVE IInv
    OBVIOUS
<1>1. now \in Times
    BY ListingAssumption DEF Init, Times, ListingAssumption
<1>2. TypeOK
    BY <1>1 DEF Init, TypeOK
<1>3. IsFiniteSet(rows)
    BY FS_EmptySet DEF Init
<1>4. StrictlyDescending
    BY DEF Init, StrictlyDescending
<1> QED BY <1>2, <1>3, <1>4
        DEF Init, IInv, CursorAtLastItem, LastingIsListed, NothingSkipped

\* What the writers do to a listing leaves the client's side alone.
LEMMA WritersKeepIInv ==
    ASSUME IInv, rows' \subseteq Rows, IsFiniteSet(rows'), now' \in Times,
           started' \in [Writers -> Times \cup {None}], UNCHANGED client,
           lasting' = StillListed(rows')
    PROVE  IInv'
<1>1. /\ lasting' \subseteq lasting
      /\ scope = None => lasting' = {}
      /\ scope # None => lasting' \subseteq KeysOf(Listed(rows', scope))
    BY DEF StillListed
<1>2. TypeOK'
    BY <1>1 DEF IInv, TypeOK, client
<1>3. CursorAtLastItem' /\ StrictlyDescending'
    BY DEF IInv, CursorAtLastItem, StrictlyDescending, client
<1>4. LastingIsListed'
    BY <1>1 DEF LastingIsListed, client
<1>5. NothingSkipped'
    BY <1>1 DEF IInv, NothingSkipped, client
<1> QED BY <1>2, <1>3, <1>4, <1>5 DEF IInv

LEMMA NextIInv == IInv /\ [Next]_vars => IInv'
<1> SUFFICES ASSUME IInv, [Next]_vars PROVE IInv'
    OBVIOUS
<1>1. TypeOK
    BY DEF IInv
<1>2. CASE UNCHANGED vars
    BY <1>2 DEF IInv, vars, client, TypeOK, CursorAtLastItem, LastingIsListed,
                StrictlyDescending, NothingSkipped
<1>3. CASE Tick
    <2>1. now' \in Times
        BY <1>1, <1>3, ListingAssumption DEF Tick, Times, TypeOK, ListingAssumption
    <2>2. TypeOK'
        BY <1>1, <1>3, <2>1 DEF Tick, TypeOK, client
    <2> QED BY <1>3, <2>2 DEF Tick, client, IInv, CursorAtLastItem, LastingIsListed,
                              StrictlyDescending, NothingSkipped
<1>4. CASE \E w \in Writers : BeginInsert(w)
    <2>1. TypeOK'
        BY <1>1, <1>4 DEF BeginInsert, TypeOK, client
    <2> QED BY <1>4, <2>1 DEF BeginInsert, client, IInv, CursorAtLastItem, LastingIsListed,
                              StrictlyDescending, NothingSkipped
<1>5. CASE \E w \in Writers : CommitInsert(w)
    <2>1. PICK w \in Writers, g \in Groups, l \in Labels, i \in Ids :
             /\ started[w] # None
             /\ rows' = rows \cup {[group |-> g, label |-> l, id |-> i, at |-> started[w]]}
             /\ started' = [started EXCEPT ![w] = None]
             /\ lasting' = StillListed(rows')
             /\ UNCHANGED <<now, client>>
        BY <1>5 DEF CommitInsert
    <2>2. rows' \subseteq Rows
        BY <1>1, <2>1 DEF TypeOK, Rows
    <2>3. IsFiniteSet(rows')
        BY <2>1, FS_AddElement DEF IInv
    <2>4. started' \in [Writers -> Times \cup {None}] /\ now' \in Times
        BY <1>1, <2>1 DEF TypeOK
    <2> QED BY <2>1, <2>2, <2>3, <2>4, WritersKeepIInv
<1>6. CASE Relabel
    <2>1. PICK r \in rows, l \in Labels :
             /\ rows' = (rows \ {r}) \cup {[r EXCEPT !.label = l]}
             /\ lasting' = StillListed(rows')
             /\ UNCHANGED <<now, started, client>>
        BY <1>6 DEF Relabel
    <2>2. rows' \subseteq Rows
        BY <1>1, <2>1 DEF TypeOK, Rows
    <2>3. IsFiniteSet(rows \ {r})
        BY FS_RemoveElement DEF IInv
    <2>4. IsFiniteSet(rows')
        BY <2>1, <2>3, FS_AddElement
    <2>5. started' \in [Writers -> Times \cup {None}] /\ now' \in Times
        BY <1>1, <2>1 DEF TypeOK
    <2> QED BY <2>1, <2>2, <2>4, <2>5, WritersKeepIInv
<1>7. CASE Remove
    <2>1. /\ rows' \in SUBSET rows
          /\ lasting' = StillListed(rows')
          /\ UNCHANGED <<now, started, client>>
        BY <1>7 DEF Remove
    <2>2. IsFiniteSet(rows')
        BY <2>1, FS_Subset DEF IInv
    <2>3. rows' \subseteq Rows
        BY <1>1, <2>1 DEF TypeOK
    <2>4. started' \in [Writers -> Times \cup {None}] /\ now' \in Times
        BY <1>1, <2>1 DEF TypeOK
    <2> QED BY <2>1, <2>2, <2>3, <2>4, WritersKeepIInv
<1>8. CASE \E s \in Scopes : RefuseCursor(s)
    <2>1. TypeOK'
        BY <1>1, <1>8 DEF RefuseCursor, TypeOK
    <2> QED BY <1>8, <2>1 DEF RefuseCursor, IInv, CursorAtLastItem, LastingIsListed,
                              StrictlyDescending, NothingSkipped
<1>9. ASSUME NEW s \in Scopes, NEW n \in Limits, FirstPage(s, n)
      PROVE  IInv'
    <2>1. /\ Page(s, <<>>, None, n) /\ scope' = s /\ lasting' = KeysOf(Listed(rows, s))
          /\ reply' = "page" /\ UNCHANGED <<rows, now, started>>
        BY <1>9 DEF FirstPage, Page
    <2>2. <<>> \in Seq(Keys) /\ Descending(<<>>)
        BY DEF Descending
    <2>3. rows \subseteq Rows /\ IsFiniteSet(rows)
        BY DEF IInv, TypeOK
    <2>4. /\ items' \in Seq(Keys)
          /\ Descending(items')
          /\ cursor' \in Cursors \cup {None}
          /\ cursor' # None => /\ cursor'.scope = s
                               /\ items' # <<>> /\ cursor'.after = items'[Len(items')]
          /\ \A k \in Beyond(KeysOf(Listed(rows, s)), None) :
                \/ \E i \in DOMAIN items' : items'[i] = k
                \/ cursor' # None /\ Older(k, cursor'.after)
        BY <2>1, <2>2, <2>3, PageFollows
    <2>5. Beyond(KeysOf(Listed(rows, s)), None) = lasting'
        BY <2>1 DEF Beyond
    <2>6. lasting' \subseteq Keys
        BY <2>3, <2>5, KeysAreFinite
    <2>7. s # None
        BY NoneIsNothing DEF NoneIsNothing
    <2>8. TypeOK'
        BY <1>1, <2>1, <2>4, <2>6 DEF TypeOK
    <2>9. CursorAtLastItem' /\ LastingIsListed'
        BY <2>1, <2>4, <2>7 DEF CursorAtLastItem, LastingIsListed
    <2>10. StrictlyDescending' /\ NothingSkipped'
        BY <2>4, <2>5 DEF StrictlyDescending, Descending, NothingSkipped
    <2> QED BY <2>1, <2>3, <2>8, <2>9, <2>10 DEF IInv
<1>10. ASSUME NEW s \in Scopes, NEW n \in Limits, NextPage(s, n)
       PROVE  IInv'
    <2>1. /\ cursor # None /\ cursor.scope = s
          /\ Page(s, items, cursor.after, n)
          /\ reply' = "page" /\ UNCHANGED <<rows, now, started, scope, lasting>>
        BY <1>10 DEF NextPage, Page, Accepted
    <2>2. /\ scope = s /\ scope # None
          /\ items # <<>> /\ cursor.after = items[Len(items)]
        BY <2>1 DEF IInv, CursorAtLastItem
    <2>3. /\ cursor.after \in Keys /\ cursor.after # None
          /\ items \in Seq(Keys) /\ Descending(items)
        BY <1>1, <2>1, NoneIsNothing
        DEF TypeOK, IInv, StrictlyDescending, Descending, Cursors, NoneIsNothing
    <2>4. rows \subseteq Rows /\ IsFiniteSet(rows)
        BY DEF IInv, TypeOK
    <2>5. /\ items' \in Seq(Keys)
          /\ Descending(items')
          /\ cursor' \in Cursors \cup {None}
          /\ cursor' # None => /\ cursor'.scope = s
                               /\ items' # <<>> /\ cursor'.after = items'[Len(items')]
          /\ \A i \in DOMAIN items : i \in DOMAIN items' /\ items'[i] = items[i]
          /\ \A k \in Beyond(KeysOf(Listed(rows, s)), cursor.after) :
                \/ \E i \in DOMAIN items' : items'[i] = k
                \/ cursor' # None /\ Older(k, cursor'.after)
        BY <2>1, <2>2, <2>3, <2>4, PageFollows
    <2>6. TypeOK'
        BY <1>1, <2>1, <2>5 DEF TypeOK
    <2>7. CursorAtLastItem' /\ LastingIsListed'
        BY <2>1, <2>2, <2>5 DEF IInv, CursorAtLastItem, LastingIsListed
    <2>8. StrictlyDescending'
        BY <2>5 DEF StrictlyDescending, Descending
    <2>9. NothingSkipped'
        <3>1. SUFFICES ASSUME NEW k \in lasting
                       PROVE  \/ \E i \in DOMAIN items' : items'[i] = k
                              \/ cursor' # None /\ Older(k, cursor'.after)
            BY <2>1 DEF NothingSkipped
        <3>2. CASE \E i \in DOMAIN items : items[i] = k
            BY <3>2, <2>5
        <3>3. CASE Older(k, cursor.after)
            <4>1. k \in KeysOf(Listed(rows, s))
                BY <2>2 DEF IInv, LastingIsListed
            <4>2. k \in Beyond(KeysOf(Listed(rows, s)), cursor.after)
                BY <4>1, <3>3 DEF Beyond
            <4> QED BY <4>2, <2>5
        <3> QED BY <3>2, <3>3 DEF IInv, NothingSkipped
    <2> QED BY <2>1, <2>4, <2>6, <2>7, <2>8, <2>9 DEF IInv
<1> QED BY <1>2, <1>3, <1>4, <1>5, <1>6, <1>7, <1>8, <1>9, <1>10 DEF Next

-----------------------------------------------------------------------------
(* The theorems.                                                           *)

\* The invariant of the listings holds in every reachable state.
LEMMA Invariant == Spec => []IInv
BY InitIInv, NextIInv, PTL DEF Spec

\* Cursors, items and rows are always what the code takes them for.
THEOREM TypeCorrect == Spec => []TypeOK
<1>1. IInv => TypeOK
    BY DEF IInv
<1> QED BY <1>1, Invariant, PTL

\* Over any number of pages of app/utils/pagination.py, a client sees the
\* rows in strictly descending order, and none of them twice.
THEOREM Ordering == Spec => []StrictlyDescending
<1>1. IInv => StrictlyDescending
    BY DEF IInv
<1> QED BY <1>1, Invariant, PTL

\* Following next_cursor to the end, a client is given every row that was in
\* the listing from its first page on.
THEOREM Completeness == Spec => []NothingSkipped
<1>1. IInv => NothingSkipped
    BY DEF IInv
<1> QED BY <1>1, Invariant, PTL

=============================================================================
