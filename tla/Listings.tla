------------------------------ MODULE Listings ------------------------------
(***************************************************************************)
(* The paginated listings: companies of a user, access rows, employees and *)
(* projects of a company, assignments of a project.  All five run one      *)
(* query, newest first, through app/utils/pagination.py, and hand the      *)
(* client a signed cursor that says where the next page begins.            *)
(*                                                                         *)
(* One client follows the cursors of one listing, a page per request,      *)
(* while rows come, go and change between its requests.  A row's place in  *)
(* the order is the START of the transaction that inserted it (now() in    *)
(* PostgreSQL), so rows do not appear in the order of their places.  A     *)
(* page is one SELECT and so one snapshot; who may ask for it is the       *)
(* business of CompanyAccess.                                              *)
(***************************************************************************)
EXTENDS Integers, Sequences, FiniteSets

CONSTANTS
    Groups,         \* resource and tenant: what a listing is a listing of
    Labels,         \* what listings filter on: a role, a status, a project
    Ids,            \* ids, as the integers PostgreSQL orders them by
    Writers,        \* concurrent requests that insert rows
    Limits,         \* page sizes a client may ask for
    MaxTime,        \* bound on the clock
    None            \* null

ASSUME ListingAssumption ==
    /\ Ids \subseteq Nat
    /\ Limits \subseteq Nat \ {0}
    /\ MaxTime \in Nat
    /\ None \notin Labels

Times == 0..MaxTime
Rows == [group : Groups, label : Labels, id : Ids, at : Times]
Keys == [at : Times, id : Ids]

\* What a cursor is signed for; filter None: no filter was given.
Scopes == [group : Groups, filter : Labels \cup {None}]
Cursors == [scope : Scopes, after : Keys]

ASSUME NoneIsNothing ==
    None \notin Times /\ None \notin Keys /\ None \notin Scopes /\ None \notin Cursors

VARIABLES
    rows,           \* the committed rows
    now,            \* the clock, in steps of its resolution
    started,        \* a writer's transaction began at this time, None: it has none
    scope,          \* what the client lists, None: nothing yet
    cursor,         \* next_cursor of the last page, None: there was none
    items,          \* the keys of the rows the client was given, in order
    lasting,        \* (history) keys of the rows that were in the listing all along
    reply

client == <<scope, cursor, items, reply>>
vars == <<rows, now, started, client, lasting>>

-----------------------------------------------------------------------------
\* tuple_(timestamp, identifier) < tuple_(...): k comes after l.
Older(k, l) == k.at < l.at \/ (k.at = l.at /\ k.id < l.id)

\* Mutants: "<=" for "<", and rows told apart by their timestamps alone.
OlderOrSame(k, l) == Older(k, l) \/ k = l
OlderByTime(k, l) == k.at < l.at

\* The rows that a WHERE clause on the listing's tenant and filter selects.
Listed(table, s) ==
    {r \in table : r.group = s.group /\ s.filter \in {None, r.label}}

KeysOf(table) == {[at |-> r.at, id |-> r.id] : r \in table}

\* ORDER BY timestamp DESC, identifier DESC
Ordered(S) ==
    {q \in [1..Cardinality(S) -> S] :
        /\ \A k \in S : \E i \in DOMAIN q : q[i] = k
        /\ \A i, j \in DOMAIN q : i < j => Older(q[j], q[i])}

\* The condition on a page's rows: all of them come after the cursor's row.
BeyondInclusive(S, after) == {k \in S : after = None \/ OlderOrSame(k, after)}
BeyondByTime(S, after) == {k \in S : after = None \/ OlderByTime(k, after)}

Beyond(S, after) == {k \in S : after = None \/ Older(k, after)}

\* LIMIT
Upto(q, n) == SubSeq(q, 1, IF Len(q) < n THEN Len(q) ELSE n)

\* CursorCodec.encode, for a row that is the last of its page.
Encode(s, k) == [scope |-> s, after |-> k]

\* Mutant: what a cursor was signed for is not compared.
AcceptedAnyScope(c, s) == TRUE

\* CursorCodec.decode raises unless the cursor was signed for this listing.
Accepted(c, s) == c.scope = s

-----------------------------------------------------------------------------
TypeOK ==
    /\ rows \subseteq Rows
    /\ now \in Times
    /\ started \in [Writers -> Times \cup {None}]
    /\ scope \in Scopes \cup {None}
    /\ cursor \in Cursors \cup {None}
    /\ items \in Seq(Keys)
    /\ lasting \subseteq Keys
    /\ reply \in {"none", "page", "invalid_cursor"}

Init ==
    /\ rows = {}
    /\ now = 0
    /\ started = [w \in Writers |-> None]
    /\ scope = None
    /\ cursor = None
    /\ items = <<>>
    /\ lasting = {}
    /\ reply = "none"

\* What is left of the rows that were listed all along.
StillListed(table) ==
    IF scope = None THEN {} ELSE lasting \cap KeysOf(Listed(table, scope))

-----------------------------------------------------------------------------
(* The requests that change rows.                                          *)

\* Two transactions may begin within the clock's resolution.
Tick ==
    /\ now < MaxTime
    /\ now' = now + 1
    /\ UNCHANGED <<rows, started, client, lasting>>

BeginInsert(w) ==
    /\ started[w] = None
    /\ started' = [started EXCEPT ![w] = now]
    /\ UNCHANGED <<rows, now, client, lasting>>

\* The row becomes visible; created_at, or assigned_at, is what it was.
\* Access rows and assignments come back with the same id.
CommitInsert(w) ==
    \E g \in Groups, l \in Labels, i \in Ids :
        /\ started[w] # None
        /\ \A r \in rows : r.group # g \/ r.id # i
        /\ rows' = rows \cup {[group |-> g, label |-> l, id |-> i, at |-> started[w]]}
        /\ started' = [started EXCEPT ![w] = None]
        /\ lasting' = StillListed(rows')
        /\ UNCHANGED <<now, client>>

\* A new status or role; created_at stays.
Relabel ==
    \E r \in rows, l \in Labels :
        /\ rows' = (rows \ {r}) \cup {[r EXCEPT !.label = l]}
        /\ lasting' = StillListed(rows')
        /\ UNCHANGED <<now, started, client>>

\* A row is deleted, or several by one cascade.
Remove ==
    \E gone \in SUBSET rows :
        /\ gone # {}
        /\ rows' = rows \ gone
        /\ lasting' = StillListed(rows')
        /\ UNCHANGED <<now, started, client>>

-----------------------------------------------------------------------------
(* The client's requests: page_query, then page_result.                    *)

\* Mutant: the cursor is made of the row that was fetched only to see
\* whether there is another page.
PageResultOfExtraRow(s, before, found, n) ==
    /\ items' = before \o Upto(found, n)
    /\ cursor' = IF Len(found) > n THEN Encode(s, found[Len(found)]) ELSE None

\* The rows found are one more than the page has room for, if they go on.
PageResult(s, before, found, n) ==
    /\ items' = before \o Upto(found, n)
    /\ cursor' = IF Len(found) > n THEN Encode(s, Upto(found, n)[n]) ELSE None

\* A page that follows the items the client has.
Page(s, before, after, n) ==
    \E q \in Ordered(Beyond(KeysOf(Listed(rows, s)), after)) :
        /\ PageResult(s, before, Upto(q, n + 1), n)
        /\ reply' = "page"
        /\ UNCHANGED <<rows, now, started>>

\* Without a cursor the listing begins, and the client forgets what it had.
FirstPage(s, n) ==
    /\ Page(s, <<>>, None, n)
    /\ scope' = s
    /\ lasting' = KeysOf(Listed(rows, s))

\* The next page, the client naming whatever listing and whatever limit.
NextPage(s, n) ==
    /\ cursor # None /\ Accepted(cursor, s)
    /\ Page(s, items, cursor.after, n)
    /\ UNCHANGED <<scope, lasting>>

\* 400: the cursor is of another listing.  The client still has it.
RefuseCursor(s) ==
    /\ cursor # None /\ ~ Accepted(cursor, s)
    /\ reply' = "invalid_cursor"
    /\ UNCHANGED <<rows, now, started, scope, cursor, items, lasting>>

Next ==
    \/ Tick
    \/ \E w \in Writers : BeginInsert(w) \/ CommitInsert(w)
    \/ Relabel \/ Remove
    \/ \E s \in Scopes : RefuseCursor(s) \/ \E n \in Limits : FirstPage(s, n) \/ NextPage(s, n)

Spec == Init /\ [][Next]_vars

-----------------------------------------------------------------------------
(* Properties.                                                             *)

\* Over all its pages a client sees the listing strictly in order, so no row
\* twice, whatever is inserted, late, between the pages.
StrictlyDescending ==
    \A i, j \in DOMAIN items : i < j => Older(items[j], items[i])

\* A client that follows the cursors misses nothing: a row that was listed
\* from the first page on was given to it or is still to come, whatever came
\* and went around it, and with the last page all of them were given.
NothingSkipped ==
    \A k \in lasting :
        \/ \E i \in DOMAIN items : items[i] = k
        \/ cursor # None /\ Older(k, cursor.after)

=============================================================================
