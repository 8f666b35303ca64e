------------------------------ MODULE RateLimit -----------------------------
(***************************************************************************)
(* The rate limits of app/infrastructure/rate_limit.py, and the order in   *)
(* which login_handler, current_principal and expensive_list consume them. *)
(* The tasks are requests in any replica: all of them count in one Redis.  *)
(* RateLimiter.check makes two calls to it, the hit that decides and a     *)
(* second one for the headers; between the two other tasks run, and each   *)
(* can fail.  The script that Redis runs for a hit is not the program's    *)
(* own: it is the sliding window counter of the library "limits".          *)
(***************************************************************************)
EXTENDS Integers, FiniteSetsExt, Sequences

CONSTANTS
    Tasks,
    Addresses,      \* client hosts
    Names,          \* logins as clients spell them
    Accounts,       \* logins as normalize_identifier spells them
    Normal,         \* normalize_identifier: [Names -> Accounts]
    Users,          \* principals
    Amount, Window, \* LIMITS, by category: hits, and ticks
    MaxTime,        \* bound on the clock
    None

LoginCategories == {"login.ip", "login.account"}
Categories == LoginCategories \cup {"auth.general", "list.expensive"}

ASSUME LimitsArePositive ==
    /\ Amount \in [Categories -> Nat \ {0}] /\ Window \in [Categories -> Nat \ {0}]
    /\ MaxTime \in Nat
ASSUME NamesHaveAccounts == Normal \in [Names -> Accounts]
ASSUME SubjectsAreFinite == IsFiniteSet(Tasks) /\ IsFiniteSet(Addresses) /\ IsFiniteSet(Accounts)
ASSUME NoneIsNothing ==
    /\ None \notin BOOLEAN
    /\ None \notin [op : {"login"}, address : Addresses, name : Names]
    /\ None \notin [op : {"read", "write", "list"}, user : Users]

VARIABLES
    now,
    counter,        \* Redis: the window counters by key
    req, left,      \* what a task is asked, and what is to be done before that
    asked,          \* the verdict of the hit, while the headers are fetched
    paid,           \* the limits a task has consumed for its request
    hits            \* history: granted hits by category, subject and tick

vars == <<now, counter, req, left, asked, paid, hits>>

-----------------------------------------------------------------------------
(* Subjects and keys.                                                      *)

Requests ==
         [op : {"login"}, address : Addresses, name : Names]
    \cup [op : {"read", "write", "list"}, user : Users]

\* The subjects that each limit is about.
Subjects == [c \in Categories |->
    CASE c = "login.ip" -> Addresses [] c = "login.account" -> Accounts [] OTHER -> Users]

Limited == UNION {{c} \X Subjects[c] : c \in Categories}

\* Mutant: the login as it was typed.
RateKeyVerbatim(category, r) ==
    CASE category = "login.ip" -> <<category, r.address>>
      [] category = "login.account" -> <<category, r.name>>
      [] OTHER -> <<category, r.user>>

\* Mutant: one counter for all limits of a subject.
RateKeyShared(category, r) ==
    CASE category = "login.ip" -> <<"rl", r.address>>
      [] category = "login.account" -> <<"rl", Normal[r.name]>>
      [] OTHER -> <<"rl", r.user>>

\* build_rate_key.
RateKey(category, r) ==
    CASE category = "login.ip" -> <<category, r.address>>
      [] category = "login.account" -> <<category, Normal[r.name]>>
      [] OTHER -> <<category, r.user>>

\* Whom the limit is about, whatever key it is counted under.
Subject(category, r) ==
    CASE category = "login.ip" -> r.address
      [] category = "login.account" -> Normal[r.name]
      [] OTHER -> r.user

Keys == (Categories \cup {"rl"}) \X (Addresses \cup Names \cup Accounts \cup Users)

\* Mutant: the account's limit before the address's.
PathAccountFirst(op) ==
    CASE op = "login" -> <<"login.account", "login.ip">>
      [] op = "read" -> <<"auth.general">>
      [] op = "write" -> <<"auth.general", "csrf">>
      [] op = "list" -> <<"auth.general", "list.expensive">>

\* What stands between the origin or the session of a request, which have been
\* found valid, and its use case.
Path(op) ==
    CASE op = "login" -> <<"login.ip", "login.account">>
      [] op = "read" -> <<"auth.general">>
      [] op = "write" -> <<"auth.general", "csrf">>
      [] op = "list" -> <<"auth.general", "list.expensive">>

-----------------------------------------------------------------------------
(* The sliding window counter: the hits of the current window, which began *)
(* at "start", and those of the window before it.                          *)

Fresh == [start |-> 0, previous |-> 0, current |-> 0]

\* What the keys hold after "time": a window that is over becomes the previous
\* one, and is forgotten one window later.
Slid(w, size, time) ==
    IF w = Fresh \/ time >= w.start + 2 * size THEN Fresh
    ELSE IF time > w.start + size
            THEN [start |-> w.start + size, previous |-> w.current, current |-> 0]
            ELSE w

\* The previous window counts with the part of it that is still in sight.
Weighted(w, size, time) == (w.previous * (w.start + size - time)) \div size + w.current

\* acquire_sliding_window: atomic, a Lua script.
Granted(w, category, time) == Weighted(w, Window[category], time) < Amount[category]

Counted(w, time) ==
    IF w = Fresh THEN [Fresh EXCEPT !.start = time, !.current = 1]
                 ELSE [w EXCEPT !.current = @ + 1]

-----------------------------------------------------------------------------

Times == 0..MaxTime

TypeOK ==
    /\ now \in Times
    /\ DOMAIN counter = Keys
    /\ \A k \in Keys : counter[k].start \in Times
    /\ \A k \in Keys : k[1] \in Categories =>
            {counter[k].previous, counter[k].current} \subseteq 0..Amount[k[1]]
    /\ req \in [Tasks -> Requests \cup {None}]
    /\ left \in [Tasks -> Seq(Categories \cup {"csrf"})]
    /\ asked \in [Tasks -> BOOLEAN \cup {None}]
    /\ paid \in [Tasks -> SUBSET Categories]
    /\ hits \in [Limited -> [Times -> Nat]]

Init ==
    /\ now = 0
    /\ counter = [k \in Keys |-> Fresh]
    /\ req = [t \in Tasks |-> None]
    /\ left = [t \in Tasks |-> <<>>]
    /\ asked = [t \in Tasks |-> None]
    /\ paid = [t \in Tasks |-> {}]
    /\ hits = [c \in Limited |-> [m \in Times |-> 0]]

\* A request whose session or, for a login, whose origin is not valid never
\* gets here.
Begin(t) ==
    \E r \in Requests :
        /\ req[t] = None
        /\ req' = [req EXCEPT ![t] = r]
        /\ left' = [left EXCEPT ![t] = Path(r.op)]
        /\ UNCHANGED <<now, counter, asked, paid, hits>>

\* The request is over: it was served, or refused with an error.
End(t) ==
    /\ req' = [req EXCEPT ![t] = None]
    /\ left' = [left EXCEPT ![t] = <<>>]
    /\ asked' = [asked EXCEPT ![t] = None]
    /\ paid' = [paid EXCEPT ![t] = {}]

Comes(t, parts) == req[t] # None /\ left[t] # <<>> /\ Head(left[t]) \in parts

\* validate_origin and validate_csrf, after the limit: the write goes on or is
\* refused.
Validate(t) ==
    /\ Comes(t, {"csrf"})
    /\ \/ left' = [left EXCEPT ![t] = Tail(@)] /\ UNCHANGED <<req, asked, paid>>
       \/ End(t)
    /\ UNCHANGED <<now, counter, hits>>

\* strategy.hit: Redis decides and counts.
Hit(t) ==
    LET category == Head(left[t])
        k == RateKey(category, req[t])
        w == Slid(counter[k], Window[category], now)
        granted == Granted(w, category, now)
    IN
    /\ Comes(t, Categories) /\ asked[t] = None
    /\ counter' = [counter EXCEPT ![k] = IF granted THEN Counted(w, now) ELSE w]
    /\ hits' = IF granted
                  THEN [hits EXCEPT ![<<category, Subject(category, req[t])>>][now] = @ + 1]
                  ELSE hits
    /\ asked' = [asked EXCEPT ![t] = granted]
    /\ paid' = IF granted THEN [paid EXCEPT ![t] = @ \cup {category}] ELSE paid
    /\ UNCHANGED <<now, req, left>>

\* get_window_stats, for the headers of a 429 or of the answer to come.
Stats(t) ==
    /\ Comes(t, Categories) /\ asked[t] # None
    /\ IF asked[t]
          THEN /\ left' = [left EXCEPT ![t] = Tail(@)]
               /\ asked' = [asked EXCEPT ![t] = None]
               /\ UNCHANGED <<req, paid>>
          ELSE End(t)
    /\ UNCHANGED <<now, counter, hits>>

\* Mutant: without Redis there is no limit.
RedisFailsOpen(t) ==
    /\ Comes(t, Categories)
    /\ left' = [left EXCEPT ![t] = Tail(@)]
    /\ asked' = [asked EXCEPT ![t] = None]
    /\ UNCHANGED <<now, counter, req, paid, hits>>

\* Either call fails or takes more than two seconds: 503.  A hit whose answer
\* is lost may have been counted, and a counted one is not taken back.
RedisFails(t) ==
    /\ Comes(t, Categories)
    /\ End(t)
    /\ UNCHANGED <<now, counter, hits>>

\* The use case.
Serve(t) ==
    /\ req[t] # None /\ left[t] = <<>>
    /\ End(t)
    /\ UNCHANGED <<now, counter, hits>>

\* (Bound: MaxTime.)
Tick == now < MaxTime /\ now' = now + 1 /\ UNCHANGED <<counter, req, left, asked, paid, hits>>

Next ==
    \/ Tick
    \/ \E t \in Tasks :
        Begin(t) \/ Validate(t) \/ Hit(t) \/ Stats(t) \/ RedisFails(t) \/ Serve(t)

Spec == Init /\ [][Next]_vars

-----------------------------------------------------------------------------
(* Properties.                                                             *)

\* The granted hits on a subject's limit in some of the ticks.
HitsIn(category, s, ticks) ==
    MapThenSumSet(LAMBDA m : hits[<<category, s>>][m], Times \cap ticks)

\* What the sliding window counter really guarantees: a burst lets the amount of
\* LIMITS through, and every further tick its share of it, so that a whole window
\* can see nearly twice the amount (one that was used up late counts in the next
\* only with the part still in sight).  It holds however the tasks interleave and
\* however a login is spelt.
Share(category, ticks) == (Amount[category] * ticks + Window[category] - 1) \div Window[category]

HitsAreBounded ==
    \A category \in Categories : \A s \in Subjects[category], first \in Times :
        hits[<<category, s>>][first] > 0 =>
            \A more \in 0 .. Window[category] - 1 :
                HitsIn(category, s, first .. first + more)
                    <= Amount[category] + Share(category, more)

\* A 429 is never the fault of others: who is refused has used the limit up
\* itself within the last two windows.
RefusedOnlyWhenSpent ==
    [][\A t \in Tasks : asked'[t] = FALSE /\ asked[t] = None =>
         LET category == Head(left[t]) IN
         HitsIn(category, Subject(category, req[t]), now - 2 * Window[category] + 1 .. now)
            >= Amount[category]]_vars

\* Nothing is served that has not been counted under every limit of its route,
\* also when Redis fails: the limiter fails closed.
ServedHasPaid ==
    \A t \in Tasks : req[t] # None /\ left[t] = <<>> =>
        \A i \in DOMAIN Path(req[t].op) :
            Path(req[t].op)[i] \in Categories => Path(req[t].op)[i] \in paid[t]

\* An attempt on an account has cost its address one too: an address that is
\* refused cannot use up the limit of somebody's account.
Total(category, subjects) == MapThenSumSet(LAMBDA s : HitsIn(category, s, Times), subjects)

AddressShieldsAccounts ==
    Total("login.account", Accounts) <= Total("login.ip", Addresses)

=============================================================================
