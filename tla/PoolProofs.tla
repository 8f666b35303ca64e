----------------------------- MODULE PoolProofs -----------------------------
(* Theorems about Pool, for any tasks, any pool and any number of threads. *)
EXTENDS Pool, FiniteSetTheorems, SequenceTheorems, TLAPS

-----------------------------------------------------------------------------
(* Routes.                                                                 *)

\* A concatenation is the sequence that has its elements.
LEMMA Joined ==
    ASSUME NEW s \in Seq(Parts), NEW t \in Seq(Parts), NEW u \in Seq(Parts),
           Len(u) = Len(s) + Len(t),
           \A i \in 1..Len(u) : u[i] = IF i <= Len(s) THEN s[i] ELSE t[i - Len(s)]
    PROVE  s \o t = u
<1>1. /\ s \o t \in Seq(Parts) /\ Len(s \o t) = Len(u)
      /\ \A i \in 1..Len(u) : (s \o t)[i] = u[i]
  BY ConcatProperties
<1>. QED BY <1>1, SeqEqual

\* The routes of the authenticated requests, part by part.
LEMMA Authenticated ==
    /\ Route("write") = <<"query", "rollback", "limit", "query", "commit", "send">>
    /\ Route("read") = <<"query", "rollback", "limit", "query", "send">>
    /\ Route("list") = <<"query", "rollback", "limit", "limit", "query", "send">>
<1>. DEFINE s == Authenticate
<1>1. s \in Seq(Parts) /\ Len(s) = 3 /\ s[1] = "query" /\ s[2] = "rollback" /\ s[3] = "limit"
  BY DEF Authenticate, Parts
<1>2. s \o <<"query", "commit", "send">> = <<"query", "rollback", "limit", "query", "commit", "send">>
  <2>. DEFINE t == <<"query", "commit", "send">>
              u == <<"query", "rollback", "limit", "query", "commit", "send">>
  <2>1. t \in Seq(Parts) /\ u \in Seq(Parts) /\ Len(t) = 3 /\ Len(u) = 6
    BY DEF Parts
  <2>2. /\ Len(u) = Len(s) + Len(t)
        /\ \A i \in 1..Len(u) : u[i] = IF i <= Len(s) THEN s[i] ELSE t[i - Len(s)]
    BY <1>1, <2>1
  <2>. HIDE DEF s, t, u
  <2>3. s \o t = u
    BY <1>1, <2>1, <2>2, Joined
  <2>. QED BY <2>3 DEF s, t, u
<1>3. s \o <<"query", "send">> = <<"query", "rollback", "limit", "query", "send">>
  <2>. DEFINE t == <<"query", "send">>
              u == <<"query", "rollback", "limit", "query", "send">>
  <2>1. t \in Seq(Parts) /\ u \in Seq(Parts) /\ Len(t) = 2 /\ Len(u) = 5
    BY DEF Parts
  <2>2. /\ Len(u) = Len(s) + Len(t)
        /\ \A i \in 1..Len(u) : u[i] = IF i <= Len(s) THEN s[i] ELSE t[i - Len(s)]
    BY <1>1, <2>1
  <2>. HIDE DEF s, t, u
  <2>3. s \o t = u
    BY <1>1, <2>1, <2>2, Joined
  <2>. QED BY <2>3 DEF s, t, u
<1>4. s \o <<"limit", "query", "send">> = <<"query", "rollback", "limit", "limit", "query", "send">>
  <2>. DEFINE t == <<"limit", "query", "send">>
              u == <<"query", "rollback", "limit", "limit", "query", "send">>
  <2>1. t \in Seq(Parts) /\ u \in Seq(Parts) /\ Len(t) = 3 /\ Len(u) = 6
    BY DEF Parts
  <2>2. /\ Len(u) = Len(s) + Len(t)
        /\ \A i \in 1..Len(u) : u[i] = IF i <= Len(s) THEN s[i] ELSE t[i - Len(s)]
    BY <1>1, <2>1
  <2>. HIDE DEF s, t, u
  <2>3. s \o t = u
    BY <1>1, <2>1, <2>2, Joined
  <2>. QED BY <2>3 DEF s, t, u
<1>. QED BY <1>2, <1>3, <1>4 DEF Route

Ends == {"rollback", "commit"}
Slow == {"limit", "hash"}

\* On what is left of a route, s, a task that has a connection gives it back
\* before it waits for Redis or for a thread.
Calm(s) ==
    \A i \in 1..Len(s) : s[i] \in Slow => \E j \in 1..(i - 1) : s[j] \in Ends

\* That holds from every query of s on.
Considerate(s) ==
    \A i, k \in 1..Len(s) : i < k /\ s[i] = "query" /\ s[k] \in Slow =>
        \E j \in i..(k - 1) : s[j] \in Ends

\* Every route of the API is so.
LEMMA RoutesAreConsiderate ==
    ASSUME NEW r \in Routes
    PROVE  Route(r) \in Seq(Parts) /\ Considerate(Route(r))
<1>. DEFINE s == Route(r)
<1>. USE DEF Parts, Considerate, Slow, Ends
<1>1. CASE r = "login"
  <2>1. s = <<"limit", "query", "rollback", "hash", "query", "commit", "send">>
    BY <1>1 DEF Route
  <2>. QED BY <2>1
<1>2. CASE r = "rehash"
  <2>1. s = <<"limit", "query", "rollback", "hash", "hash", "query", "commit", "send">>
    BY <1>2 DEF Route
  <2>. QED BY <2>1
<1>3. CASE r = "ready"
  <2>1. s = <<"query", "rollback", "send">>
    BY <1>3 DEF Route
  <2>. QED BY <2>1
<1>4. CASE r = "write"
  <2>1. s = <<"query", "rollback", "limit", "query", "commit", "send">>
    BY <1>4, Authenticated
  <2>. QED BY <2>1
<1>5. CASE r = "read"
  <2>1. s = <<"query", "rollback", "limit", "query", "send">>
    BY <1>5, Authenticated
  <2>. QED BY <2>1
<1>6. CASE r = "list"
  <2>1. s = <<"query", "rollback", "limit", "limit", "query", "send">>
    BY <1>6, Authenticated
  <2>. QED BY <2>1
<1>. QED BY <1>1, <1>2, <1>3, <1>4, <1>5, <1>6 DEF Routes

\* What a step leaves of a considerate route is considerate; and what a task
\* may hold on to a connection for stays so until it gives it back.
LEMMA Rest ==
    ASSUME NEW s \in Seq(Parts), s # <<>>, Considerate(s)
    PROVE  /\ Tail(s) \in Seq(Parts) /\ Considerate(Tail(s))
           /\ Calm(s) => Head(s) \notin Slow
           /\ Calm(s) /\ Head(s) \notin Ends => Calm(Tail(s))
           /\ Head(s) = "query" => Calm(s)
<1>. DEFINE t == Tail(s)
<1>1. /\ t \in Seq(Parts) /\ Len(s) \in Nat \ {0} /\ Len(t) = Len(s) - 1 /\ Head(s) = s[1]
      /\ \A i \in 1..Len(t) : t[i] = s[i + 1]
  BY HeadTailProperties
<1>. HIDE DEF t
<1>2. Considerate(t)
  <2>. SUFFICES ASSUME NEW i \in 1..Len(t), NEW k \in 1..Len(t),
                       i < k, t[i] = "query", t[k] \in Slow
                PROVE  \E j \in i..(k - 1) : t[j] \in Ends
    BY DEF Considerate
  <2>1. /\ i + 1 \in 1..Len(s) /\ k + 1 \in 1..Len(s) /\ i + 1 < k + 1
        /\ s[i + 1] = "query" /\ s[k + 1] \in Slow
    BY <1>1
  <2>2. PICK j \in (i + 1)..((k + 1) - 1) : s[j] \in Ends
    BY <2>1 DEF Considerate
  <2>3. j - 1 \in i..(k - 1) /\ j - 1 \in 1..Len(t) /\ (j - 1) + 1 = j
    BY <1>1
  <2>. QED BY <1>1, <2>2, <2>3
<1>3. Calm(s) => s[1] \notin Slow
  BY <1>1 DEF Calm
<1>4. ASSUME Calm(s), s[1] \notin Ends
      PROVE  Calm(t)
  <2>. SUFFICES ASSUME NEW i \in 1..Len(t), t[i] \in Slow
                PROVE  \E j \in 1..(i - 1) : t[j] \in Ends
    BY DEF Calm
  <2>1. i + 1 \in 1..Len(s) /\ s[i + 1] \in Slow
    BY <1>1
  <2>2. PICK j \in 1..((i + 1) - 1) : s[j] \in Ends
    BY <1>4, <2>1 DEF Calm
  <2>3. j # 1
    BY <1>4, <2>2
  <2>4. j - 1 \in 1..(i - 1) /\ j - 1 \in 1..Len(t) /\ (j - 1) + 1 = j
    BY <1>1, <2>3
  <2>. QED BY <1>1, <2>2, <2>4
<1>5. ASSUME s[1] = "query"
      PROVE  Calm(s)
  BY <1>1, <1>5 DEF Considerate, Calm, Slow
<1>. QED BY <1>1, <1>2, <1>3, <1>4, <1>5 DEF t

-----------------------------------------------------------------------------
(* The inductive invariant.                                                *)

\* TypeOK without the gauge; only finitely many have a connection or a thread.
Types ==
    /\ left \in [Tasks -> Seq(Parts)]
    /\ step \in [Tasks -> {"idle", "run", "acquire", "line", "hash"}]
    /\ out \subseteq Tasks /\ IsFiniteSet(out) /\ Cardinality(out) <= PoolSize
    /\ hashing \subseteq Tasks /\ IsFiniteSet(hashing) /\ Cardinality(hashing) <= Threads
    /\ line \in Seq(Tasks)

\* Who has a connection runs, and gives it back before anything slow; and so
\* will who waits for one.  Who hashes is not at the end of its route.
Holders ==
    \A t \in Tasks :
        /\ Considerate(left[t])
        /\ t \in out => step[t] = "run"
        /\ t \in out \/ step[t] = "acquire" => Calm(left[t])
        /\ step[t] \in {"line", "hash"} => left[t] # <<>>

\* Who is in a thread or in the line, is there once and waits for nothing else.
Waiters ==
    /\ hashing = {t \in Tasks : step[t] = "hash"}
    /\ \A i \in 1..Len(line) : step[line[i]] = "line"
    /\ \A i, j \in 1..Len(line) : line[i] = line[j] => i = j

Acquiring == {t \in Tasks : step[t] = "acquire"}

Gauge == IsFiniteSet(Acquiring) /\ acquiring = Cardinality(Acquiring)

IInv == Types /\ Holders /\ Waiters /\ Gauge

\* The gauge is right after a step that changes neither it nor who waits, one
\* that adds t to both, and one that removes it from both.
LEMMA GaugeSteps ==
    ASSUME Gauge, Types, NEW t \in Tasks
    PROVE  /\ acquiring \in Nat
           /\ Acquiring' = Acquiring /\ acquiring' = acquiring => Gauge'
           /\ /\ Acquiring' = Acquiring \cup {t} /\ t \notin Acquiring
              /\ acquiring' = acquiring + 1
              => Gauge'
           /\ /\ Acquiring' = Acquiring \ {t} /\ t \in Acquiring
              /\ acquiring' = acquiring - 1
              => Gauge'
BY FS_CardinalityType, FS_AddElement, FS_RemoveElement DEF Gauge

\* A task that has come to s in the route, or leaves it; the others wait on.
LEMMA MovesOn ==
    ASSUME IInv, NEW t \in Tasks, step[t] \in {"idle", "run"}, t \notin hashing,
           NEW s \in {"idle", "run"}, step' = [step EXCEPT ![t] = s],
           UNCHANGED <<hashing, line, acquiring>>
    PROVE  Waiters' /\ Gauge'
<1>1. Waiters'
  <2>1. \A i \in 1..Len(line) : line[i] \in Tasks /\ line[i] # t
    BY ElementOfSeq DEF IInv, Types, Waiters
  <2>. QED BY <2>1 DEF IInv, Types, Waiters
<1>2. Acquiring' = Acquiring
  BY DEF Acquiring, IInv, Types
<1>. QED BY <1>1, <1>2, GaugeSteps DEF IInv

\* One connection fewer.
LEMMA Returned ==
    ASSUME Types, NEW t \in Tasks
    PROVE  /\ out \ {t} \subseteq Tasks /\ IsFiniteSet(out \ {t})
           /\ Cardinality(out \ {t}) <= PoolSize
<1>1. IsFiniteSet(out \ {t}) /\ Cardinality(out \ {t}) <= Cardinality(out)
  BY FS_Subset DEF Types
<1>2. Cardinality(out) \in Nat /\ Cardinality(out \ {t}) \in Nat
  BY <1>1, FS_CardinalityType DEF Types
<1>. QED BY <1>1, <1>2, SizesArePositive DEF Types

\* One connection more, when there is room.
LEMMA Taken ==
    ASSUME Types, NEW t \in Tasks, Room
    PROVE  /\ out \cup {t} \subseteq Tasks /\ IsFiniteSet(out \cup {t})
           /\ Cardinality(out \cup {t}) <= PoolSize
<1>1. /\ IsFiniteSet(out \cup {t})
      /\ Cardinality(out \cup {t}) = IF t \in out THEN Cardinality(out) ELSE Cardinality(out) + 1
  BY FS_AddElement DEF Types
<1>2. Cardinality(out) \in Nat
  BY FS_CardinalityType DEF Types
<1>. QED BY <1>1, <1>2, SizesArePositive DEF Types, Room

\* An empty route.
LEMMA Nothing == <<>> \in Seq(Parts) /\ Considerate(<<>>) /\ Calm(<<>>)
BY DEF Considerate, Calm

-----------------------------------------------------------------------------
(* The invariant across one step.                                          *)

LEMMA BeginStep ==
    ASSUME IInv, NEW t \in Tasks, Begin(t)
    PROVE  IInv'
<1>1. PICK r \in Routes :
        /\ step[t] = "idle"
        /\ left' = [left EXCEPT ![t] = Route(r)]
        /\ step' = [step EXCEPT ![t] = "run"]
        /\ UNCHANGED <<out, hashing, line, acquiring>>
  BY DEF Begin, Goto
<1>2. t \notin out /\ t \notin hashing
  BY <1>1 DEF IInv, Holders, Waiters
<1>. DEFINE s == Route(r)
<1>3. s \in Seq(Parts) /\ Considerate(s)
  BY RoutesAreConsiderate
<1>. HIDE DEF s
<1>4. Types' /\ Holders'
  BY <1>1, <1>2, <1>3 DEF IInv, Types, Holders, s
<1>. QED BY <1>1, <1>2, <1>4, MovesOn DEF IInv

\* A request that ends where it runs: at its end, or with an error.
LEMMA EndStep ==
    ASSUME IInv, NEW t \in Tasks, step[t] = "run", End(t), UNCHANGED <<hashing, line, acquiring>>
    PROVE  IInv'
<1>1. /\ step' = [step EXCEPT ![t] = "idle"]
      /\ left' = [left EXCEPT ![t] = <<>>]
      /\ out' = out \ {t}
  BY DEF End, Goto
<1>2. t \notin hashing
  BY DEF IInv, Waiters
<1>3. Types'
  BY <1>1, Returned, Nothing DEF IInv, Types
<1>4. Holders'
  BY <1>1, Nothing DEF IInv, Types, Holders
<1>. QED BY <1>1, <1>2, <1>3, <1>4, MovesOn DEF IInv

\* A part of the route that needs nothing but a connection, or nothing.
LEMMA AdvanceStep ==
    ASSUME IInv, NEW t \in Tasks,
           Query(t) \/ GiveBack(t) \/ Limit(t) \/ Send(t)
    PROVE  IInv'
<1>. DEFINE s == left[t]
<1>1. /\ step[t] = "run" /\ s # <<>> /\ left' = [left EXCEPT ![t] = Tail(s)]
      /\ out' = out \/ out' = out \ {t}
      /\ Head(s) \in Ends => out' = out \ {t}
      /\ UNCHANGED <<step, hashing, line, acquiring>>
  BY DEF Query, GiveBack, Limit, Send, Comes, Advance, Ends
<1>2. s \in Seq(Parts) /\ Considerate(s) /\ t \notin hashing
  BY <1>1 DEF IInv, Types, Holders, Waiters
<1>3. /\ Tail(s) \in Seq(Parts) /\ Considerate(Tail(s))
      /\ Calm(s) /\ Head(s) \notin Ends => Calm(Tail(s))
  BY <1>1, <1>2, Rest
<1>4. Types'
  BY <1>1, <1>3, Returned DEF IInv, Types
<1>5. Holders'
  BY <1>1, <1>3 DEF IInv, Types, Holders
<1>6. step' = [step EXCEPT ![t] = "run"]
  BY <1>1 DEF IInv, Types
<1>. QED BY <1>1, <1>2, <1>4, <1>5, <1>6, MovesOn DEF IInv

LEMMA AcquireStep ==
    ASSUME IInv, NEW t \in Tasks, Acquire(t)
    PROVE  IInv'
<1>1. step[t] = "run" /\ left[t] # <<>> /\ Head(left[t]) = "query" /\ t \notin out
  BY DEF Acquire, Comes
<1>2. Calm(left[t]) /\ t \notin hashing
  BY <1>1, Rest DEF IInv, Types, Holders, Waiters
<1>3. CASE Room
  <2>1. out' = out \cup {t} /\ UNCHANGED <<left, step, hashing, line, acquiring>>
    BY <1>3 DEF Acquire
  <2>2. Types'
    BY <1>3, <2>1, Taken DEF IInv, Types
  <2>3. Holders'
    BY <1>1, <1>2, <2>1 DEF IInv, Holders
  <2>4. step' = [step EXCEPT ![t] = "run"]
    BY <1>1, <2>1 DEF IInv, Types
  <2>. QED BY <1>1, <1>2, <2>1, <2>2, <2>3, <2>4, MovesOn DEF IInv
<1>4. CASE ~ Room
  <2>1. /\ step' = [step EXCEPT ![t] = "acquire"] /\ acquiring' = acquiring + 1
        /\ UNCHANGED <<left, out, hashing, line>>
    BY <1>4 DEF Acquire, Goto
  <2>2. Types' /\ Holders'
    BY <1>1, <1>2, <2>1 DEF IInv, Types, Holders
  <2>3. Waiters'
    <3>1. \A i \in 1..Len(line) : line[i] \in Tasks /\ line[i] # t
      BY <1>1, ElementOfSeq DEF IInv, Types, Waiters
    <3>. QED BY <1>1, <2>1, <3>1 DEF IInv, Types, Waiters
  <2>4. Acquiring' = Acquiring \cup {t} /\ t \notin Acquiring
    BY <1>1, <2>1 DEF Acquiring, IInv, Types
  <2>. QED BY <2>1, <2>2, <2>3, <2>4, GaugeSteps DEF IInv
<1>. QED BY <1>3, <1>4

\* The wait for a connection ends: with one, by its timeout or by the probe's.
LEMMA WaitEnds ==
    ASSUME IInv, NEW t \in Tasks, Acquired(t) \/ PoolTimeout(t) \/ GiveUp(t)
    PROVE  IInv'
<1>1. /\ step[t] = "acquire" /\ acquiring' = acquiring - 1 /\ UNCHANGED <<hashing, line>>
      /\ \/ /\ Room /\ out' = out \cup {t} /\ left' = left
            /\ step' = [step EXCEPT ![t] = "run"]
         \/ /\ out' = out \ {t} /\ left' = [left EXCEPT ![t] = <<>>]
            /\ step' = [step EXCEPT ![t] = "idle"]
  BY DEF Acquired, PoolTimeout, GiveUp, End, Goto
<1>2. Waiters'
  <2>1. \A i \in 1..Len(line) : line[i] \in Tasks /\ line[i] # t
    BY <1>1, ElementOfSeq DEF IInv, Types, Waiters
  <2>. QED BY <1>1, <2>1 DEF IInv, Types, Waiters
<1>3. Acquiring' = Acquiring \ {t} /\ t \in Acquiring
  BY <1>1 DEF Acquiring, IInv, Types
<1>4. Gauge'
  BY <1>1, <1>3, GaugeSteps DEF IInv
<1>5. CASE /\ Room /\ out' = out \cup {t} /\ left' = left
           /\ step' = [step EXCEPT ![t] = "run"]
  <2>1. Types'
    BY <1>1, <1>5, Taken DEF IInv, Types
  <2>2. Holders'
    BY <1>1, <1>5 DEF IInv, Types, Holders
  <2>. QED BY <1>2, <1>4, <2>1, <2>2 DEF IInv
<1>6. CASE /\ out' = out \ {t} /\ left' = [left EXCEPT ![t] = <<>>]
           /\ step' = [step EXCEPT ![t] = "idle"]
  <2>1. Types'
    BY <1>1, <1>6, Returned, Nothing DEF IInv, Types
  <2>2. Holders'
    BY <1>6, Nothing DEF IInv, Types, Holders
  <2>. QED BY <1>2, <1>4, <2>1, <2>2 DEF IInv
<1>. QED BY <1>1, <1>5, <1>6

LEMMA HashStep ==
    ASSUME IInv, NEW t \in Tasks, Hash(t)
    PROVE  IInv'
<1>1. /\ step[t] = "run" /\ left[t] # <<>> /\ Head(left[t]) = "hash"
      /\ UNCHANGED <<left, out, acquiring>>
  BY DEF Hash, Comes
<1>2. t \notin out /\ t \notin hashing
  BY <1>1, Rest DEF IInv, Types, Holders, Waiters, Slow
<1>3. \A i \in 1..Len(line) : line[i] \in Tasks /\ line[i] # t
  BY <1>1, ElementOfSeq DEF IInv, Types, Waiters
<1>4. CASE line = <<>> /\ Cardinality(hashing) < Threads
  <2>1. /\ step' = [step EXCEPT ![t] = "hash"] /\ hashing' = hashing \cup {t}
        /\ UNCHANGED line
    BY <1>4 DEF Hash, Goto
  <2>2. /\ IsFiniteSet(hashing \cup {t}) /\ Cardinality(hashing) \in Nat
        /\ Cardinality(hashing \cup {t}) = Cardinality(hashing) + 1
    BY <1>2, FS_AddElement, FS_CardinalityType DEF IInv, Types
  <2>3. Types'
    BY <1>1, <1>4, <2>1, <2>2, SizesArePositive DEF IInv, Types
  <2>4. Holders'
    BY <1>1, <1>2, <2>1 DEF IInv, Types, Holders
  <2>5. Waiters'
    BY <1>3, <2>1 DEF IInv, Types, Waiters
  <2>6. Acquiring' = Acquiring
    BY <1>1, <2>1 DEF Acquiring, IInv, Types
  <2>. QED BY <1>1, <2>3, <2>4, <2>5, <2>6, GaugeSteps DEF IInv
<1>5. CASE ~ (line = <<>> /\ Cardinality(hashing) < Threads)
  <2>1. /\ step' = [step EXCEPT ![t] = "line"] /\ line' = Append(line, t)
        /\ UNCHANGED hashing
    BY <1>5 DEF Hash, Goto
  <2>2. /\ line' \in Seq(Tasks) /\ Len(line) \in Nat /\ Len(line') = Len(line) + 1
        /\ \A i \in 1..Len(line) : line'[i] = line[i]
        /\ line'[Len(line) + 1] = t
    BY <2>1, AppendProperties, LenProperties DEF IInv, Types
  <2>3. Types'
    BY <1>1, <2>1, <2>2 DEF IInv, Types
  <2>4. Holders'
    BY <1>1, <1>2, <2>1 DEF IInv, Types, Holders
  <2>5. \A i \in 1..Len(line') : step'[line'[i]] = "line"
    BY <1>3, <2>1, <2>2 DEF IInv, Types, Waiters
  <2>6. \A i, j \in 1..Len(line') : line'[i] = line'[j] => i = j
    <3>1. \A i \in 1..Len(line') : i \in 1..Len(line) \/ i = Len(line) + 1
      BY <2>2
    <3>2. \A i, j \in 1..Len(line) : line[i] = line[j] => i = j
      BY DEF IInv, Waiters
    <3>3. \A i \in 1..Len(line) : line'[i] # t
      BY <1>3, <2>2
    <3>. SUFFICES ASSUME NEW i \in 1..Len(line'), NEW j \in 1..Len(line'), line'[i] = line'[j]
                  PROVE  i = j
      OBVIOUS
    <3>4. CASE i \in 1..Len(line) /\ j \in 1..Len(line)
      BY <2>2, <3>2, <3>4
    <3>. QED BY <2>2, <3>1, <3>3, <3>4
  <2>7. hashing' = {u \in Tasks : step'[u] = "hash"}
    BY <1>1, <2>1 DEF IInv, Types, Waiters
  <2>8. Acquiring' = Acquiring
    BY <1>1, <2>1 DEF Acquiring, IInv, Types
  <2>9. Waiters'
    BY <2>5, <2>6, <2>7 DEF Waiters
  <2>. QED BY <1>1, <2>3, <2>4, <2>8, <2>9, GaugeSteps DEF IInv
<1>. QED BY <1>4, <1>5

\* The thread of t goes to the first in the line.
LEMMA HashedStep ==
    ASSUME IInv, NEW t \in Tasks, Hashed(t)
    PROVE  IInv'
<1>. DEFINE next == IF line = <<>> THEN {} ELSE {Head(line)}
<1>1. /\ step[t] = "hash" /\ hashing' = (hashing \ {t}) \cup next
      /\ line' = IF line = <<>> THEN line ELSE Tail(line)
      /\ step' = [u \in Tasks |->
                    IF u = t THEN "run" ELSE IF u \in next THEN "hash" ELSE step[u]]
      /\ left' = [left EXCEPT ![t] = Tail(left[t])]
      /\ UNCHANGED <<out, acquiring>>
  BY DEF Hashed, Advance
<1>2. t \in hashing /\ t \notin out
  BY <1>1 DEF IInv, Holders, Waiters
<1>3. \A i \in 1..Len(line) :
        line[i] \in Tasks /\ line[i] # t /\ step[line[i]] = "line" /\ line[i] \notin hashing
  BY <1>1, ElementOfSeq DEF IInv, Types, Waiters
<1>4. \A u \in next : u \in Tasks /\ u # t /\ step[u] = "line" /\ u \notin hashing
  BY <1>3, HeadTailProperties, EmptySeq DEF IInv, Types
<1>5. Tail(left[t]) \in Seq(Parts) /\ Considerate(Tail(left[t]))
  BY <1>1, Rest DEF IInv, Types, Holders
<1>6. line' \in Seq(Tasks)
  BY <1>1, HeadTailProperties DEF IInv, Types
<1>7. /\ hashing' \subseteq Tasks /\ IsFiniteSet(hashing')
      /\ Cardinality(hashing') <= Threads
  <2>1. /\ IsFiniteSet(hashing \ {t}) /\ Cardinality(hashing \ {t}) = Cardinality(hashing) - 1
        /\ Cardinality(hashing) \in Nat
    BY <1>2, FS_RemoveElement, FS_CardinalityType DEF IInv, Types
  <2>2. CASE line = <<>>
    <3>1. hashing' = hashing \ {t}
      BY <1>1, <2>2
    <3>. QED BY <2>1, <3>1, SizesArePositive DEF IInv, Types
  <2>3. CASE line # <<>>
    <3>. DEFINE u == Head(line)
    <3>1. hashing' = (hashing \ {t}) \cup {u} /\ u \in Tasks /\ u \notin hashing \ {t}
      BY <1>1, <1>4, <2>3
    <3>. HIDE DEF u
    <3>2. IsFiniteSet(hashing') /\ Cardinality(hashing') = Cardinality(hashing \ {t}) + 1
      BY <2>1, <3>1, FS_AddElement
    <3>. QED BY <2>1, <3>1, <3>2, SizesArePositive DEF IInv, Types
  <2>. QED BY <2>2, <2>3
<1>8. Types'
  BY <1>1, <1>5, <1>6, <1>7 DEF IInv, Types
<1>9. Holders'
  BY <1>1, <1>2, <1>4, <1>5 DEF IInv, Types, Holders
<1>10. hashing' = {u \in Tasks : step'[u] = "hash"}
  BY <1>1, <1>4 DEF IInv, Types, Waiters
<1>11. /\ \A i \in 1..Len(line') : step'[line'[i]] = "line"
       /\ \A i, j \in 1..Len(line') : line'[i] = line'[j] => i = j
  <2>1. CASE line = <<>>
    BY <1>1, <2>1
  <2>2. CASE line # <<>>
    <3>1. /\ Len(line) \in Nat \ {0} /\ Len(line') = Len(line) - 1 /\ Head(line) = line[1]
          /\ \A i \in 1..Len(line') : line'[i] = line[i + 1]
      BY <1>1, <2>2, HeadTailProperties DEF IInv, Types
    <3>2. \A i, j \in 1..Len(line) : line[i] = line[j] => i = j
      BY DEF IInv, Waiters
    <3>3. \A i \in 1..Len(line') : /\ i + 1 \in 1..Len(line) /\ i + 1 # 1
      BY <3>1
    <3>4. \A i \in 1..Len(line') : line'[i] # line[1]
      BY <3>1, <3>2, <3>3
    <3>5. \A i, j \in 1..Len(line') : line'[i] = line'[j] => i = j
      <4>. SUFFICES ASSUME NEW i \in 1..Len(line'), NEW j \in 1..Len(line'),
                           line'[i] = line'[j]
                    PROVE  i = j
        OBVIOUS
      <4>1. i + 1 = j + 1
        BY <3>1, <3>2, <3>3
      <4>. QED BY <4>1
    <3>6. \A i \in 1..Len(line') :
            line'[i] \in Tasks /\ line'[i] # t /\ line'[i] \notin next /\ step[line'[i]] = "line"
      BY <1>3, <2>2, <3>1, <3>3, <3>4
    <3>7. \A i \in 1..Len(line') : step'[line'[i]] = "line"
      BY <1>1, <3>6
    <3>. QED BY <3>5, <3>7
  <2>. QED BY <2>1, <2>2
<1>12. Waiters'
  BY <1>10, <1>11 DEF Waiters
<1>13. Acquiring' = Acquiring
  BY <1>1, <1>4 DEF Acquiring
<1>. QED BY <1>1, <1>8, <1>9, <1>12, <1>13, GaugeSteps DEF IInv

\* A step of any task keeps it.
LEMMA Inductive == IInv /\ [Next]_vars => IInv'
<1>. SUFFICES ASSUME IInv, [Next]_vars
              PROVE  IInv'
  OBVIOUS
<1>1. CASE UNCHANGED vars
  <2>1. UNCHANGED <<left, step, out, hashing, line, acquiring>> /\ Acquiring' = Acquiring
    BY <1>1 DEF vars, Acquiring
  <2>2. Types' /\ Holders' /\ Waiters'
    BY <2>1 DEF IInv, Types, Holders, Waiters
  <2>. QED BY <2>1, <2>2 DEF IInv, Gauge
<1>2. CASE Next
  <2>1. PICK t \in Tasks : Begin(t) \/ Step(t) \/ Fail(t) \/ PoolTimeout(t) \/ GiveUp(t)
    BY <1>2 DEF Next
  <2>2. CASE Begin(t)
    BY <2>2, BeginStep
  <2>3. CASE Exit(t) \/ Fail(t)
    BY <2>3, EndStep DEF Exit, Fail
  <2>4. CASE Query(t) \/ GiveBack(t) \/ Limit(t) \/ Send(t)
    BY <2>4, AdvanceStep
  <2>5. CASE Acquire(t)
    BY <2>5, AcquireStep
  <2>6. CASE Acquired(t) \/ PoolTimeout(t) \/ GiveUp(t)
    BY <2>6, WaitEnds
  <2>7. CASE Hash(t)
    BY <2>7, HashStep
  <2>8. CASE Hashed(t)
    BY <2>8, HashedStep
  <2>. QED BY <2>1, <2>2, <2>3, <2>4, <2>5, <2>6, <2>7, <2>8 DEF Step
<1>. QED BY <1>1, <1>2

\* It holds where the process starts.
LEMMA Initially == Init => IInv
<1>. SUFFICES ASSUME Init
              PROVE  IInv
  OBVIOUS
<1>1. IsFiniteSet({}) /\ Cardinality({}) = 0
  BY FS_EmptySet
<1>2. Types
  BY <1>1, Nothing, EmptySeq, SizesArePositive DEF Init, Types
<1>3. Holders /\ Waiters
  BY Nothing DEF Init, Holders, Waiters
<1>4. Acquiring = {}
  BY DEF Init, Acquiring
<1>. QED BY <1>1, <1>2, <1>3, <1>4 DEF Init, IInv, Gauge

LEMMA Invariant == Spec => []IInv
BY Initially, Inductive, PTL DEF Spec

-----------------------------------------------------------------------------
(* What follows for every behaviour.                                       *)

\* Never are more connections checked out than db_pool_size + db_max_overflow,
\* nor more passwords in threads than password_hash_concurrency.
THEOREM TypeCorrect == Spec => []TypeOK
<1>1. IInv => TypeOK
  BY FS_CardinalityType DEF IInv, Types, Gauge, TypeOK
<1>. QED BY <1>1, Invariant, PTL

\* Nobody keeps a connection while it waits for Redis, for a thread of
\* passwords.py or for another connection.
THEOREM HoldersAreQuick == Spec => []NoConnectionAcrossRedisOrHash
<1>1. IInv => NoConnectionAcrossRedisOrHash
  <2>. SUFFICES ASSUME IInv, NEW t \in out
                PROVE  step[t] = "run" /\ ~ Comes(t, "limit") /\ ~ Comes(t, "hash")
    BY DEF NoConnectionAcrossRedisOrHash
  <2>1. /\ t \in Tasks /\ step[t] = "run" /\ Calm(left[t]) /\ Considerate(left[t])
        /\ left[t] \in Seq(Parts)
    BY DEF IInv, Types, Holders
  <2>2. left[t] # <<>> => Head(left[t]) \notin Slow
    BY <2>1, Rest
  <2>. QED BY <2>1, <2>2 DEF Comes, Slow
<1>. QED BY <1>1, Invariant, PTL

\* On every way out, get_uow's exit, the timeouts and the cancellation by the
\* probe included, a request leaves the pool, the threads and their line, and
\* the gauge db_pool_acquiring counts exactly those who wait.
THEOREM NoLeaks == Spec => []NothingLeaks
<1>1. IInv => NothingLeaks
  <2>1. IInv => DOMAIN line = 1..Len(line)
    BY LenProperties DEF IInv, Types
  <2>2. IInv => \A i \in DOMAIN line : line[i] \in Tasks /\ step[line[i]] = "line"
    BY <2>1, ElementOfSeq DEF IInv, Types, Waiters
  <2>3. IInv => \A t \in Tasks : step[t] = "idle" =>
          t \notin out \cup hashing /\ \A i \in DOMAIN line : line[i] # t
    BY <2>2 DEF IInv, Holders, Waiters
  <2>4. IInv => acquiring = Cardinality({t \in Tasks : step[t] = "acquire"})
    BY DEF IInv, Gauge, Acquiring
  <2>. QED BY <2>3, <2>4 DEF NothingLeaks
<1>. QED BY <1>1, Invariant, PTL

=============================================================================
