--------------------------- MODULE MailEventsProofs ---------------------------
(***************************************************************************)
(* Proofs about MailEvents, for any number of recipients, of calls under   *)
(* way, of retries, of events handed over twice, of reports and failures.  *)
(*                                                                         *)
(* The invariants count the calls that are at a certain point of a         *)
(* recipient's event: Num(handler, K) is how many have a record in K. A    *)
(* step of a call changes one record, and so each count by one at most     *)
(* (NumMoves).                                                             *)
(***************************************************************************)
EXTENDS MailEvents, SumFacts, FiniteSetTheorems, TLAPS

(***************************************************************************)
(* Counting calls                                                          *)
(***************************************************************************)

Num(f, K) == Cardinality({x \in DOMAIN f : f[x] \in K})
In(v, K) == IF v \in K THEN 1 ELSE 0

\* A function with finite domain has finitely many calls of a kind.
LEMMA NumType ==
  ASSUME NEW D, IsFiniteSet(D), NEW R, NEW f \in [D -> R], NEW K
  PROVE  /\ Num(f, K) \in Nat
         /\ \A x \in D : f[x] \in K => Num(f, K) >= 1
         /\ (\A x \in D : f[x] \notin K) => Num(f, K) = 0
<1> DEFINE S == {x \in DOMAIN f : f[x] \in K}
<1>1. DOMAIN f = D /\ S \in SUBSET D
  OBVIOUS
<1>2. IsFiniteSet(S)
  BY <1>1, FS_Subset
<1>3. Cardinality(S) \in Nat
  BY <1>2, FS_CardinalityType
<1>4. ASSUME NEW x \in D, f[x] \in K PROVE Cardinality(S) # 0
  BY <1>2, <1>4, FS_EmptySet
<1>5. ASSUME \A x \in D : f[x] \notin K PROVE Cardinality(S) = 0
  <2>1. S = {}
    BY <1>5
  <2> QED
    BY <2>1, FS_EmptySet
<1> QED
  BY <1>3, <1>4, <1>5 DEF Num

\* One call moves: each count changes by what its record was and is.
LEMMA NumMoves ==
  ASSUME NEW f, NEW g, NEW D, IsFiniteSet(D), DOMAIN f = D, DOMAIN g = D,
         NEW x \in D, \A y \in D \ {x} : g[y] = f[y], NEW K
  PROVE  Num(g, K) = Num(f, K) + In(g[x], K) - In(f[x], K)
<1> DEFINE S == {y \in DOMAIN f : f[y] \in K}
           T == {y \in DOMAIN g : g[y] \in K}
           U == S \ {x}
<1>1. DOMAIN f = D /\ DOMAIN g = D /\ S \in SUBSET D
  OBVIOUS
<1>2. IsFiniteSet(S)
  BY <1>1, FS_Subset
<1>3. /\ IsFiniteSet(U)
      /\ Cardinality(U) = IF x \in S THEN Cardinality(S) - 1 ELSE Cardinality(S)
  BY <1>2, FS_RemoveElement
<1>4. x \in S <=> f[x] \in K
  BY <1>1
<1>5. T = IF g[x] \in K THEN U \union {x} ELSE U
  BY <1>1
<1>6. Cardinality(U \union {x}) = Cardinality(U) + 1
  BY <1>3, FS_AddElement
<1>7. Cardinality(S) \in Nat /\ Cardinality(U) \in Nat
  BY <1>2, <1>3, FS_CardinalityType
<1> HIDE DEF S, T, U
<1>8. Cardinality(T) = Cardinality(S) + In(g[x], K) - In(f[x], K)
  BY <1>3, <1>4, <1>5, <1>6, <1>7 DEF In
<1> QED
  BY <1>8 DEF Num, S, T

-----------------------------------------------------------------------------
(* Types                                                                   *)

HandlerType == [at : {"idle", "create", "retryGet", "retrySet", "emit",
                      "check", "complete", "copy"},
                r : Recipients, type : Types, n : 0 .. Allowance]
HookType == [at : {"idle", "find", "create", "emit"}, r : Recipients,
             logged : BOOLEAN, known : BOOLEAN]

\* Calls by what they await for recipient r: an answer to a failure, its message,
\* any of a failure, the row of a report.
Answering(r) == {v \in HandlerType : v.at \in {"retryGet", "retrySet", "emit"} /\ v.r = r}
Emitting(r) == {v \in HandlerType : v.at = "emit" /\ v.r = r}
Busy(r) ==
  {v \in HandlerType : /\ v.r = r
                       /\ \/ v.at \in {"retryGet", "retrySet", "emit"}
                          \/ v.at = "create" /\ v.type = "FAILED"}
Reporting(r) == {v \in HandlerType : v.at = "create" /\ v.r = r /\ v.type = "DELIVERED"}

\* Only a failure is answered, and only below the allowance.
Proper(v) ==
  /\ v.at \in {"retryGet", "retrySet", "emit"} => v.type = "FAILED"
  /\ v.at = "retrySet" => v.n < Allowance

Calls == handler \in [Handlers -> HandlerType] /\ \A h \in Handlers : Proper(handler[h])

Rows == rows \in [Recipients \X Kinds -> Nat] /\ retry \in [Recipients -> 0 .. Allowance]

MailCounts == mail \in [Mails -> Nat] /\ emitted \in [Recipients -> Nat]

Reports ==
  /\ hook \in [Hooks -> HookType]
  /\ topic \in [Recipients -> Nat]
  /\ reports \in [Recipients -> Nat]
  /\ early \in [Recipients -> Nat]

Flags ==
  /\ status \in {"SENDING", "COMPLETED"} /\ copy \in {"SENDING", "COMPLETED"}
  /\ overlapped \in BOOLEAN /\ unchecked \in BOOLEAN
  /\ duplicates \in Nat /\ faults \in Nat /\ duplicates + faults <= MaxMishaps

Typed == Calls /\ Rows /\ MailCounts /\ Reports /\ Flags

LEMMA Constants ==
  /\ Allowance \in Nat \ {0} /\ MAX_RETRIES \in Nat /\ MaxMishaps \in Nat
  /\ (MAX_RETRIES # 0 => Allowance = MAX_RETRIES) /\ (MAX_RETRIES = 0 => Allowance = 1)
BY EventsAssumption DEF Allowance

\* The kinds of rows, and the keys of a recipient's mails.
LEMMA Words ==
  /\ Types \subseteq Kinds /\ Counted \subseteq Kinds /\ Outcomes \subseteq Types
  /\ Outcomes \subseteq Counted /\ Sending \subseteq Counted
  /\ "DELIVERED" \in Types /\ "DELIVERED" \notin Counted
  /\ {"SENT", "FAILED", "REJECTED"} \subseteq Outcomes
  /\ Sending \intersect Types = {}
  /\ \A r \in Recipients, by \in {"batch", "topic"}, at \in Stages : <<r, by, at>> \in Mails
BY DEF Kinds, Types, Counted, Outcomes, Sending, Mails

LEMMA Resting == Idle \in HandlerType /\ Idle.at = "idle" /\ Proper(Idle)
<1> DEFINE c == CHOOSE r \in Recipients : TRUE
<1>1. c \in Recipients
  BY EventsAssumption
<1>2. "SENT" \in Types /\ 0 \in 0 .. Allowance
  BY Constants DEF Types, Outcomes
<1>3. Idle = [at |-> "idle", r |-> c, type |-> "SENT", n |-> 0]
  BY DEF Idle
<1> HIDE DEF c
<1>4. Idle.at = "idle"
  BY <1>3
<1>5. [at |-> "idle", r |-> c, type |-> "SENT", n |-> 0] \in HandlerType
  BY <1>1, <1>2 DEF HandlerType
<1>6. Proper(Idle)
  BY <1>4, Zenon DEF Proper
<1> QED
  BY <1>3, <1>4, <1>5, <1>6

LEMMA RestingHook == NoReport \in HookType /\ NoReport.at = "idle" /\ NoReport.logged
<1>1. Idle.r \in Recipients
  BY EventsAssumption DEF Idle
<1> QED
  BY <1>1 DEF NoReport, HookType

Becomes(h, v) == handler' = [handler EXCEPT ![h] = v]

\* How the counts of a recipient change when call h becomes v.
LEMMA CallMoves ==
  ASSUME Calls, NEW h \in Handlers, NEW v \in HandlerType, Proper(v), Becomes(h, v)
  PROVE  /\ Calls' /\ handler'[h] = v /\ \A g \in Handlers \ {h} : handler'[g] = handler[g]
         /\ \A K : /\ Num(handler, K) \in Nat /\ Num(handler', K) \in Nat
                   /\ Num(handler', K) = Num(handler, K) + In(v, K) - In(handler[h], K)
                   /\ handler[h] \in K => Num(handler, K) >= 1
<1>1. handler \in [Handlers -> HandlerType] /\ handler' \in [Handlers -> HandlerType]
  BY DEF Calls, Becomes
<1>2. Calls' /\ handler'[h] = v /\ \A g \in Handlers \ {h} : handler'[g] = handler[g]
  BY <1>1 DEF Calls, Becomes
<1>3. ASSUME NEW K
      PROVE  /\ Num(handler, K) \in Nat /\ Num(handler', K) \in Nat
             /\ Num(handler', K) = Num(handler, K) + In(v, K) - In(handler[h], K)
             /\ handler[h] \in K => Num(handler, K) >= 1
  <2>1. IsFiniteSet(Handlers)
    BY EventsAssumption
  <2>2. Num(handler, K) \in Nat /\ (handler[h] \in K => Num(handler, K) >= 1)
    BY <1>1, <2>1, NumType, Zenon
  <2>3. Num(handler', K) \in Nat
    BY <1>1, <2>1, NumType, Zenon
  <2>4. Num(handler', K) = Num(handler, K) + In(handler'[h], K) - In(handler[h], K)
    <3>1. DOMAIN handler = Handlers /\ DOMAIN handler' = Handlers
      BY <1>1
    <3>2. \A g \in Handlers \ {h} : handler'[g] = handler[g]
      BY <1>2
    <3> QED
      BY <2>1, <3>1, <3>2, NumMoves
  <2> QED
    BY <1>2, <2>2, <2>3, <2>4
<1> QED
  BY <1>2, <1>3
\* What a record counts for.
LEMMA InSets ==
  ASSUME NEW v \in HandlerType, NEW q \in Recipients
  PROVE  /\ In(v, Answering(q)) \in {0, 1}
         /\ In(v, Emitting(q)) \in {0, 1} /\ In(v, Busy(q)) \in {0, 1}
         /\ In(v, Reporting(q)) \in {0, 1}
         /\ In(v, Answering(q)) = 1
              <=> (v.at \in {"retryGet", "retrySet", "emit"} /\ v.r = q)
         /\ In(v, Emitting(q)) = 1 <=> (v.at = "emit" /\ v.r = q)
         /\ In(v, Busy(q)) = 1
              <=> (/\ v.r = q
                   /\ \/ v.at \in {"retryGet", "retrySet", "emit"}
                      \/ v.at = "create" /\ v.type = "FAILED")
         /\ In(v, Reporting(q)) = 1
              <=> (v.at = "create" /\ v.r = q /\ v.type = "DELIVERED")
BY DEF In, Answering, Emitting, Busy, Reporting

-----------------------------------------------------------------------------
(* What the record of a call becomes in each step                          *)

Past == {"idle", "check", "complete", "copy"}
Same(v, u) == v.r = u.r /\ v.type = u.type

\* A record in which the place alone changes.
LEMMA FieldAt ==
  ASSUME NEW u \in HandlerType,
         NEW a \in {"idle", "create", "retryGet", "retrySet", "emit", "check",
                    "complete", "copy"}
  PROVE  LET v == [u EXCEPT !.at = a] IN
         v \in HandlerType /\ v.at = a /\ v.n = u.n /\ Same(v, u)
BY DEF HandlerType, Same

LEMMA MovesTo ==
  ASSUME Calls, NEW h \in Handlers,
         NEW a \in {"idle", "create", "retryGet", "retrySet", "emit", "check",
                    "complete", "copy"},
         Moves(h, a)
  PROVE  \E v \in HandlerType :
           /\ Becomes(h, v)
           /\ v.at = a /\ v.n = handler[h].n /\ Same(v, handler[h])
<1>1. handler \in [Handlers -> HandlerType] /\ handler[h] \in HandlerType
  BY DEF Calls
<1> DEFINE v == [handler[h] EXCEPT !.at = a]
<1>2. v \in HandlerType /\ v.at = a /\ v.n = handler[h].n /\ Same(v, handler[h])
  BY <1>1, FieldAt
<1>3. handler' = [handler EXCEPT ![h] = v]
  BY <1>1 DEF Moves
<1> HIDE DEF v
<1> QED
  BY <1>2, <1>3 DEF Becomes

LEMMA EndsTo ==
  ASSUME NEW h \in Handlers, Ends(h)
  PROVE  Becomes(h, Idle)
BY DEF Ends, Becomes

LEMMA ChecksTo ==
  ASSUME NEW h \in Handlers, Checks(h)
  PROVE  \E v \in HandlerType : Becomes(h, v) /\ v.at = "check"
<1> DEFINE v == [Idle EXCEPT !.at = "check"]
<1>1. v \in HandlerType /\ v.at = "check"
  BY Resting, FieldAt
<1>2. Becomes(h, v)
  BY DEF Checks, Becomes
<1> HIDE DEF v
<1> QED
  BY <1>1, <1>2

\* A call is taken.
LEMMA TakesTo ==
  ASSUME Typed, NEW h \in Handlers, NEW r \in Recipients, NEW type \in Types,
         Takes(h, r, type)
  PROVE  /\ handler[h].at = "idle"
         /\ \E v \in HandlerType :
              /\ Becomes(h, v) /\ Proper(v)
              /\ v.at = "create" /\ v.r = r /\ v.type = type
<1> DEFINE v == [at |-> "create", r |-> r, type |-> type, n |-> 0]
<1>1. v \in HandlerType
  <2>1. 0 \in 0 .. Allowance
    BY Constants
  <2> QED
    BY <2>1 DEF HandlerType
<1>2. v.at = "create" /\ v.r = r /\ v.type = type
  OBVIOUS
<1>3. handler[h].at = "idle" /\ Becomes(h, v)
  BY DEF Takes, Becomes
<1> HIDE DEF v
<1>4. Proper(v)
  BY <1>2 DEF Proper
<1> QED
  BY <1>1, <1>2, <1>3, <1>4

\* The row of an event is written.
LEMMA CreateRowTo ==
  ASSUME Typed, NEW h \in Handlers, CreateRow(h)
  PROVE  /\ handler[h] \in HandlerType /\ handler[h].at = "create"
         /\ \E v \in HandlerType :
              /\ Becomes(h, v) /\ Proper(v)
              /\ \/ /\ handler[h].type = "FAILED"
                    /\ v.at = "retryGet" /\ v.r = handler[h].r
                 \/ handler[h].type # "FAILED" /\ v.at = "check"
<1>1. Calls /\ handler[h] \in HandlerType /\ handler[h].at = "create"
  BY DEF Typed, Calls, CreateRow
<1>2. CASE handler[h].type = "FAILED"
  <2>1. Moves(h, "retryGet")
    BY <1>2 DEF CreateRow
  <2>2. PICK v \in HandlerType : Becomes(h, v) /\ v.at = "retryGet" /\ Same(v, handler[h])
    BY <1>1, <2>1, MovesTo
  <2>3. v.type = "FAILED" /\ v.r = handler[h].r
    BY <1>2, <2>2 DEF Same
  <2>4. Proper(v)
    BY <2>2, <2>3 DEF Proper
  <2> QED
    BY <1>1, <1>2, <2>2, <2>3, <2>4
<1>3. CASE handler[h].type # "FAILED"
  <2>1. Checks(h)
    BY <1>3 DEF CreateRow
  <2>2. PICK v \in HandlerType : Becomes(h, v) /\ v.at = "check"
    BY <2>1, ChecksTo
  <2>3. Proper(v)
    BY <2>2 DEF Proper
  <2> QED
    BY <1>1, <1>3, <2>2, <2>3
<1> QED
  BY <1>2, <1>3

\* The counter is read: below the allowance the mail will be sent again.
LEMMA ReadRetryTo ==
  ASSUME Typed, NEW h \in Handlers, ReadRetry(h)
  PROVE  /\ handler[h] \in HandlerType /\ handler[h].at = "retryGet"
         /\ handler[h].r \in Recipients
         /\ \E v \in HandlerType :
              /\ Becomes(h, v) /\ Proper(v)
              /\ \/ /\ v.at = "retrySet" /\ v.r = handler[h].r
                    /\ v.n = retry[handler[h].r]
                 \/ v.at = "check" /\ retry[handler[h].r] = Allowance
<1>1. Calls /\ handler[h] \in HandlerType /\ handler[h].at = "retryGet"
  BY DEF Typed, Calls, ReadRetry
<1>2. handler[h].type = "FAILED" /\ handler[h].r \in Recipients
  BY <1>1 DEF Calls, Proper, HandlerType
<1> DEFINE n == retry[handler[h].r]
<1>3. n \in 0 .. Allowance
  BY <1>2 DEF Typed, Rows
<1>4. CASE n = 0 \/ n < MAX_RETRIES
  <2> DEFINE v == [handler[h] EXCEPT !.at = "retrySet", !.n = n]
  <2>1. v \in HandlerType /\ v.at = "retrySet" /\ v.n = n /\ Same(v, handler[h])
    BY <1>1, <1>3 DEF HandlerType, Same
  <2>2. handler' = [handler EXCEPT ![h].n = n, ![h].at = "retrySet"]
    BY <1>4 DEF ReadRetry
  <2>3. handler' = [handler EXCEPT ![h] = v]
    BY <1>1, <2>2 DEF Calls, HandlerType
  <2>4. n < Allowance
    BY <1>3, <1>4, Constants
  <2> HIDE DEF v
  <2>5. Proper(v) /\ v.r = handler[h].r
    BY <1>2, <2>1, <2>4 DEF Proper, Same
  <2> QED
    BY <1>1, <1>2, <2>1, <2>3, <2>5 DEF Becomes
<1>5. CASE ~(n = 0 \/ n < MAX_RETRIES)
  <2>1. Checks(h)
    BY <1>5 DEF ReadRetry
  <2>2. PICK v \in HandlerType : Becomes(h, v) /\ v.at = "check"
    BY <2>1, ChecksTo
  <2>3. n = Allowance
    BY <1>3, <1>5, Constants
  <2>4. Proper(v)
    BY <2>2 DEF Proper
  <2> QED
    BY <1>1, <1>2, <2>2, <2>3, <2>4
<1> QED
  BY <1>4, <1>5

\* The counter is written.
LEMMA SetRetryTo ==
  ASSUME Typed, NEW h \in Handlers, SetRetry(h)
  PROVE  /\ handler[h] \in HandlerType /\ handler[h].at = "retrySet"
         /\ handler[h].r \in Recipients /\ handler[h].n \in Nat /\ handler[h].n < Allowance
         /\ \E v \in HandlerType :
              Becomes(h, v) /\ Proper(v) /\ v.at = "emit" /\ v.r = handler[h].r
<1>1. Calls /\ handler[h] \in HandlerType /\ handler[h].at = "retrySet"
  BY DEF Typed, Calls, SetRetry
<1>2. handler[h].type = "FAILED" /\ handler[h].n < Allowance
  BY <1>1 DEF Calls, Proper
<1>3. handler[h].r \in Recipients /\ handler[h].n \in Nat
  BY <1>1, Constants DEF HandlerType
<1>4. Moves(h, "emit")
  BY DEF SetRetry
<1>5. PICK v \in HandlerType : Becomes(h, v) /\ v.at = "emit" /\ Same(v, handler[h])
  BY <1>1, <1>4, MovesTo
<1>6. Proper(v) /\ v.r = handler[h].r
  BY <1>2, <1>5 DEF Proper, Same
<1> QED
  BY <1>1, <1>2, <1>3, <1>5, <1>6

\* The mail is sent again.
LEMMA EmitRetryTo ==
  ASSUME Typed, NEW h \in Handlers, EmitRetry(h)
  PROVE  /\ handler[h] \in HandlerType /\ handler[h].at = "emit"
         /\ handler[h].r \in Recipients
         /\ \E v \in HandlerType : Becomes(h, v) /\ Proper(v) /\ v.at = "check"
<1>1. handler[h] \in HandlerType /\ handler[h].at = "emit" /\ Checks(h)
  BY DEF Typed, Calls, EmitRetry
<1>2. PICK v \in HandlerType : Becomes(h, v) /\ v.at = "check"
  BY <1>1, ChecksTo
<1>3. Proper(v)
  BY <1>2 DEF Proper
<1>4. handler[h].r \in Recipients
  BY <1>1 DEF HandlerType
<1> QED
  BY <1>1, <1>2, <1>3, <1>4

\* The rest of a call: it looks for the end of the campaign and completes it.
Rest(h) == CheckCampaignCompletion(h) \/ Complete(h) \/ CopyStatus(h)

LEMMA RestTo ==
  ASSUME Typed, NEW h \in Handlers, Rest(h)
  PROVE  /\ handler[h] \in HandlerType /\ handler[h].at \in Past
         /\ \E v \in HandlerType : Becomes(h, v) /\ Proper(v) /\ v.at \in Past
         /\ UNCHANGED <<rows, mail, retry, emitted, overlapped, webhook, bounds>>
<1>1. Calls /\ handler[h] \in HandlerType
  BY DEF Typed, Calls
<1>2. /\ handler[h].at \in Past
      /\ UNCHANGED <<rows, mail, retry, emitted, overlapped, webhook, bounds>>
      /\ Moves(h, "complete") \/ Moves(h, "copy") \/ Ends(h)
  BY DEF Rest, CheckCampaignCompletion, Complete, CopyStatus, Past, campaign
<1>3. \E v \in HandlerType : Becomes(h, v) /\ Proper(v) /\ v.at \in Past
  <2>1. CASE Ends(h)
    BY <2>1, EndsTo, Resting DEF Past
  <2>2. ASSUME NEW a \in {"complete", "copy"}, Moves(h, a)
        PROVE  \E v \in HandlerType : Becomes(h, v) /\ Proper(v) /\ v.at \in Past
    <3>1. PICK v \in HandlerType : Becomes(h, v) /\ v.at = a
      BY <1>1, <2>2, MovesTo
    <3>2. Proper(v) /\ v.at \in Past
      BY <3>1 DEF Proper, Past
    <3> QED
      BY <3>1, <3>2
  <2> QED
    BY <1>2, <2>1, <2>2
<1> QED
  BY <1>1, <1>2, <1>3
-----------------------------------------------------------------------------
(* The calls of handleSESEvent                                             *)

HookBecomes(k, w) == hook' = [hook EXCEPT ![k] = w]

\* Reports of a recipient that are to be written, of a known type and on a mail that
\* had its row when they came, and those that are written.
Found(r) ==
  {w \in HookType : w.at \in {"find", "create"} /\ w.r = r /\ w.logged /\ w.known}
Written(r) == {w \in HookType : w.at = "emit" /\ w.r = r}

LEMMA HookMoves ==
  ASSUME Reports, NEW k \in Hooks, NEW w \in HookType, HookBecomes(k, w)
  PROVE  /\ hook' \in [Hooks -> HookType]
         /\ hook'[k] = w /\ \A g \in Hooks \ {k} : hook'[g] = hook[g]
         /\ \A K : /\ Num(hook, K) \in Nat /\ Num(hook', K) \in Nat
                   /\ Num(hook', K) = Num(hook, K) + In(w, K) - In(hook[k], K)
<1>1. hook \in [Hooks -> HookType] /\ hook' \in [Hooks -> HookType]
  BY DEF Reports, HookBecomes
<1>2. hook'[k] = w /\ \A g \in Hooks \ {k} : hook'[g] = hook[g]
  BY <1>1 DEF HookBecomes
<1>3. ASSUME NEW K
      PROVE  /\ Num(hook, K) \in Nat /\ Num(hook', K) \in Nat
             /\ Num(hook', K) = Num(hook, K) + In(w, K) - In(hook[k], K)
  <2>1. IsFiniteSet(Hooks)
    BY EventsAssumption
  <2>2. Num(hook, K) \in Nat
    BY <1>1, <2>1, NumType, Zenon
  <2>3. Num(hook', K) \in Nat
    BY <1>1, <2>1, NumType, Zenon
  <2>4. Num(hook', K) = Num(hook, K) + In(hook'[k], K) - In(hook[k], K)
    <3>1. DOMAIN hook = Hooks /\ DOMAIN hook' = Hooks
      BY <1>1
    <3> QED
      BY <1>2, <2>1, <3>1, NumMoves
  <2> QED
    BY <1>2, <2>2, <2>3, <2>4
<1> QED
  BY <1>1, <1>2, <1>3

LEMMA InHookSets ==
  ASSUME NEW w \in HookType, NEW q \in Recipients
  PROVE  /\ In(w, Found(q)) \in {0, 1} /\ In(w, Written(q)) \in {0, 1}
         /\ In(w, Found(q)) = 1
              <=> (w.at \in {"find", "create"} /\ w.r = q /\ w.logged /\ w.known)
         /\ In(w, Written(q)) = 1 <=> (w.at = "emit" /\ w.r = q)
BY DEF In, Found, Written

LEMMA HookFieldAt ==
  ASSUME NEW u \in HookType, NEW a \in {"idle", "find", "create", "emit"}
  PROVE  LET w == [u EXCEPT !.at = a] IN
         /\ w \in HookType /\ w.at = a /\ w.r = u.r
         /\ w.logged = u.logged /\ w.known = u.known
BY DEF HookType

LEMMA HandleSESEventTo ==
  ASSUME NEW k \in Hooks, NEW r \in Recipients, NEW logged \in BOOLEAN,
         NEW known \in BOOLEAN, HandleSESEvent(k, r, logged, known)
  PROVE  \E w \in HookType :
           /\ HookBecomes(k, w) /\ w.at = "find"
           /\ w.r = r /\ w.logged = logged /\ w.known = known
<1> DEFINE w == [at |-> "find", r |-> r, logged |-> logged, known |-> known]
<1>1. w \in HookType /\ w.at = "find" /\ w.r = r /\ w.logged = logged /\ w.known = known
  BY DEF HookType
<1>2. HookBecomes(k, w)
  BY DEF HandleSESEvent, HookBecomes
<1> HIDE DEF w
<1> QED
  BY <1>1, <1>2

LEMMA FindMailTo ==
  ASSUME Typed, NEW k \in Hooks, FindMail(k)
  PROVE  /\ hook[k] \in HookType /\ hook[k].at = "find"
         /\ \E w \in HookType :
              /\ HookBecomes(k, w)
              /\ \/ /\ w.at = "create" /\ w.r = hook[k].r
                    /\ w.logged = hook[k].logged /\ w.known = hook[k].known
                 \/ ~(hook[k].logged /\ hook[k].known) /\ w = NoReport
<1>1. hook[k] \in HookType /\ hook[k].at = "find"
  BY DEF Typed, Reports, FindMail
<1>2. CASE hook' = [hook EXCEPT ![k].at = "create"]
  <2> DEFINE w == [hook[k] EXCEPT !.at = "create"]
  <2>1. /\ w \in HookType /\ w.at = "create" /\ w.r = hook[k].r
        /\ w.logged = hook[k].logged /\ w.known = hook[k].known
    BY <1>1, HookFieldAt
  <2>2. hook' = [hook EXCEPT ![k] = w]
    BY <1>2 DEF Typed, Reports
  <2> HIDE DEF w
  <2> QED
    BY <1>1, <2>1, <2>2 DEF HookBecomes
<1>3. CASE /\ ~(hook[k].logged /\ hook[k].known)
           /\ hook' = [hook EXCEPT ![k] = NoReport]
  BY <1>1, <1>3, RestingHook DEF HookBecomes
<1> QED
  BY <1>2, <1>3, Zenon DEF FindMail

LEMMA CreateReportTo ==
  ASSUME Typed, NEW k \in Hooks, CreateReport(k)
  PROVE  /\ hook[k] \in HookType /\ hook[k].at = "create" /\ hook[k].r \in Recipients
         /\ \E w \in HookType :
              /\ HookBecomes(k, w)
              /\ w.at = "emit" /\ w.r = hook[k].r /\ w.logged = hook[k].logged
<1>1. hook[k] \in HookType /\ hook[k].at = "create" /\ hook[k].r \in Recipients
  BY DEF Typed, Reports, CreateReport, HookType
<1> DEFINE w == [hook[k] EXCEPT !.at = "emit"]
<1>2. w \in HookType /\ w.at = "emit" /\ w.r = hook[k].r /\ w.logged = hook[k].logged
  BY <1>1, HookFieldAt
<1>3. hook' = [hook EXCEPT ![k] = w]
  BY DEF CreateReport, Typed, Reports
<1> HIDE DEF w
<1> QED
  BY <1>1, <1>2, <1>3 DEF HookBecomes

LEMMA EmitReportTo ==
  ASSUME Typed, NEW k \in Hooks, EmitReport(k)
  PROVE  /\ hook[k] \in HookType /\ hook[k].at = "emit" /\ hook[k].r \in Recipients
         /\ HookBecomes(k, NoReport)
BY DEF Typed, Reports, EmitReport, HookType, HookBecomes
-----------------------------------------------------------------------------
(* Typed is an invariant                                                   *)

\* What a call that takes an event leaves.
LEMMA TakesTyped ==
  ASSUME Typed, NEW h \in Handlers, NEW r \in Recipients, NEW type \in Types,
         Takes(h, r, type)
  PROVE  Calls' /\ overlapped' \in BOOLEAN
<1>1. PICK v \in HandlerType : Becomes(h, v) /\ Proper(v)
  BY TakesTo
<1>2. Calls'
  BY <1>1, CallMoves DEF Typed
<1>3. overlapped' \in BOOLEAN
  BY Zenon DEF Takes, Typed, Flags
<1> QED
  BY <1>2, <1>3

LEMMA CallTyped ==
  ASSUME Typed, NEW h \in Handlers, NEW v \in HandlerType, Proper(v), Becomes(h, v)
  PROVE  Calls'
BY CallMoves DEF Typed

LEMMA CallsStart == Init => /\ handler \in [Handlers -> HandlerType]
                            /\ \A h \in Handlers : handler[h] = Idle
BY Resting DEF Init

\* At the start no call is counted.
LEMMA NoneCounted ==
  ASSUME Init, NEW q \in Recipients
  PROVE  /\ Num(handler, Answering(q)) = 0
         /\ Num(handler, Emitting(q)) = 0 /\ Num(handler, Busy(q)) = 0
         /\ Num(handler, Reporting(q)) = 0
<1>1. IsFiniteSet(Handlers) /\ handler \in [Handlers -> HandlerType]
  BY EventsAssumption, CallsStart
<1>2. \A h \in Handlers : handler[h] = Idle /\ Idle.at = "idle"
  BY CallsStart, Resting
<1>3. \A h \in Handlers : /\ handler[h] \notin Answering(q)
                          /\ handler[h] \notin Emitting(q) /\ handler[h] \notin Busy(q)
                          /\ handler[h] \notin Reporting(q)
  BY <1>2 DEF Answering, Emitting, Busy, Reporting
<1> QED
  BY <1>1, <1>3, NumType, Zenon

LEMMA TypeInit == Init => Typed
<1> SUFFICES ASSUME Init PROVE Typed
  OBVIOUS
<1>1. Calls
  BY CallsStart, Resting DEF Calls
<1>2. Rows /\ Flags
  <2>1. 0 \in Nat /\ 0 \in 0 .. Allowance /\ 0 + 0 <= MaxMishaps
    BY Constants
  <2>2. Rows
    BY <2>1 DEF Init, Rows
  <2>3. Flags
    BY <2>1 DEF Init, Flags
  <2> QED
    BY <2>2, <2>3
<1>3. MailCounts
  BY DEF Init, MailCounts
<1>4. Reports
  BY RestingHook DEF Init, Reports
<1> QED
  BY <1>1, <1>2, <1>3, <1>4 DEF Typed

\* One call that failed, or one event handed over twice.
LEMMA Mishap ==
  ASSUME Typed, Fault
  PROVE  /\ faults' = faults + 1 /\ faults' # 0
         /\ (UNCHANGED duplicates) => /\ faults' \in Nat /\ duplicates' \in Nat
                                     /\ duplicates' + faults' <= MaxMishaps
BY Constants DEF Typed, Flags, Fault, MishapLeft

\* A mail that goes on, or is over.
LEMMA MailTyped ==
  ASSUME Typed, NEW r \in Recipients, NEW by \in {"batch", "topic"}, NEW from \in Stages
  PROVE  /\ MailOver(r, by, from) => mail' \in [Mails -> Nat]
         /\ \A to \in Stages : MailMoves(r, by, from, to) => mail' \in [Mails -> Nat]
<1>1. mail \in [Mails -> Nat] /\ <<r, by, from>> \in Mails
  BY Words DEF Typed, MailCounts
<1>2. ASSUME MailOver(r, by, from) PROVE mail' \in [Mails -> Nat]
  BY <1>1, <1>2 DEF MailOver
<1>3. ASSUME NEW to \in Stages, MailMoves(r, by, from, to) PROVE mail' \in [Mails -> Nat]
  <2>1. <<r, by, to>> \in Mails
    BY Words
  <2> QED
    BY <1>1, <1>3, <2>1 DEF MailMoves
<1> QED
  BY <1>2, <1>3

\* The steps that bring an event to a call.
LEMMA TypeTakes ==
  ASSUME Typed, NEW h \in Handlers, NEW r \in Recipients
  PROVE  /\ \A type \in Outcomes : MailEnds(h, r, type) => Typed'
         /\ Delivered(h, r) => Typed'
         /\ \A type \in Types : Redelivered(h, r, type) => Typed'
<1>1. ASSUME NEW type \in Outcomes, MailEnds(h, r, type) PROVE Typed'
  <2>1. type \in Types /\ Takes(h, r, type)
    BY <1>1, Words DEF MailEnds
  <2>2. Calls' /\ overlapped' \in BOOLEAN
    BY <2>1, TakesTyped
  <2>3. /\ MailOver(r, "topic", IF type = "SENT" THEN "sent" ELSE "unsent")
        /\ UNCHANGED <<rows, retry, status, copy, emitted, hook, topic, reports, early,
                       unchecked, duplicates, faults>>
    BY <1>1 DEF MailEnds, campaign, webhook, bounds
  <2>4. (IF type = "SENT" THEN "sent" ELSE "unsent") \in Stages
    BY DEF Stages
  <2>5. mail' \in [Mails -> Nat]
    BY <2>3, <2>4, MailTyped
  <2>6. Rows' /\ MailCounts' /\ Reports' /\ Flags'
    BY <2>2, <2>3, <2>5 DEF Typed, Rows, MailCounts, Reports, Flags
  <2> QED
    BY <2>2, <2>6 DEF Typed
<1>2. ASSUME Delivered(h, r) PROVE Typed'
  <2>1. "DELIVERED" \in Types /\ Takes(h, r, "DELIVERED")
    BY <1>2, Words DEF Delivered
  <2>2. Calls' /\ overlapped' \in BOOLEAN
    BY <2>1, TakesTyped
  <2>3. /\ topic[r] > 0 /\ topic' = [topic EXCEPT ![r] = @ - 1]
        /\ UNCHANGED <<rows, mail, retry, status, copy, emitted, hook, reports,
                       early, unchecked, duplicates, faults>>
    BY <1>2 DEF Delivered, campaign, bounds
  <2>4. Reports'
    BY <2>3 DEF Typed, Reports
  <2>5. Rows' /\ MailCounts' /\ Flags'
    BY <2>2, <2>3 DEF Typed, Rows, MailCounts, Flags
  <2> QED
    BY <2>2, <2>4, <2>5 DEF Typed
<1>3. ASSUME NEW type \in Types, Redelivered(h, r, type) PROVE Typed'
  <2>1. Calls' /\ overlapped' \in BOOLEAN
    BY <1>3, TakesTyped DEF Redelivered
  <2>2. /\ duplicates + faults < MaxMishaps /\ duplicates' = duplicates + 1
        /\ UNCHANGED <<rows, mail, retry, status, copy, emitted, hook, topic,
                       reports, early, unchecked, faults>>
    BY <1>3 DEF Redelivered, MishapLeft, campaign, webhook
  <2>3. Flags'
    BY <2>1, <2>2, Constants DEF Typed, Flags
  <2>4. Rows' /\ MailCounts' /\ Reports'
    BY <2>2 DEF Typed, Rows, MailCounts, Reports
  <2> QED
    BY <2>1, <2>3, <2>4 DEF Typed
<1> QED
  BY <1>1, <1>2, <1>3

\* The row of an event.
LEMMA TypeCreateRow ==
  ASSUME Typed, NEW h \in Handlers, CreateRow(h) PROVE Typed'
<1> DEFINE u == handler[h]
<1>1. /\ u \in HandlerType
      /\ \E v \in HandlerType : Becomes(h, v) /\ Proper(v)
  BY CreateRowTo
<1>2. Calls'
  BY <1>1, CallTyped
<1>3. u.r \in Recipients /\ u.type \in Kinds
  BY <1>1, Words DEF HandlerType
<1>4. /\ rows' = [rows EXCEPT ![<<u.r, u.type>>] = @ + 1]
      /\ UNCHANGED <<mail, retry, status, copy, emitted, overlapped, hook, topic, reports,
                     early, unchecked, duplicates, faults>>
  BY DEF CreateRow, AddsRow, campaign, webhook, bounds
<1> HIDE DEF u
<1>5. Rows'
  BY <1>3, <1>4 DEF Typed, Rows
<1>6. MailCounts' /\ Reports' /\ Flags'
  BY <1>4 DEF Typed, MailCounts, Reports, Flags
<1> QED
  BY <1>2, <1>5, <1>6 DEF Typed

\* The steps of a call after its row is written, and its failure.
LEMMA TypeCall ==
  ASSUME Typed, NEW h \in Handlers
  PROVE  /\ ReadRetry(h) => Typed'
         /\ SetRetry(h) => Typed'
         /\ EmitRetry(h) => Typed'
         /\ Rest(h) => Typed'
         /\ CallFails(h) => Typed'
<1>1. ASSUME ReadRetry(h) PROVE Typed'
  <2>1. Calls'
    BY <1>1, ReadRetryTo, CallTyped
  <2>2. UNCHANGED <<rows, mail, retry, status, copy, emitted, overlapped, hook,
                    topic, reports, early, unchecked, duplicates, faults>>
    BY <1>1 DEF ReadRetry, campaign, webhook, bounds
  <2>3. Rows' /\ MailCounts' /\ Reports' /\ Flags'
    BY <2>2 DEF Typed, Rows, MailCounts, Reports, Flags
  <2> QED
    BY <2>1, <2>3 DEF Typed
<1>2. ASSUME SetRetry(h) PROVE Typed'
  <2>1. Calls'
    BY <1>2, SetRetryTo, CallTyped
  <2>2. /\ retry' = [retry EXCEPT ![handler[h].r] = handler[h].n + 1]
        /\ UNCHANGED <<rows, mail, status, copy, emitted, overlapped, hook,
                       topic, reports, early, unchecked, duplicates, faults>>
    BY <1>2 DEF SetRetry, campaign, webhook, bounds
  <2>3. Rows'
    <3>1. handler[h].n \in Nat /\ handler[h].n < Allowance
      BY <1>2, SetRetryTo
    <3>2. handler[h].n + 1 \in 0 .. Allowance
      BY <3>1, Constants
    <3> QED
      BY <2>2, <3>2 DEF Typed, Rows
  <2>4. MailCounts' /\ Reports' /\ Flags'
    BY <2>2 DEF Typed, MailCounts, Reports, Flags
  <2> QED
    BY <2>1, <2>3, <2>4 DEF Typed
<1>3. ASSUME EmitRetry(h) PROVE Typed'
  <2>1. Calls' /\ handler[h].r \in Recipients
    BY <1>3, EmitRetryTo, CallTyped
  <2>2. /\ emitted' = [emitted EXCEPT ![handler[h].r] = @ + 1]
        /\ mail' = [mail EXCEPT ![<<handler[h].r, "topic", "due">>] = @ + 1]
        /\ UNCHANGED <<rows, retry, status, copy, overlapped, hook,
                       topic, reports, early, unchecked, duplicates, faults>>
    BY <1>3 DEF EmitRetry, campaign, webhook, bounds
  <2>3. MailCounts'
    <3>1. <<handler[h].r, "topic", "due">> \in Mails
      BY <2>1, Words DEF Stages
    <3>2. emitted \in [Recipients -> Nat] /\ mail \in [Mails -> Nat]
      BY DEF Typed, MailCounts
    <3> QED
      BY <2>1, <2>2, <3>1, <3>2 DEF MailCounts
  <2>4. Rows' /\ Reports' /\ Flags'
    BY <2>2 DEF Typed, Rows, Reports, Flags
  <2> QED
    BY <2>1, <2>3, <2>4 DEF Typed
<1>4. ASSUME Rest(h) PROVE Typed'
  <2>1. Calls'
    BY <1>4, RestTo, CallTyped
  <2>2. UNCHANGED <<rows, mail, retry, emitted, overlapped, hook, topic,
                    reports, early, duplicates, faults>>
    BY <1>4, RestTo DEF webhook, bounds
  <2>3. Rows' /\ MailCounts' /\ Reports'
    BY <2>2 DEF Typed, Rows, MailCounts, Reports
  <2>4. /\ status' \in {"SENDING", "COMPLETED"} /\ copy' \in {"SENDING", "COMPLETED"}
        /\ unchecked' \in BOOLEAN
    BY <1>4, Zenon DEF Rest, CheckCampaignCompletion, Complete, CopyStatus, Typed, Flags, campaign
  <2>5. Flags'
    BY <2>2, <2>4 DEF Typed, Flags
  <2> QED
    BY <2>1, <2>3, <2>5 DEF Typed
<1>5. ASSUME CallFails(h) PROVE Typed'
  <2>1. Calls'
    BY <1>5, EndsTo, Resting, CallTyped DEF CallFails
  <2>2. /\ Fault
        /\ UNCHANGED <<rows, mail, retry, status, copy, emitted, overlapped, hook,
                       topic, reports, early, unchecked, duplicates>>
    BY <1>5 DEF CallFails, campaign, webhook
  <2>3. Rows' /\ MailCounts' /\ Reports' /\ Flags'
    BY <2>2, Mishap DEF Typed, Rows, MailCounts, Reports, Flags
  <2> QED
    BY <2>1, <2>3 DEF Typed
<1> QED
  BY <1>1, <1>2, <1>3, <1>4, <1>5

-----------------------------------------------------------------------------
(* The senders                                                             *)

\* The mails of a recipient that the consumer of MAIL_SEND has in hand.
Under(r) ==
  mail[<<r, "topic", "due">>] + mail[<<r, "topic", "accepted">>]
    + mail[<<r, "topic", "sent">>] + mail[<<r, "topic", "unsent">>]

Senders ==
  \/ \E r \in Recipients : TaskStep(r) \/ \E by \in {"batch", "topic"} : MailStep(r, by)
  \/ BatchRepeats

\* What a step of a sender may write: a row that is counted, of no event.
Adds(r, kind) ==
  \/ UNCHANGED <<rows, unchecked>>
  \/ AddsRow(r, kind) /\ unchecked' = TRUE

\* Counts of which one gives to others.
LEMMA Giving ==
  ASSUME NEW D, NEW f \in [D -> Nat], NEW a \in D, f[a] > 0, NEW b \in D, NEW c \in D
  PROVE  /\ [f EXCEPT ![a] = @ - 1] \in [D -> Nat]
         /\ [f EXCEPT ![a] = @ - 1, ![b] = @ + 1, ![c] = @ + 1] \in [D -> Nat]
OBVIOUS

LEMMA SenderSteps ==
  ASSUME Typed, Senders
  PROVE  /\ UNCHANGED <<retry, status, copy, handler, emitted, overlapped>>
         /\ UNCHANGED <<hook, topic, reports, early, duplicates>>
         /\ faults' = faults \/ Fault
         /\ \E r \in Recipients, kind \in Sending : Adds(r, kind)
         /\ mail' \in [Mails -> Nat]
         /\ \A q \in Recipients : Under(q)' = Under(q)
<1> DEFINE Goal ==
             /\ UNCHANGED <<retry, status, copy, handler, emitted, overlapped>>
             /\ UNCHANGED <<hook, topic, reports, early, duplicates>>
             /\ faults' = faults \/ Fault
             /\ \E r \in Recipients, kind \in Sending : Adds(r, kind)
             /\ mail' \in [Mails -> Nat]
             /\ \A q \in Recipients : Under(q)' = Under(q)
<1>0. /\ mail \in [Mails -> Nat]
      /\ \A q \in Recipients, by \in {"batch", "topic"} :
           /\ <<q, by, "due">> \in Mails /\ <<q, by, "accepted">> \in Mails
           /\ <<q, by, "sent">> \in Mails /\ <<q, by, "unsent">> \in Mails
           /\ <<q, by, "unwritten">> \in Mails /\ <<q, by, "mute">> \in Mails
  BY Words DEF Typed, MailCounts, Stages
<1>1. ASSUME NEW r \in Recipients, NEW by \in {"batch", "topic"}, NEW from, NEW to,
             \/ from = "due" /\ to \in {"accepted", "unsent"}
             \/ from = "accepted" /\ to = "sent"
             \/ by = "batch" /\ from \in {"sent", "unsent"} /\ to = "unwritten",
             MailMoves(r, by, from, to)
      PROVE  mail' \in [Mails -> Nat] /\ \A q \in Recipients : Under(q)' = Under(q)
  <2>1. /\ mail[<<r, by, from>>] > 0 /\ from # to
        /\ mail' = [mail EXCEPT ![<<r, by, from>>] = @ - 1, ![<<r, by, to>>] = @ + 1]
        /\ <<r, by, from>> \in Mails /\ <<r, by, to>> \in Mails
    BY <1>0, <1>1 DEF MailMoves
  <2>2. mail' \in [Mails -> Nat]
    BY <1>1, MailTyped DEF Stages
  <2>3. ASSUME NEW q \in Recipients PROVE Under(q)' = Under(q)
    <3>1. /\ mail'[<<r, by, from>>] = mail[<<r, by, from>>] - 1
          /\ mail'[<<r, by, to>>] = mail[<<r, by, to>>] + 1
          /\ \A m \in Mails : m # <<r, by, from>> /\ m # <<r, by, to>> => mail'[m] = mail[m]
      BY <1>0, <2>1
    <3>2. CASE q = r /\ by = "topic"
      <4> DEFINE M(at) == mail[<<r, "topic", at>>]
                 P(at) == mail'[<<r, "topic", at>>]
      <4>1. \A at \in {"due", "accepted", "sent", "unsent"} :
              at # from /\ at # to => P(at) = M(at)
        BY <1>0, <3>1, <3>2
      <4>2. P(from) = M(from) - 1 /\ P(to) = M(to) + 1
        BY <3>1, <3>2
      <4>3. M("due") \in Nat /\ M("accepted") \in Nat /\ M("sent") \in Nat /\ M("unsent") \in Nat
        BY <1>0
      <4>4. /\ Under(q) = M("due") + M("accepted") + M("sent") + M("unsent")
            /\ Under(q)' = P("due") + P("accepted") + P("sent") + P("unsent")
        BY <3>2 DEF Under
      <4> HIDE DEF M, P
      <4>5. \/ from = "due" /\ to \in {"accepted", "unsent"}
            \/ from = "accepted" /\ to = "sent"
        BY <1>1, <3>2
      <4> QED
        BY <4>1, <4>2, <4>3, <4>4, <4>5
    <3>3. CASE ~(q = r /\ by = "topic")
      <4>1. \A at : <<q, "topic", at>> # <<r, by, from>> /\ <<q, "topic", at>> # <<r, by, to>>
        BY <3>3
      <4> QED
        BY <1>0, <3>1, <4>1 DEF Under
    <3> QED
      BY <3>2, <3>3
  <2> QED
    BY <2>2, <2>3
<1>2. ASSUME NEW r \in Recipients, NEW from \in {"sent", "unsent", "unwritten"},
             MailOver(r, "batch", from)
      PROVE  mail' \in [Mails -> Nat] /\ \A q \in Recipients : Under(q)' = Under(q)
  <2>1. /\ mail[<<r, "batch", from>>] > 0
        /\ mail' = [mail EXCEPT ![<<r, "batch", from>>] = @ - 1]
        /\ <<r, "batch", from>> \in Mails
    BY <1>0, <1>2 DEF MailOver
  <2>2. mail' \in [Mails -> Nat]
    BY <1>2, MailTyped DEF Stages
  <2>3. \A q, at : <<q, "topic", at>> # <<r, "batch", from>>
    OBVIOUS
  <2> QED
    BY <1>0, <2>1, <2>2, <2>3 DEF Under
<1>3. ASSUME NEW r \in Recipients, NEW by \in {"batch", "topic"}, LogMailFails(r, by)
      PROVE  mail' \in [Mails -> Nat] /\ \A q \in Recipients : Under(q)' = Under(q)
  <2>1. /\ mail[<<r, by, "accepted">>] > 0
        /\ mail' = [mail EXCEPT ![<<r, by, "accepted">>] = @ - 1,
                               ![<<r, by, "unsent">>] = @ + 1, ![<<r, by, "mute">>] = @ + 1]
        /\ <<r, by, "accepted">> \in Mails /\ <<r, by, "unsent">> \in Mails
        /\ <<r, by, "mute">> \in Mails
    BY <1>0, <1>3 DEF LogMailFails
  <2>2. mail' \in [Mails -> Nat]
    BY <1>0, <2>1, Giving
  <2>3. ASSUME NEW q \in Recipients PROVE Under(q)' = Under(q)
    <3>1. /\ mail'[<<r, by, "accepted">>] = mail[<<r, by, "accepted">>] - 1
          /\ mail'[<<r, by, "unsent">>] = mail[<<r, by, "unsent">>] + 1
          /\ \A m \in Mails :
               m # <<r, by, "accepted">> /\ m # <<r, by, "unsent">> /\ m # <<r, by, "mute">>
                 => mail'[m] = mail[m]
      BY <1>0, <2>1
    <3>2. CASE q = r /\ by = "topic"
      <4> DEFINE M(at) == mail[<<r, "topic", at>>]
                 P(at) == mail'[<<r, "topic", at>>]
      <4>1. P("due") = M("due") /\ P("sent") = M("sent")
        BY <1>0, <3>1, <3>2
      <4>2. P("accepted") = M("accepted") - 1 /\ P("unsent") = M("unsent") + 1
        BY <3>1, <3>2
      <4>3. M("due") \in Nat /\ M("accepted") \in Nat /\ M("sent") \in Nat /\ M("unsent") \in Nat
        BY <1>0
      <4>4. /\ Under(q) = M("due") + M("accepted") + M("sent") + M("unsent")
            /\ Under(q)' = P("due") + P("accepted") + P("sent") + P("unsent")
        BY <3>2 DEF Under
      <4> HIDE DEF M, P
      <4> QED
        BY <4>1, <4>2, <4>3, <4>4
    <3>3. CASE ~(q = r /\ by = "topic")
      <4>1. \A at, to : <<q, "topic", at>> # <<r, by, to>>
        BY <3>3
      <4> QED
        BY <1>0, <3>1, <4>1 DEF Under
    <3> QED
      BY <3>2, <3>3
  <2> QED
    BY <2>2, <2>3
<1>4. ASSUME BatchRepeats PROVE Goal
  <2>1. /\ mail' = [m \in Mails |->
              IF m[1] \in Batched /\ m[2] = "batch" /\ m[3] = "due"
              THEN mail[m] + 1 ELSE mail[m]]
        /\ Fault /\ UNCHANGED <<rows, calls, webhook, unchecked, duplicates>>
    BY <1>4 DEF BatchRepeats
  <2>2. mail' \in [Mails -> Nat]
    BY <1>0, <2>1
  <2>3. \A q, at : <<q, "topic", at>>[2] # "batch"
    OBVIOUS
  <2>4. ASSUME NEW q \in Recipients PROVE Under(q)' = Under(q)
    <3>1. \A at : <<q, "topic", at>> \in Mails => mail'[<<q, "topic", at>>] = mail[<<q, "topic", at>>]
      BY <2>1, <2>3
    <3>2. /\ mail'[<<q, "topic", "due">>] = mail[<<q, "topic", "due">>]
          /\ mail'[<<q, "topic", "accepted">>] = mail[<<q, "topic", "accepted">>]
          /\ mail'[<<q, "topic", "sent">>] = mail[<<q, "topic", "sent">>]
          /\ mail'[<<q, "topic", "unsent">>] = mail[<<q, "topic", "unsent">>]
      BY <1>0, <3>1
    <3> QED
      BY <3>2, Zenon DEF Under
  <2>5. \E r \in Recipients, kind \in Sending : Adds(r, kind)
    BY <2>1, EventsAssumption DEF Adds, Sending
  <2> QED
    BY <2>1, <2>2, <2>4, <2>5 DEF calls, campaign, webhook
<1>5. ASSUME NEW r \in Recipients, NEW by \in {"batch", "topic"}, MailStep(r, by)
      PROVE  Goal
  <2>1. mail' \in [Mails -> Nat] /\ \A q \in Recipients : Under(q)' = Under(q)
    BY <1>1, <1>3, <1>5 DEF MailStep, SESAccepts, SendFails, LogMail
  <2>2. /\ UNCHANGED <<calls, webhook, duplicates>> /\ (faults' = faults \/ Fault)
        /\ Adds(r, "mailSent")
    BY <1>5 DEF MailStep, SESAccepts, SendFails, LogMail, LogMailFails, Adds, SenderAddsRow,
                bounds
  <2>3. "mailSent" \in Sending
    BY DEF Sending
  <2> QED
    BY <2>1, <2>2, <2>3 DEF calls, campaign, webhook
<1>6. ASSUME NEW r \in Recipients, TaskStep(r) PROVE Goal
  <2>1. mail' \in [Mails -> Nat] /\ \A q \in Recipients : Under(q)' = Under(q)
    BY <1>1, <1>2, <1>6 DEF TaskStep, LogTask, LogTaskFails, LogTaskFailed, TaskRejects
  <2>2. /\ UNCHANGED <<calls, webhook, duplicates>> /\ (faults' = faults \/ Fault)
        /\ Adds(r, "taskSent") \/ Adds(r, "taskFailed")
    BY <1>6 DEF TaskStep, LogTask, LogTaskFails, LogTaskFailed, TaskRejects, Adds,
                SenderAddsRow, bounds
  <2>3. {"taskSent", "taskFailed"} \subseteq Sending
    BY DEF Sending
  <2> QED
    BY <2>1, <2>2, <2>3 DEF calls, campaign, webhook
<1> HIDE DEF Goal
<1>7. Goal
  BY <1>4, <1>5, <1>6, Zenon DEF Senders
<1> QED
  BY <1>7 DEF Goal

\* Such a row is none of an event's.
LEMMA AddsOther ==
  ASSUME Typed, NEW r \in Recipients, NEW kind \in Sending, Adds(r, kind)
  PROVE  /\ rows' \in [Recipients \X Kinds -> Nat] /\ unchecked' \in BOOLEAN
         /\ \A q \in Recipients, t \in Types : rows'[<<q, t>>] = rows[<<q, t>>]
<1>1. /\ rows \in [Recipients \X Kinds -> Nat] /\ unchecked \in BOOLEAN
      /\ <<r, kind>> \in Recipients \X Kinds
  BY Words DEF Typed, Rows, Flags
<1>2. \A q \in Recipients, t \in Types :
        <<q, t>> # <<r, kind>> /\ <<q, t>> \in Recipients \X Kinds
  BY Words
<1>3. CASE UNCHANGED <<rows, unchecked>>
  BY <1>1, <1>3
<1>4. CASE AddsRow(r, kind) /\ unchecked' = TRUE
  <2>1. rows' = [rows EXCEPT ![<<r, kind>>] = @ + 1]
    BY <1>4 DEF AddsRow
  <2>2. rows' \in [Recipients \X Kinds -> Nat]
    BY <1>1, <2>1
  <2>3. ASSUME NEW q \in Recipients, NEW t \in Types
        PROVE  rows'[<<q, t>>] = rows[<<q, t>>]
    <3> DEFINE d == <<q, t>>
               e == <<r, kind>>
    <3>1. d # e /\ d \in Recipients \X Kinds
      BY <1>2
    <3>2. rows' = [rows EXCEPT ![e] = @ + 1]
      BY <2>1
    <3> HIDE DEF d, e
    <3>3. rows'[d] = rows[d]
      BY <1>1, <3>1, <3>2
    <3> QED
      BY <3>3 DEF d
  <2> QED
    BY <1>4, <2>2, <2>3
<1> QED
  BY <1>3, <1>4 DEF Adds

LEMMA TypeSender == Typed /\ Senders => Typed'
<1> SUFFICES ASSUME Typed, Senders PROVE Typed'
  OBVIOUS
<1>1. /\ UNCHANGED <<retry, status, copy, handler, emitted, overlapped>>
      /\ UNCHANGED <<hook, topic, reports, early, duplicates>>
      /\ faults' = faults \/ Fault
      /\ \E r \in Recipients, kind \in Sending : Adds(r, kind)
      /\ mail' \in [Mails -> Nat]
  BY SenderSteps
<1>2. rows' \in [Recipients \X Kinds -> Nat] /\ unchecked' \in BOOLEAN
  BY <1>1, AddsOther
<1>3. Calls' /\ Reports'
  BY <1>1 DEF Typed, Calls, Reports
<1>4. Rows' /\ MailCounts'
  BY <1>1, <1>2 DEF Typed, Rows, MailCounts
<1>5. faults' \in Nat /\ duplicates' \in Nat /\ duplicates' + faults' <= MaxMishaps
  <2>1. CASE faults' = faults
    BY <1>1, <2>1 DEF Typed, Flags
  <2>2. CASE Fault
    BY <1>1, <2>2, Mishap
  <2> QED
    BY <1>1, <2>1, <2>2
<1>6. Flags'
  BY <1>1, <1>2, <1>5 DEF Typed, Flags
<1> QED
  BY <1>3, <1>4, <1>6 DEF Typed

\* A report on a mail.
LEMMA TypeHook ==
  ASSUME Typed, NEW k \in Hooks, HookStep(k)
  PROVE  Typed'
<1>0. hook \in [Hooks -> HookType] /\ Reports
  BY DEF Typed, Reports
<1>a. (UNCHANGED <<mail, calls, unchecked, duplicates, faults>>) =>
        Calls' /\ MailCounts' /\ Flags' /\ (UNCHANGED retry)
  BY DEF calls, campaign, Typed, Calls, MailCounts, Flags
<1>1. ASSUME NEW r \in Recipients, NEW logged \in BOOLEAN, NEW known \in BOOLEAN,
             HandleSESEvent(k, r, logged, known)
      PROVE  Typed'
  <2>1. hook' \in [Hooks -> HookType]
    BY <1>0, <1>1, HandleSESEventTo, HookMoves
  <2>2. UNCHANGED <<rows, topic>> /\ UNCHANGED <<mail, calls, unchecked, duplicates, faults>>
    BY <1>1 DEF HandleSESEvent, bounds
  <2>3. /\ reports' = [reports EXCEPT ![r] = @ + 1] \/ reports' = reports
        /\ early' = [early EXCEPT ![r] = @ + 1] \/ early' = early
    BY <1>1 DEF HandleSESEvent
  <2>4. Reports'
    BY <2>1, <2>2, <2>3 DEF Typed, Reports
  <2>5. Rows'
    BY <1>a, <2>2 DEF Typed, Rows
  <2> QED
    BY <1>a, <2>2, <2>4, <2>5 DEF Typed
<1>2. ASSUME FindMail(k) PROVE Typed'
  <2>1. hook' \in [Hooks -> HookType]
    BY <1>0, <1>2, FindMailTo, HookMoves, RestingHook
  <2>2. /\ UNCHANGED <<rows, topic, reports, early>>
        /\ UNCHANGED <<mail, calls, unchecked, duplicates, faults>>
    BY <1>2 DEF FindMail, bounds
  <2>3. Reports' /\ Rows'
    BY <1>a, <2>1, <2>2 DEF Typed, Reports, Rows
  <2> QED
    BY <1>a, <2>2, <2>3 DEF Typed
<1>3. ASSUME CreateReport(k) PROVE Typed'
  <2>1. hook' \in [Hooks -> HookType] /\ hook[k].r \in Recipients
    BY <1>0, <1>3, CreateReportTo, HookMoves
  <2>2. /\ rows' = [rows EXCEPT ![<<hook[k].r, "DELIVERED">>] = @ + 1]
        /\ UNCHANGED <<topic, reports, early>>
        /\ UNCHANGED <<mail, calls, unchecked, duplicates, faults>>
    BY <1>3 DEF CreateReport, AddsRow, bounds
  <2>3. Reports'
    BY <2>1, <2>2 DEF Typed, Reports
  <2>4. Rows'
    BY <1>a, <2>1, <2>2, Words DEF Typed, Rows
  <2> QED
    BY <1>a, <2>2, <2>3, <2>4 DEF Typed
<1>4. ASSUME EmitReport(k) PROVE Typed'
  <2>1. hook' \in [Hooks -> HookType] /\ hook[k].r \in Recipients
    BY <1>0, <1>4, EmitReportTo, HookMoves, RestingHook
  <2>2. /\ topic' = [topic EXCEPT ![hook[k].r] = @ + 1]
        /\ UNCHANGED <<rows, reports, early>>
        /\ UNCHANGED <<mail, calls, unchecked, duplicates, faults>>
    BY <1>4 DEF EmitReport, bounds
  <2>3. Reports' /\ Rows'
    BY <1>a, <2>1, <2>2 DEF Typed, Reports, Rows
  <2> QED
    BY <1>a, <2>2, <2>3 DEF Typed
<1>5. ASSUME HookFails(k) PROVE Typed'
  <2>1. hook' \in [Hooks -> HookType]
    BY <1>0, <1>5, RestingHook DEF HookFails
  <2>2. /\ Fault
        /\ UNCHANGED <<rows, mail, retry, status, copy, handler, emitted, overlapped,
                       unchecked, topic, reports, early, duplicates>>
    BY <1>5 DEF HookFails, calls, campaign
  <2>3. Flags'
    BY <2>2, Mishap DEF Typed, Flags
  <2>4. Reports' /\ Rows' /\ Calls' /\ MailCounts'
    BY <2>1, <2>2 DEF Typed, Reports, Rows, Calls, MailCounts
  <2> QED
    BY <2>3, <2>4 DEF Typed
<1> QED
  BY <1>1, <1>2, <1>3, <1>4, <1>5, Zenon DEF HookStep

\* A call that takes an event.
Takings(h) ==
  \E r \in Recipients :
    \/ \E type \in Outcomes : MailEnds(h, r, type)
    \/ Delivered(h, r)
    \/ \E type \in Types : Redelivered(h, r, type)

LEMMA TakingsTo ==
  ASSUME NEW h \in Handlers, Takings(h)
  PROVE  /\ \E r \in Recipients, type \in Types : Takes(h, r, type)
         /\ UNCHANGED <<rows, retry, status, copy, emitted, hook, reports, early, unchecked>>
         /\ UNCHANGED faults
BY Words DEF Takings, MailEnds, Delivered, Redelivered, campaign, webhook, bounds

\* A report leaves the calls and the campaign alone.
LEMMA HookLeaves ==
  ASSUME NEW k \in Hooks, HookStep(k)
  PROVE  UNCHANGED <<mail, retry, status, copy, handler, emitted, overlapped, unchecked,
                     duplicates>>
BY Zenon DEF HookStep, HandleSESEvent, FindMail, CreateReport, EmitReport, HookFails, calls,
   campaign, bounds

\* The steps, as the proofs below split them.
LEMMA Steps ==
  ASSUME [Next]_vars
  PROVE  \/ UNCHANGED vars
         \/ Senders
         \/ \E k \in Hooks : HookStep(k)
         \/ \E h \in Handlers :
              \/ Takings(h) \/ CreateRow(h) \/ ReadRetry(h) \/ SetRetry(h) \/ EmitRetry(h)
              \/ Rest(h) \/ CallFails(h)
BY Zenon DEF Next, Senders, HandlerStep, Takings, Rest

LEMMA TypeStep == Typed /\ [Next]_vars => Typed'
<1> SUFFICES ASSUME Typed, [Next]_vars PROVE Typed'
  OBVIOUS
<1>1. CASE UNCHANGED vars
  BY <1>1 DEF vars, Typed, Calls, Rows, MailCounts, Reports, Flags
<1>2. ASSUME NEW h \in Handlers, Takings(h) PROVE Typed'
  BY <1>2, TypeTakes, Zenon DEF Takings
<1>3. ASSUME NEW h \in Handlers,
             \/ CreateRow(h) \/ ReadRetry(h) \/ SetRetry(h) \/ EmitRetry(h)
             \/ Rest(h) \/ CallFails(h)
      PROVE  Typed'
  BY <1>3, TypeCreateRow, TypeCall, Zenon
<1> QED
  BY <1>1, <1>2, <1>3, TypeHook, TypeSender, Steps, Zenon

\* The types of the state: no count of mails, messages or retries leaves its
\* range, in particular none goes below zero. (handleMailEvent 371-463)
THEOREM TypeCorrect == Spec => []TypeOK
<1>1. Init => Typed
  BY TypeInit
<1>2. Typed /\ [Next]_vars => Typed'
  BY TypeStep
<1>3. Typed => TypeOK
  BY Zenon DEF Typed, Calls, Rows, MailCounts, Reports, Flags, TypeOK, HandlerType, HookType
<1> QED
  BY <1>1, <1>2, <1>3, PTL DEF Spec
-----------------------------------------------------------------------------
(* Every failure is answered                                               *)

\* The messages to MAIL_SEND of a recipient, the one a call is about to send
\* included.
Sent(r) == emitted[r] + Num(handler, Emitting(r))

\* While there was no failure of a call: the counter, and what calls have read
\* of it, is never above what was sent; and below the allowance each row of a
\* failure has a message, or a call that has yet to send it.
Answered(r) ==
  /\ retry[r] <= Sent(r)
  /\ Sent(r) < Allowance =>
       rows[<<r, "FAILED">>] = emitted[r] + Num(handler, Answering(r))
  /\ \A h \in Handlers :
       handler[h].r = r /\ handler[h].at = "retrySet" => handler[h].n <= Sent(r)

Retried == faults = 0 => \A r \in Recipients : Answered(r)

\* The two counts of Answered after a step of one call.
LEMMA AnswerCounts ==
  ASSUME Typed, NEW h \in Handlers, NEW v \in HandlerType, Proper(v), Becomes(h, v),
         NEW q \in Recipients
  PROVE  /\ Num(handler, Emitting(q)) \in Nat /\ Num(handler', Emitting(q)) \in Nat
         /\ Num(handler, Answering(q)) \in Nat /\ Num(handler', Answering(q)) \in Nat
         /\ Num(handler', Emitting(q)) =
              Num(handler, Emitting(q)) + In(v, Emitting(q)) - In(handler[h], Emitting(q))
         /\ Num(handler', Answering(q)) =
              Num(handler, Answering(q)) + In(v, Answering(q)) - In(handler[h], Answering(q))
         /\ handler'[h] = v /\ \A g \in Handlers \ {h} : handler'[g] = handler[g]
BY CallMoves DEF Typed

\* The numbers that Answered compares.
LEMMA AnswerTypes ==
  ASSUME Typed, NEW q \in Recipients
  PROVE  /\ retry[q] \in Nat /\ emitted[q] \in Nat /\ rows[<<q, "FAILED">>] \in Nat
         /\ \A h \in Handlers : handler[h] \in HandlerType /\ handler[h].n \in Nat
<1>1. retry[q] \in Nat /\ emitted[q] \in Nat /\ rows[<<q, "FAILED">>] \in Nat
  <2>1. "FAILED" \in Kinds
    BY Words
  <2> QED
    BY <2>1, Constants DEF Typed, Rows, MailCounts
<1>2. \A h \in Handlers : handler[h] \in HandlerType
  BY DEF Typed, Calls
<1>3. \A h \in Handlers : handler[h].n \in 0 .. Allowance
  BY <1>2 DEF HandlerType
<1> QED
  BY <1>1, <1>2, <1>3, Constants

\* A step of a call that answers no failure, before it and after it.
LEMMA AnsweredSame ==
  ASSUME Typed, NEW h \in Handlers, NEW v \in HandlerType, Proper(v), Becomes(h, v),
         v.at \in Past \union {"create"}, handler[h].at \in Past \union {"create"},
         UNCHANGED <<retry, emitted>>, NEW q \in Recipients,
         rows'[<<q, "FAILED">>] = rows[<<q, "FAILED">>], Answered(q)
  PROVE  Answered(q)'
<1>1. In(v, Emitting(q)) = 0 /\ In(v, Answering(q)) = 0
  BY InSets DEF Past
<1>2. In(handler[h], Emitting(q)) = 0 /\ In(handler[h], Answering(q)) = 0
  BY InSets, AnswerTypes DEF Past
<1>3. /\ Num(handler', Emitting(q)) = Num(handler, Emitting(q))
      /\ Num(handler', Answering(q)) = Num(handler, Answering(q))
  BY <1>1, <1>2, AnswerCounts
<1>4. Sent(q)' = Sent(q)
  BY <1>3 DEF Sent
<1>5. handler'[h] = v /\ \A g \in Handlers \ {h} : handler'[g] = handler[g]
  BY AnswerCounts
<1>6. v.at # "retrySet"
  BY DEF Past
<1>7. \A g \in Handlers :
        handler'[g].r = q /\ handler'[g].at = "retrySet" => handler'[g].n <= Sent(q)
  BY <1>5, <1>6 DEF Answered
<1> QED
  BY <1>3, <1>4, <1>7 DEF Answered

LEMMA AnsweredCreateRow ==
  ASSUME Typed, NEW h \in Handlers, CreateRow(h), NEW q \in Recipients, Answered(q)
  PROVE  Answered(q)'
<1> DEFINE u == handler[h]
<1>1. /\ u \in HandlerType /\ u.at = "create"
      /\ \E v \in HandlerType :
              /\ Becomes(h, v) /\ Proper(v)
              /\ \/ /\ u.type = "FAILED"
                    /\ v.at = "retryGet" /\ v.r = u.r
                 \/ u.type # "FAILED" /\ v.at = "check"
  BY CreateRowTo
<1>2. PICK v \in HandlerType :
              /\ Becomes(h, v) /\ Proper(v)
              /\ \/ /\ u.type = "FAILED"
                    /\ v.at = "retryGet" /\ v.r = u.r
                 \/ u.type # "FAILED" /\ v.at = "check"
  BY <1>1
<1>3. /\ rows' = [rows EXCEPT ![<<u.r, u.type>>] = @ + 1]
      /\ UNCHANGED <<retry, emitted>>
  BY DEF CreateRow, AddsRow
<1>4. rows \in [Recipients \X Kinds -> Nat] /\ <<q, "FAILED">> \in Recipients \X Kinds
  BY Words DEF Typed, Rows
<1>5. CASE u.type = "FAILED" /\ u.r = q
  <2>1. rows'[<<q, "FAILED">>] = rows[<<q, "FAILED">>] + 1
    BY <1>3, <1>4, <1>5
  <2>2. v.at = "retryGet" /\ v.r = q
    BY <1>2, <1>5
  <2>3. /\ In(v, Emitting(q)) = 0 /\ In(v, Answering(q)) = 1
        /\ In(u, Emitting(q)) = 0 /\ In(u, Answering(q)) = 0
    BY <1>1, <2>2, InSets
  <2>4. /\ Num(handler', Emitting(q)) = Num(handler, Emitting(q))
        /\ Num(handler', Answering(q)) = Num(handler, Answering(q)) + 1
        /\ Num(handler, Answering(q)) \in Nat
    BY <1>2, <2>3, AnswerCounts
  <2>5. Sent(q)' = Sent(q)
    BY <1>3, <2>4 DEF Sent
  <2>6. handler'[h] = v /\ \A g \in Handlers \ {h} : handler'[g] = handler[g]
    BY <1>2, AnswerCounts
  <2>7. \A g \in Handlers :
          handler'[g].r = q /\ handler'[g].at = "retrySet" => handler'[g].n <= Sent(q)
    BY <2>2, <2>6 DEF Answered
  <2>8. Sent(q) < Allowance =>
          rows'[<<q, "FAILED">>] = emitted'[q] + Num(handler', Answering(q))
    BY <1>3, <2>1, <2>4, AnswerTypes DEF Answered
  <2>9. retry'[q] <= Sent(q)
    BY <1>3 DEF Answered
  <2> QED
    BY <2>5, <2>7, <2>8, <2>9 DEF Answered
<1>6. CASE u.type = "FAILED" /\ u.r # q
  <2>1. rows'[<<q, "FAILED">>] = rows[<<q, "FAILED">>]
    BY <1>3, <1>4, <1>6
  <2>2. v.at = "retryGet" /\ v.r # q
    BY <1>2, <1>6
  <2>3. /\ In(v, Emitting(q)) = 0 /\ In(v, Answering(q)) = 0
        /\ In(u, Emitting(q)) = 0 /\ In(u, Answering(q)) = 0
    BY <1>1, <2>2, InSets
  <2>4. /\ Num(handler', Emitting(q)) = Num(handler, Emitting(q))
        /\ Num(handler', Answering(q)) = Num(handler, Answering(q))
    BY <1>2, <2>3, AnswerCounts
  <2>5. Sent(q)' = Sent(q)
    BY <1>3, <2>4 DEF Sent
  <2>6. handler'[h] = v /\ \A g \in Handlers \ {h} : handler'[g] = handler[g]
    BY <1>2, AnswerCounts
  <2>7. \A g \in Handlers :
          handler'[g].r = q /\ handler'[g].at = "retrySet" => handler'[g].n <= Sent(q)
    BY <2>2, <2>6 DEF Answered
  <2> QED
    BY <1>3, <2>1, <2>4, <2>5, <2>7 DEF Answered
<1>7. CASE u.type # "FAILED"
  <2>1. rows'[<<q, "FAILED">>] = rows[<<q, "FAILED">>]
    BY <1>3, <1>4, <1>7
  <2>2. v.at \in Past \union {"create"} /\ handler[h].at \in Past \union {"create"}
    BY <1>1, <1>2, <1>7 DEF Past
  <2> QED
    BY <1>2, <1>3, <2>1, <2>2, AnsweredSame
<1> QED
  BY <1>5, <1>6, <1>7
LEMMA AnsweredReadRetry ==
  ASSUME Typed, NEW h \in Handlers, ReadRetry(h), NEW q \in Recipients, Answered(q)
  PROVE  Answered(q)'
<1> DEFINE u == handler[h]
<1>1. PICK v \in HandlerType :
              /\ Becomes(h, v) /\ Proper(v)
              /\ \/ v.at = "retrySet" /\ v.r = u.r /\ v.n = retry[u.r]
                 \/ v.at = "check" /\ retry[u.r] = Allowance
  BY ReadRetryTo
<1>2. u \in HandlerType /\ u.at = "retryGet"
  BY ReadRetryTo
<1>3. UNCHANGED <<rows, retry, emitted>>
  BY DEF ReadRetry
<1>4. /\ Num(handler', Emitting(q)) =
           Num(handler, Emitting(q)) + In(v, Emitting(q)) - In(u, Emitting(q))
      /\ Num(handler', Answering(q)) =
           Num(handler, Answering(q)) + In(v, Answering(q)) - In(u, Answering(q))
      /\ Num(handler, Emitting(q)) \in Nat /\ Num(handler, Answering(q)) \in Nat
  BY <1>1, AnswerCounts
<1>5. handler'[h] = v /\ \A g \in Handlers \ {h} : handler'[g] = handler[g]
  BY <1>1, AnswerCounts
<1> HIDE DEF u
<1>6. In(v, Emitting(q)) = 0 /\ In(u, Emitting(q)) = 0
  BY <1>1, <1>2, InSets
<1>7. Num(handler', Emitting(q)) = Num(handler, Emitting(q)) /\ Sent(q)' = Sent(q)
  BY <1>3, <1>4, <1>6 DEF Sent
<1>8. \A g \in Handlers :
        handler'[g].r = q /\ handler'[g].at = "retrySet" => handler'[g].n <= Sent(q)
  <2>1. v.r = q /\ v.at = "retrySet" => v.n <= Sent(q)
    BY <1>1 DEF Answered
  <2> QED
    BY <1>5, <2>1 DEF Answered
<1>9. retry'[q] <= Sent(q)
  BY <1>3 DEF Answered
<1>10. Sent(q) < Allowance =>
         rows'[<<q, "FAILED">>] = emitted'[q] + Num(handler', Answering(q))
  <2>1. CASE v.at = "retrySet" \/ u.r # q
    <3>1. In(v, Answering(q)) = In(u, Answering(q)) /\ In(u, Answering(q)) \in {0, 1}
      <4>1. /\ In(v, Answering(q)) \in {0, 1} /\ In(u, Answering(q)) \in {0, 1}
            /\ In(u, Answering(q)) = 1 <=> u.r = q
            /\ In(v, Answering(q)) = 1 <=> v.at = "retrySet" /\ v.r = q
        BY <1>1, <1>2, InSets
      <4>2. In(v, Answering(q)) = 1 <=> u.r = q
        BY <1>1, <2>1, <4>1
      <4> QED
        BY <4>1, <4>2
    <3>2. Num(handler', Answering(q)) = Num(handler, Answering(q))
      BY <1>4, <3>1
    <3> QED
      BY <1>3, <3>2 DEF Answered
  <2>2. CASE v.at = "check" /\ u.r = q
    <3>1. retry[q] = Allowance
      BY <1>1, <2>2
    <3>2. Sent(q) \in Nat
      <4>1. emitted[q] \in Nat
        BY AnswerTypes
      <4> QED
        BY <1>4, <4>1 DEF Sent
    <3>3. ~(Sent(q) < Allowance)
      BY <3>1, <3>2, Constants DEF Answered
    <3> QED
      BY <3>3
  <2> QED
    BY <1>1, <2>1, <2>2
<1> QED
  BY <1>7, <1>8, <1>9, <1>10 DEF Answered

LEMMA AnsweredSetRetry ==
  ASSUME Typed, NEW h \in Handlers, SetRetry(h), NEW q \in Recipients, Answered(q)
  PROVE  Answered(q)'
<1> DEFINE u == handler[h]
<1>1. PICK v \in HandlerType : Becomes(h, v) /\ Proper(v) /\ v.at = "emit" /\ v.r = u.r
  BY SetRetryTo
<1>2. /\ u \in HandlerType /\ u.at = "retrySet" /\ u.r \in Recipients
      /\ u.n \in Nat /\ u.n < Allowance
  BY SetRetryTo
<1>3. retry' = [retry EXCEPT ![u.r] = u.n + 1] /\ UNCHANGED <<rows, emitted>>
  BY DEF SetRetry
<1>4. /\ Num(handler', Emitting(q)) =
           Num(handler, Emitting(q)) + In(v, Emitting(q)) - In(u, Emitting(q))
      /\ Num(handler', Answering(q)) =
           Num(handler, Answering(q)) + In(v, Answering(q)) - In(u, Answering(q))
      /\ Num(handler, Emitting(q)) \in Nat /\ Num(handler, Answering(q)) \in Nat
  BY <1>1, AnswerCounts
<1>5. handler'[h] = v /\ \A g \in Handlers \ {h} : handler'[g] = handler[g]
  BY <1>1, AnswerCounts
<1>6. u.r = q => u.n <= Sent(q)
  BY <1>2 DEF Answered
<1> HIDE DEF u
<1>7. /\ In(u, Emitting(q)) = 0
      /\ In(v, Answering(q)) = In(u, Answering(q)) /\ In(u, Answering(q)) \in {0, 1}
      /\ In(v, Emitting(q)) \in {0, 1} /\ (In(v, Emitting(q)) = 1 <=> u.r = q)
  <2>1. /\ In(u, Emitting(q)) \in {0, 1} /\ In(u, Emitting(q)) # 1
        /\ In(v, Emitting(q)) \in {0, 1} /\ (In(v, Emitting(q)) = 1 <=> u.r = q)
    BY <1>1, <1>2, InSets
  <2>2. /\ In(v, Answering(q)) \in {0, 1} /\ In(u, Answering(q)) \in {0, 1}
        /\ (In(v, Answering(q)) = 1 <=> u.r = q) /\ (In(u, Answering(q)) = 1 <=> u.r = q)
    BY <1>1, <1>2, InSets
  <2> QED
    BY <2>1, <2>2
<1>8. /\ Num(handler', Answering(q)) = Num(handler, Answering(q))
      /\ u.r = q => Sent(q)' = Sent(q) + 1
      /\ u.r # q => Sent(q)' = Sent(q)
      /\ Sent(q) \in Nat /\ Sent(q)' \in Nat
  <2>1. emitted[q] \in Nat
    BY AnswerTypes
  <2> QED
    BY <1>3, <1>4, <1>7, <2>1 DEF Sent
<1>9. retry'[q] <= Sent(q)'
  <2>1. CASE u.r = q
    <3>1. retry'[q] = u.n + 1
      BY <1>3, <2>1 DEF Typed, Rows
    <3> QED
      BY <1>2, <1>6, <1>8, <2>1, <3>1
  <2>2. CASE u.r # q
    <3>1. retry'[q] = retry[q]
      BY <1>3, <2>2 DEF Typed, Rows
    <3> QED
      BY <1>8, <2>2, <3>1 DEF Answered
  <2> QED
    BY <2>1, <2>2
<1>10. Sent(q) <= Sent(q)'
  BY <1>8
<1>11. (Sent(q)' < Allowance) =>
         rows'[<<q, "FAILED">>] = emitted'[q] + Num(handler', Answering(q))
  <2>1. Sent(q)' < Allowance => Sent(q) < Allowance
    BY <1>8, <1>10, Constants
  <2> QED
    BY <1>3, <1>8, <2>1 DEF Answered
<1>12. \A g \in Handlers :
         handler'[g].r = q /\ handler'[g].at = "retrySet" => handler'[g].n <= Sent(q)'
  <2>1. ASSUME NEW g \in Handlers, handler'[g].r = q, handler'[g].at = "retrySet"
        PROVE  handler'[g].n <= Sent(q)'
    <3>1. g # h /\ handler'[g] = handler[g]
      BY <1>1, <1>5, <2>1
    <3>2. handler[g].n \in Nat /\ handler[g].n <= Sent(q)
      BY <2>1, <3>1, AnswerTypes DEF Answered
    <3> QED
      BY <1>8, <1>10, <3>1, <3>2
  <2> QED
    BY <2>1
<1> QED
  BY <1>9, <1>11, <1>12 DEF Answered

LEMMA AnsweredEmitRetry ==
  ASSUME Typed, NEW h \in Handlers, EmitRetry(h), NEW q \in Recipients, Answered(q)
  PROVE  Answered(q)'
<1> DEFINE u == handler[h]
<1>1. PICK v \in HandlerType : Becomes(h, v) /\ Proper(v) /\ v.at = "check"
  BY EmitRetryTo
<1>2. u \in HandlerType /\ u.at = "emit" /\ u.r \in Recipients
  BY EmitRetryTo
<1>3. emitted' = [emitted EXCEPT ![u.r] = @ + 1] /\ UNCHANGED <<rows, retry>>
  BY DEF EmitRetry
<1>4. /\ Num(handler', Emitting(q)) =
           Num(handler, Emitting(q)) + In(v, Emitting(q)) - In(u, Emitting(q))
      /\ Num(handler', Answering(q)) =
           Num(handler, Answering(q)) + In(v, Answering(q)) - In(u, Answering(q))
      /\ Num(handler, Emitting(q)) \in Nat /\ Num(handler, Answering(q)) \in Nat
  BY <1>1, AnswerCounts
<1>5. handler'[h] = v /\ \A g \in Handlers \ {h} : handler'[g] = handler[g]
  BY <1>1, AnswerCounts
<1> HIDE DEF u
<1>6. In(v, Emitting(q)) = 0 /\ In(v, Answering(q)) = 0
  BY <1>1, InSets
<1>7. /\ In(u, Emitting(q)) \in {0, 1} /\ (In(u, Emitting(q)) = 1 <=> u.r = q)
      /\ In(u, Answering(q)) \in {0, 1} /\ (In(u, Answering(q)) = 1 <=> u.r = q)
  BY <1>2, InSets
<1>8. /\ emitted[q] \in Nat
      /\ u.r = q => emitted'[q] = emitted[q] + 1
      /\ u.r # q => emitted'[q] = emitted[q]
  BY <1>3 DEF Typed, MailCounts
<1>9. /\ Sent(q)' = Sent(q)
      /\ emitted'[q] + Num(handler', Answering(q)) = emitted[q] + Num(handler, Answering(q))
  BY <1>4, <1>6, <1>7, <1>8 DEF Sent
<1>10. \A g \in Handlers :
         handler'[g].r = q /\ handler'[g].at = "retrySet" => handler'[g].n <= Sent(q)
  BY <1>1, <1>5 DEF Answered
<1> QED
  BY <1>3, <1>9, <1>10 DEF Answered

\* A call that takes an event answers nothing yet.
LEMMA AnsweredTakes ==
  ASSUME Typed, NEW h \in Handlers, NEW r \in Recipients, NEW type \in Types,
         Takes(h, r, type),
         UNCHANGED <<rows, retry, emitted>>, NEW q \in Recipients, Answered(q)
  PROVE  Answered(q)'
<1>1. PICK v \in HandlerType : Becomes(h, v) /\ Proper(v) /\ v.at = "create"
  BY TakesTo
<1>2. handler[h].at = "idle"
  BY TakesTo
<1> QED
  BY <1>1, <1>2, AnsweredSame DEF Past

LEMMA RetriedStep == Typed /\ Retried /\ [Next]_vars => Retried'
<1> SUFFICES ASSUME Typed, Retried, [Next]_vars, faults' = 0, NEW q \in Recipients
             PROVE  Answered(q)'
  BY DEF Retried
<1>0. faults \in Nat
  BY DEF Typed, Flags
<1>1. faults' = faults \/ Fault => Answered(q)
  BY Mishap DEF Retried
<1>2. ASSUME UNCHANGED vars PROVE Answered(q)'
  BY <1>1, <1>2 DEF vars, bounds, Answered, Sent
<1>3. ASSUME Senders PROVE Answered(q)'
  <2>1. /\ UNCHANGED <<retry, handler, emitted>> /\ (faults' = faults \/ Fault)
        /\ \E r \in Recipients, kind \in Sending : Adds(r, kind)
    BY <1>3, SenderSteps
  <2>2. rows'[<<q, "FAILED">>] = rows[<<q, "FAILED">>]
    BY <2>1, AddsOther, Words
  <2> QED
    BY <1>1, <2>1, <2>2 DEF Answered, Sent
<1>4. ASSUME NEW k \in Hooks, HookStep(k) PROVE Answered(q)'
  <2>1. /\ UNCHANGED <<retry, handler, emitted>> /\ (faults' = faults \/ Fault)
        /\ rows' = rows \/ rows' = [rows EXCEPT ![<<hook[k].r, "DELIVERED">>] = @ + 1]
    BY <1>4, Zenon DEF HookStep, HandleSESEvent, FindMail, CreateReport, EmitReport, HookFails,
       AddsRow, calls, bounds
  <2>2. rows'[<<q, "FAILED">>] = rows[<<q, "FAILED">>]
    BY <2>1, Words DEF Typed, Rows
  <2> QED
    BY <1>1, <2>1, <2>2 DEF Answered, Sent
<1>5. ASSUME NEW h \in Handlers, CallFails(h) PROVE FALSE
  BY <1>5, Mishap DEF CallFails
<1>6. ASSUME NEW h \in Handlers, Takings(h) PROVE Answered(q)'
  <2>1. /\ \E r \in Recipients, type \in Types : Takes(h, r, type)
        /\ UNCHANGED <<rows, retry, emitted, faults>>
    BY <1>6, TakingsTo
  <2> QED
    BY <1>1, <2>1, AnsweredTakes
<1>7. ASSUME NEW h \in Handlers,
             CreateRow(h) \/ ReadRetry(h) \/ SetRetry(h) \/ EmitRetry(h)
      PROVE  Answered(q)'
  <2>1. UNCHANGED faults
    BY <1>7 DEF CreateRow, ReadRetry, SetRetry, EmitRetry, bounds
  <2> QED
    BY <1>1, <1>7, <2>1, AnsweredCreateRow, AnsweredReadRetry, AnsweredSetRetry,
       AnsweredEmitRetry
<1>8. ASSUME NEW h \in Handlers, Rest(h) PROVE Answered(q)'
  <2>1. UNCHANGED <<rows, retry, emitted, faults>> /\ handler[h].at \in Past
    BY <1>8, RestTo DEF bounds
  <2>2. PICK v \in HandlerType : Becomes(h, v) /\ Proper(v) /\ v.at \in Past
    BY <1>8, RestTo
  <2> QED
    BY <1>1, <2>1, <2>2, AnsweredSame
<1> QED
  BY <1>2, <1>3, <1>4, <1>5, <1>6, <1>7, <1>8, Steps, Zenon

\* With nothing under way no call is counted.
LEMMA QuietCounts ==
  ASSUME Typed, Quiet, NEW q \in Recipients
  PROVE  /\ Num(handler, Emitting(q)) = 0 /\ Num(handler, Answering(q)) = 0
         /\ Num(handler, Reporting(q)) = 0
<1>1. IsFiniteSet(Handlers) /\ handler \in [Handlers -> HandlerType]
  BY EventsAssumption DEF Typed, Calls
<1>2. \A h \in Handlers : handler[h].at = "idle"
  BY DEF Quiet
<1>3. \A h \in Handlers : /\ handler[h] \notin Emitting(q) /\ handler[h] \notin Answering(q)
                          /\ handler[h] \notin Reporting(q)
  BY <1>2 DEF Emitting, Answering, Reporting
<1> QED
  BY <1>1, <1>3, NumType, Zenon

\* Failures that overlap may write the counter back below what another wrote, and
\* none swallows another's retry: when nothing is under way each failure was
\* answered, or the allowance was used, or a call failed. (handleFailedMail 403-420)
THEOREM FailuresAreRetried == Spec => []FailureRetried
<1>1. Init => Typed /\ Retried
  <2> SUFFICES ASSUME Init PROVE Retried
    BY TypeInit
  <2>1. ASSUME NEW q \in Recipients PROVE Answered(q)
    <3>1. Num(handler, Emitting(q)) = 0 /\ Num(handler, Answering(q)) = 0
      BY NoneCounted
    <3>2. retry[q] = 0 /\ emitted[q] = 0 /\ rows[<<q, "FAILED">>] = 0
      BY Words DEF Init
    <3>3. \A h \in Handlers : handler[h].at = "idle"
      BY CallsStart, Resting
    <3> QED
      BY <3>1, <3>2, <3>3 DEF Answered, Sent
  <2> QED
    BY <2>1 DEF Retried
<1>2. Typed /\ Retried /\ [Next]_vars => Typed' /\ Retried'
  BY TypeStep, RetriedStep
<1>3. Typed /\ Retried => FailureRetried
  <2> SUFFICES ASSUME Typed, Retried, Quiet, NEW r \in Recipients
               PROVE  emitted[r] = rows[<<r, "FAILED">>] \/ emitted[r] >= Allowance
                        \/ faults > 0
    BY Zenon DEF FailureRetried
  <2>1. faults \in Nat /\ emitted[r] \in Nat /\ rows[<<r, "FAILED">>] \in Nat
    BY AnswerTypes, Constants DEF Typed, Flags
  <2>2. Num(handler, Emitting(r)) = 0 /\ Num(handler, Answering(r)) = 0
    BY QuietCounts
  <2>3. Sent(r) = emitted[r]
    BY <2>1, <2>2 DEF Sent
  <2>4. faults = 0 => Answered(r)
    BY DEF Retried
  <2> QED
    BY <2>1, <2>2, <2>3, <2>4, Constants DEF Answered
<1> QED
  BY <1>1, <1>2, <1>3, PTL DEF Spec
-----------------------------------------------------------------------------
(* The retries of a recipient                                              *)

\* While failures of a recipient were handled one after the other, the counter is
\* never below what was sent, and a call that has read it has read the latest.
Single(r) ==
  /\ Sent(r) <= retry[r]
  /\ \A h \in Handlers :
       handler[h].r = r /\ handler[h].at = "retrySet" => handler[h].n = retry[r]

Alone(r) == \A g, h \in Handlers : Failing(g, r) /\ Failing(h, r) => g = h

OneByOne == ~overlapped => \A r \in Recipients : Single(r) /\ Alone(r)

\* Without an event handed over twice a recipient has one mail in the hands of the
\* consumer, or one failure in a call: what senders of the batch do, and a mail that
\* SES took and that counts as failed, bring no event.
OneMail ==
  duplicates = 0 =>
    ~overlapped /\ \A r \in Recipients : Under(r) + Num(handler, Busy(r)) <= 1

LEMMA UnderType ==
  ASSUME Typed, NEW q \in Recipients
  PROVE  /\ mail[<<q, "topic", "due">>] \in Nat /\ mail[<<q, "topic", "accepted">>] \in Nat
         /\ mail[<<q, "topic", "sent">>] \in Nat /\ mail[<<q, "topic", "unsent">>] \in Nat
         /\ Under(q) \in Nat
<1>1. /\ <<q, "topic", "due">> \in Mails /\ <<q, "topic", "accepted">> \in Mails
      /\ <<q, "topic", "sent">> \in Mails /\ <<q, "topic", "unsent">> \in Mails
  BY Words DEF Stages
<1>2. /\ mail[<<q, "topic", "due">>] \in Nat /\ mail[<<q, "topic", "accepted">>] \in Nat
      /\ mail[<<q, "topic", "sent">>] \in Nat /\ mail[<<q, "topic", "unsent">>] \in Nat
  BY <1>1 DEF Typed, MailCounts
<1> QED
  BY <1>2 DEF Under

\* The consumer has one mail less, of a recipient whose mail ended.
LEMMA UnderEnds ==
  ASSUME Typed, NEW r \in Recipients, NEW end \in {"sent", "unsent"},
         MailOver(r, "topic", end), NEW q \in Recipients
  PROVE  /\ q = r => Under(q) > 0 /\ Under(q)' = Under(q) - 1
         /\ q # r => Under(q)' = Under(q)
<1> DEFINE M(at) == mail[<<q, "topic", at>>]
           P(at) == mail'[<<q, "topic", at>>]
<1>1. /\ mail \in [Mails -> Nat] /\ <<r, "topic", end>> \in Mails
      /\ mail[<<r, "topic", end>>] > 0
      /\ mail' = [mail EXCEPT ![<<r, "topic", end>>] = @ - 1]
  BY Words DEF Typed, MailCounts, MailOver, Stages
<1>2. \A at \in {"due", "accepted", "sent", "unsent"} : <<q, "topic", at>> \in Mails
  BY Words DEF Stages
<1>3. \A at \in {"due", "accepted", "sent", "unsent"} : q # r \/ at # end => P(at) = M(at)
  BY <1>1, <1>2
<1>4. q = r => M(end) > 0 /\ P(end) = M(end) - 1
  BY <1>1
<1>5. M("due") \in Nat /\ M("accepted") \in Nat /\ M("sent") \in Nat /\ M("unsent") \in Nat
  BY UnderType
<1>6. /\ Under(q) = M("due") + M("accepted") + M("sent") + M("unsent")
      /\ Under(q)' = P("due") + P("accepted") + P("sent") + P("unsent")
  BY DEF Under
<1> HIDE DEF M, P
<1> QED
  BY <1>3, <1>4, <1>5, <1>6

\* It has one more, of a recipient whose mail is sent again.
LEMMA UnderEmits ==
  ASSUME Typed, NEW r \in Recipients,
         mail' = [mail EXCEPT ![<<r, "topic", "due">>] = @ + 1], NEW q \in Recipients
  PROVE  Under(q)' = IF q = r THEN Under(q) + 1 ELSE Under(q)
<1> DEFINE M(at) == mail[<<q, "topic", at>>]
           P(at) == mail'[<<q, "topic", at>>]
<1>1. mail \in [Mails -> Nat] /\ <<r, "topic", "due">> \in Mails
  BY Words DEF Typed, MailCounts, Stages
<1>2. \A at \in {"due", "accepted", "sent", "unsent"} : <<q, "topic", at>> \in Mails
  BY Words DEF Stages
<1>3. P("accepted") = M("accepted") /\ P("sent") = M("sent") /\ P("unsent") = M("unsent")
  BY <1>1, <1>2
<1>4. P("due") = IF q = r THEN M("due") + 1 ELSE M("due")
  BY <1>1, <1>2
<1>5. M("due") \in Nat /\ M("accepted") \in Nat /\ M("sent") \in Nat /\ M("unsent") \in Nat
  BY UnderType
<1>6. /\ Under(q) = M("due") + M("accepted") + M("sent") + M("unsent")
      /\ Under(q)' = P("due") + P("accepted") + P("sent") + P("unsent")
  BY DEF Under
<1> HIDE DEF M, P
<1> QED
  BY <1>3, <1>4, <1>5, <1>6

LEMMA SingleSame ==
  ASSUME Typed, NEW h \in Handlers, NEW v \in HandlerType, Proper(v), Becomes(h, v),
         v.at \notin {"retrySet", "emit"}, UNCHANGED <<retry, emitted>>,
         NEW q \in Recipients, Single(q)
  PROVE  Single(q)'
<1>1. In(v, Emitting(q)) = 0 /\ In(handler[h], Emitting(q)) \in {0, 1}
  BY InSets, AnswerTypes
<1>2. /\ Num(handler', Emitting(q)) <= Num(handler, Emitting(q))
      /\ Num(handler', Emitting(q)) \in Nat /\ Num(handler, Emitting(q)) \in Nat
  BY <1>1, AnswerCounts
<1>3. emitted[q] \in Nat /\ retry[q] \in Nat
  BY AnswerTypes
<1>4. (Sent(q)' <= retry'[q])
  BY <1>2, <1>3 DEF Sent, Single
<1>5. handler'[h] = v /\ \A g \in Handlers \ {h} : handler'[g] = handler[g]
  BY AnswerCounts
<1>6. \A g \in Handlers :
        handler'[g].r = q /\ handler'[g].at = "retrySet" => handler'[g].n = retry'[q]
  BY <1>5 DEF Single
<1> QED
  BY <1>4, <1>6 DEF Single

LEMMA SingleReadRetry ==
  ASSUME Typed, NEW h \in Handlers, ReadRetry(h), NEW q \in Recipients, Single(q)
  PROVE  Single(q)'
<1> DEFINE u == handler[h]
<1>1. PICK v \in HandlerType :
              /\ Becomes(h, v) /\ Proper(v)
              /\ \/ v.at = "retrySet" /\ v.r = u.r /\ v.n = retry[u.r]
                 \/ v.at = "check" /\ retry[u.r] = Allowance
  BY ReadRetryTo
<1>2. u \in HandlerType /\ u.at = "retryGet"
  BY ReadRetryTo
<1>3. UNCHANGED <<retry, emitted>>
  BY DEF ReadRetry
<1>4. /\ Num(handler', Emitting(q)) =
           Num(handler, Emitting(q)) + In(v, Emitting(q)) - In(u, Emitting(q))
      /\ Num(handler, Emitting(q)) \in Nat
  BY <1>1, AnswerCounts
<1>5. handler'[h] = v /\ \A g \in Handlers \ {h} : handler'[g] = handler[g]
  BY <1>1, AnswerCounts
<1> HIDE DEF u
<1>6. In(v, Emitting(q)) = 0 /\ In(u, Emitting(q)) = 0
  BY <1>1, <1>2, InSets
<1>7. Sent(q)' = Sent(q)
  BY <1>3, <1>4, <1>6 DEF Sent
<1>8. \A g \in Handlers :
        handler'[g].r = q /\ handler'[g].at = "retrySet" => handler'[g].n = retry[q]
  BY <1>1, <1>5 DEF Single
<1> QED
  BY <1>3, <1>7, <1>8 DEF Single

\* The counter is set from the latest: no other call of the recipient has read it.
LEMMA SingleSetRetry ==
  ASSUME Typed, NEW h \in Handlers, SetRetry(h), NEW q \in Recipients, Single(q), Alone(q)
  PROVE  Single(q)'
<1> DEFINE u == handler[h]
<1>1. PICK v \in HandlerType : Becomes(h, v) /\ Proper(v) /\ v.at = "emit" /\ v.r = u.r
  BY SetRetryTo
<1>2. u \in HandlerType /\ u.at = "retrySet" /\ u.r \in Recipients /\ u.n \in Nat
  BY SetRetryTo
<1>3. retry' = [retry EXCEPT ![u.r] = u.n + 1] /\ UNCHANGED emitted
  BY DEF SetRetry
<1>4. /\ Num(handler', Emitting(q)) =
           Num(handler, Emitting(q)) + In(v, Emitting(q)) - In(u, Emitting(q))
      /\ Num(handler, Emitting(q)) \in Nat
  BY <1>1, AnswerCounts
<1>5. handler'[h] = v /\ \A g \in Handlers \ {h} : handler'[g] = handler[g]
  BY <1>1, AnswerCounts
<1>6. u.r = q => u.n = retry[q]
  BY <1>2 DEF Single
<1>7. \A g \in Handlers :
        handler[g].at = "retrySet" => handler[g].type = "FAILED"
  BY DEF Typed, Calls, Proper
<1>8. ASSUME NEW g \in Handlers, handler'[g].r = q, handler'[g].at = "retrySet"
      PROVE  handler'[g].n = retry[q] /\ u.r # q
  <2>1. g # h /\ handler'[g] = handler[g]
    BY <1>1, <1>5, <1>8
  <2>2. Failing(g, q)
    BY <1>7, <1>8, <2>1 DEF Failing
  <2>3. u.r = q => Failing(h, q)
    BY <1>2, <1>7 DEF Failing
  <2> QED
    BY <1>8, <2>1, <2>2, <2>3 DEF Alone, Single
<1> HIDE DEF u
<1>9. /\ In(u, Emitting(q)) \in {0, 1} /\ In(u, Emitting(q)) # 1
      /\ In(v, Emitting(q)) \in {0, 1} /\ (In(v, Emitting(q)) = 1 <=> u.r = q)
  BY <1>1, <1>2, InSets
<1>10. emitted[q] \in Nat /\ retry[q] \in Nat
  BY AnswerTypes
<1>11. CASE u.r = q
  <2>1. retry'[q] = u.n + 1
    BY <1>3, <1>11 DEF Typed, Rows
  <2>2. Sent(q)' = Sent(q) + 1 /\ Sent(q) \in Nat
    BY <1>3, <1>4, <1>9, <1>10, <1>11 DEF Sent
  <2>3. Sent(q)' <= retry'[q]
    BY <1>6, <1>10, <1>11, <2>1, <2>2 DEF Single
  <2>4. \A g \in Handlers : ~(handler'[g].r = q /\ handler'[g].at = "retrySet")
    BY <1>8, <1>11
  <2> QED
    BY <2>3, <2>4 DEF Single
<1>12. CASE u.r # q
  <2>1. retry'[q] = retry[q]
    BY <1>3, <1>12 DEF Typed, Rows
  <2>2. Sent(q)' = Sent(q)
    BY <1>3, <1>4, <1>9, <1>12 DEF Sent
  <2> QED
    BY <1>8, <2>1, <2>2 DEF Single
<1> QED
  BY <1>11, <1>12

LEMMA SingleEmitRetry ==
  ASSUME Typed, NEW h \in Handlers, EmitRetry(h), NEW q \in Recipients, Single(q)
  PROVE  Single(q)'
<1> DEFINE u == handler[h]
<1>1. PICK v \in HandlerType : Becomes(h, v) /\ Proper(v) /\ v.at = "check"
  BY EmitRetryTo
<1>2. u \in HandlerType /\ u.at = "emit" /\ u.r \in Recipients
  BY EmitRetryTo
<1>3. emitted' = [emitted EXCEPT ![u.r] = @ + 1] /\ UNCHANGED retry
  BY DEF EmitRetry
<1>4. /\ Num(handler', Emitting(q)) =
           Num(handler, Emitting(q)) + In(v, Emitting(q)) - In(u, Emitting(q))
      /\ Num(handler, Emitting(q)) \in Nat
  BY <1>1, AnswerCounts
<1>5. handler'[h] = v /\ \A g \in Handlers \ {h} : handler'[g] = handler[g]
  BY <1>1, AnswerCounts
<1> HIDE DEF u
<1>6. /\ In(v, Emitting(q)) = 0
      /\ In(u, Emitting(q)) \in {0, 1} /\ (In(u, Emitting(q)) = 1 <=> u.r = q)
  BY <1>1, <1>2, InSets
<1>7. /\ emitted[q] \in Nat
      /\ u.r = q => emitted'[q] = emitted[q] + 1
      /\ u.r # q => emitted'[q] = emitted[q]
  BY <1>3 DEF Typed, MailCounts
<1>8. Sent(q)' = Sent(q)
  BY <1>4, <1>6, <1>7 DEF Sent
<1>9. \A g \in Handlers :
        handler'[g].r = q /\ handler'[g].at = "retrySet" => handler'[g].n = retry[q]
  BY <1>1, <1>5 DEF Single
<1> QED
  BY <1>3, <1>8, <1>9 DEF Single

\* A step of a call that takes no event makes no failure.
LEMMA AloneSame ==
  ASSUME Typed, NEW h \in Handlers, NEW v \in HandlerType, Proper(v), Becomes(h, v),
         \/ v.at \in Past
         \/ v.at = "emit"
         \/ /\ v.at \in {"retryGet", "retrySet"}
            /\ handler[h].at \in {"create", "retryGet"} /\ handler[h].type = "FAILED"
            /\ v.r = handler[h].r,
         NEW q \in Recipients, Alone(q)
  PROVE  Alone(q)'
<1>1. handler'[h] = v /\ \A g \in Handlers \ {h} : handler'[g] = handler[g]
  BY AnswerCounts
<1>2. ASSUME NEW g \in Handlers, Failing(g, q)' PROVE Failing(g, q)
  <2>1. CASE g # h
    BY <1>1, <1>2, <2>1 DEF Failing
  <2>2. CASE g = h
    <3>1. v.r = q /\ v.at \in {"create", "retryGet", "retrySet"}
      BY <1>1, <1>2, <2>2 DEF Failing
    <3>2. /\ v.at \notin Past /\ v.at # "emit"
      BY <3>1 DEF Past
    <3> QED
      BY <2>2, <3>1, <3>2 DEF Failing
  <2> QED
    BY <2>1, <2>2
<1> QED
  BY <1>2 DEF Alone
\* A call takes an event, and no failure of its recipient is in a call if it is one.
LEMMA OneTakes ==
  ASSUME Typed, NEW h \in Handlers, NEW r \in Recipients, NEW type \in Types,
         Takes(h, r, type), ~overlapped',
         UNCHANGED <<retry, emitted>>, NEW q \in Recipients,
         ~overlapped => Single(q) /\ Alone(q)
  PROVE  Single(q)' /\ Alone(q)'
<1>1. PICK v \in HandlerType :
        /\ Becomes(h, v) /\ Proper(v)
        /\ v.at = "create" /\ v.r = r /\ v.type = type
  BY TakesTo
<1>2. ~overlapped /\ ~(type = "FAILED" /\ \E g \in Handlers : Failing(g, r))
  BY Zenon DEF Takes
<1>3. handler'[h] = v /\ \A g \in Handlers \ {h} : handler'[g] = handler[g]
  BY <1>1, AnswerCounts
<1>4. Single(q)'
  BY <1>1, <1>2, SingleSame
<1>5. ASSUME NEW g \in Handlers, Failing(g, q)'
      PROVE  (g # h /\ Failing(g, q)) \/ (g = h /\ type = "FAILED" /\ q = r)
  BY <1>1, <1>3, <1>5 DEF Failing
<1>6. Alone(q)'
  BY <1>2, <1>5 DEF Alone
<1> QED
  BY <1>4, <1>6

LEMMA OneByOneStep == Typed /\ OneByOne /\ [Next]_vars => OneByOne'
<1> SUFFICES ASSUME Typed, OneByOne, [Next]_vars, ~overlapped', NEW q \in Recipients
             PROVE  Single(q)' /\ Alone(q)'
  BY DEF OneByOne
<1>1. ~overlapped => Single(q) /\ Alone(q)
  BY DEF OneByOne
<1>2. ASSUME UNCHANGED <<retry, handler, emitted, overlapped>>
      PROVE  Single(q)' /\ Alone(q)'
  BY <1>1, <1>2 DEF Single, Alone, Failing, Sent
<1>3. ASSUME UNCHANGED vars \/ Senders PROVE Single(q)' /\ Alone(q)'
  BY <1>2, <1>3, SenderSteps DEF vars
<1>4. ASSUME NEW k \in Hooks, HookStep(k) PROVE Single(q)' /\ Alone(q)'
  BY <1>2, <1>4, HookLeaves
<1>5. ASSUME NEW h \in Handlers, Takings(h) PROVE Single(q)' /\ Alone(q)'
  <2>1. /\ \E r \in Recipients, type \in Types : Takes(h, r, type)
        /\ UNCHANGED <<retry, emitted>>
    BY <1>5, TakingsTo
  <2> QED
    BY <1>1, <2>1, OneTakes
<1>6. ASSUME NEW h \in Handlers, CreateRow(h) PROVE Single(q)' /\ Alone(q)'
  <2>1. PICK v \in HandlerType :
              /\ Becomes(h, v) /\ Proper(v)
              /\ \/ /\ handler[h].type = "FAILED"
                    /\ v.at = "retryGet" /\ v.r = handler[h].r
                 \/ handler[h].type # "FAILED" /\ v.at = "check"
    BY <1>6, CreateRowTo
  <2>2. handler[h].at = "create" /\ UNCHANGED <<retry, emitted, overlapped>>
    BY <1>6 DEF CreateRow
  <2>3. Single(q)'
    BY <1>1, <2>1, <2>2, SingleSame
  <2>4. Alone(q)'
    BY <1>1, <2>1, <2>2, AloneSame DEF Past
  <2> QED
    BY <2>3, <2>4
<1>7. ASSUME NEW h \in Handlers, ReadRetry(h) PROVE Single(q)' /\ Alone(q)'
  <2>1. PICK v \in HandlerType :
              /\ Becomes(h, v) /\ Proper(v)
              /\ \/ v.at = "retrySet" /\ v.r = handler[h].r
                 \/ v.at = "check"
    BY <1>7, ReadRetryTo
  <2>2. handler[h].at = "retryGet" /\ UNCHANGED overlapped
    BY <1>7 DEF ReadRetry
  <2>3. handler[h].type = "FAILED"
    BY <2>2 DEF Typed, Calls, Proper
  <2>4. Alone(q)'
    BY <1>1, <2>1, <2>2, <2>3, AloneSame DEF Past
  <2> QED
    BY <1>1, <1>7, <2>2, <2>4, SingleReadRetry
<1>8. ASSUME NEW h \in Handlers, SetRetry(h) PROVE Single(q)' /\ Alone(q)'
  <2>1. UNCHANGED overlapped
    BY <1>8 DEF SetRetry
  <2>2. PICK v \in HandlerType : Becomes(h, v) /\ Proper(v) /\ v.at = "emit"
    BY <1>8, SetRetryTo
  <2>3. Alone(q)'
    BY <1>1, <2>1, <2>2, AloneSame
  <2> QED
    BY <1>1, <1>8, <2>1, <2>3, SingleSetRetry
<1>9. ASSUME NEW h \in Handlers, EmitRetry(h) PROVE Single(q)' /\ Alone(q)'
  <2>1. UNCHANGED overlapped
    BY <1>9 DEF EmitRetry
  <2>2. PICK v \in HandlerType : Becomes(h, v) /\ Proper(v) /\ v.at = "check"
    BY <1>9, EmitRetryTo
  <2>3. Alone(q)'
    BY <1>1, <2>1, <2>2, AloneSame DEF Past
  <2> QED
    BY <1>1, <1>9, <2>1, <2>3, SingleEmitRetry
<1>10. ASSUME NEW h \in Handlers, Rest(h) \/ CallFails(h) PROVE Single(q)' /\ Alone(q)'
  <2>1. \E v \in HandlerType : Becomes(h, v) /\ Proper(v) /\ v.at \in Past
    <3>1. CASE Rest(h)
      BY <3>1, RestTo
    <3>2. CASE CallFails(h)
      BY <3>2, EndsTo, Resting DEF CallFails, Past
    <3> QED
      BY <1>10, <3>1, <3>2
  <2>2. UNCHANGED <<retry, emitted, overlapped>>
    BY <1>10, RestTo DEF CallFails
  <2>3. PICK v \in HandlerType : Becomes(h, v) /\ Proper(v) /\ v.at \in Past
    BY <2>1
  <2>4. v.at \notin {"retrySet", "emit"}
    BY <2>3 DEF Past
  <2>5. Single(q)'
    BY <1>1, <2>2, <2>3, <2>4, SingleSame
  <2>6. Alone(q)'
    BY <1>1, <2>2, <2>3, AloneSame
  <2> QED
    BY <2>5, <2>6
<1> QED
  BY <1>3, <1>4, <1>5, <1>6, <1>7, <1>8, <1>9, <1>10, Steps, Zenon

LEMMA BusyCounts ==
  ASSUME Typed, NEW h \in Handlers, NEW v \in HandlerType, Proper(v), Becomes(h, v),
         NEW q \in Recipients
  PROVE  /\ Num(handler, Busy(q)) \in Nat /\ Num(handler', Busy(q)) \in Nat
         /\ Num(handler', Busy(q)) =
              Num(handler, Busy(q)) + In(v, Busy(q)) - In(handler[h], Busy(q))
BY CallMoves DEF Typed

\* A failure in a call is counted among the busy.
LEMMA FailingBusy ==
  ASSUME Typed, NEW g \in Handlers, NEW q \in Recipients, Failing(g, q)
  PROVE  Num(handler, Busy(q)) >= 1
<1>1. IsFiniteSet(Handlers) /\ handler \in [Handlers -> HandlerType]
  BY EventsAssumption DEF Typed, Calls
<1>2. handler[g] \in Busy(q)
  BY <1>1 DEF Failing, Busy
<1> QED
  BY <1>1, <1>2, NumType, Zenon

LEMMA OneMailStep == Typed /\ OneMail /\ [Next]_vars => OneMail'
<1> SUFFICES ASSUME Typed, OneMail, [Next]_vars, duplicates' = 0
             PROVE  ~overlapped' /\ \A q \in Recipients :
                                       (Under(q) + Num(handler, Busy(q)) <= 1)'
  BY DEF OneMail
<1> DEFINE Goal == ~overlapped' /\ \A q \in Recipients :
                                     Under(q)' + Num(handler', Busy(q)) <= 1
<1> SUFFICES Goal
  OBVIOUS
<1>0. /\ duplicates \in Nat /\ handler \in [Handlers -> HandlerType]
      /\ \A q \in Recipients : Under(q) \in Nat
  BY UnderType DEF Typed, Flags, Calls
<1>1. ASSUME duplicates' = duplicates
      PROVE  /\ ~overlapped
             /\ \A q \in Recipients : Under(q) + Num(handler, Busy(q)) <= 1
  BY <1>1 DEF OneMail
<1>2. ASSUME UNCHANGED <<handler, overlapped, duplicates>>,
             \A q \in Recipients : Under(q)' = Under(q)
      PROVE  Goal
  BY <1>1, <1>2
<1>a. ASSUME UNCHANGED mail PROVE \A q \in Recipients : Under(q)' = Under(q)
  BY <1>a DEF Under
<1>3. ASSUME UNCHANGED vars \/ Senders PROVE Goal
  BY <1>2, <1>3, <1>a, SenderSteps DEF vars, bounds
<1>4. ASSUME NEW k \in Hooks, HookStep(k) PROVE Goal
  BY <1>2, <1>4, <1>a, HookLeaves
<1>5. ASSUME NEW h \in Handlers, NEW r \in Recipients, NEW type \in Outcomes,
             MailEnds(h, r, type)
      PROVE  Goal
  <2>0. type \in Types /\ Takes(h, r, type)
    BY <1>5, Words DEF MailEnds
  <2>1. /\ \E end \in {"sent", "unsent"} : MailOver(r, "topic", end)
        /\ UNCHANGED duplicates
    BY <1>5 DEF MailEnds, bounds
  <2>2. PICK v \in HandlerType :
          Becomes(h, v) /\ Proper(v) /\ v.at = "create" /\ v.r = r /\ v.type = type
    BY <2>0, TakesTo
  <2>3. ~overlapped /\ \A q \in Recipients : Under(q) + Num(handler, Busy(q)) <= 1
    BY <1>1, <2>1
  <2>4. \A q \in Recipients : Num(handler, Busy(q)) \in Nat
    BY <2>2, BusyCounts
  <2>a. /\ Under(r) > 0 /\ Under(r)' = Under(r) - 1
        /\ \A q \in Recipients : q # r => Under(q)' = Under(q)
    BY <2>1, UnderEnds
  <2>5. ~(\E g \in Handlers : Failing(g, r))
    <3>1. Num(handler, Busy(r)) = 0
      BY <1>0, <2>3, <2>4, <2>a
    <3> QED
      BY <3>1, FailingBusy
  <2>6. ~overlapped'
    BY <2>0, <2>3, <2>5, Zenon DEF Takes
  <2>7. ASSUME NEW q \in Recipients PROVE Under(q)' + Num(handler', Busy(q)) <= 1
    <3>1. handler[h].at = "idle" /\ handler[h] \in HandlerType
      BY <1>0, <2>0 DEF Takes
    <3>2. In(handler[h], Busy(q)) = 0
      BY <3>1, InSets
    <3>3. In(v, Busy(q)) \in {0, 1} /\ (In(v, Busy(q)) = 1 => q = r)
      BY <2>2, InSets
    <3>4. /\ Num(handler', Busy(q)) = Num(handler, Busy(q)) + In(v, Busy(q))
          /\ Num(handler, Busy(q)) \in Nat
      BY <2>2, <3>2, <3>3, BusyCounts
    <3>5. Under(q) + Num(handler, Busy(q)) <= 1
      BY <2>3
    <3> QED
      BY <1>0, <2>a, <3>3, <3>4, <3>5
  <2> QED
    BY <2>6, <2>7
<1>6. ASSUME NEW h \in Handlers, NEW r \in Recipients, Delivered(h, r) PROVE Goal
  <2>0. "DELIVERED" \in Types /\ Takes(h, r, "DELIVERED")
    BY <1>6, Words DEF Delivered
  <2>1. UNCHANGED <<mail, duplicates>>
    BY <1>6 DEF Delivered, bounds
  <2>2. PICK v \in HandlerType :
          Becomes(h, v) /\ Proper(v) /\ v.at = "create" /\ v.type = "DELIVERED"
    BY <2>0, TakesTo
  <2>3. handler[h].at = "idle" /\ handler[h] \in HandlerType /\ "DELIVERED" # "FAILED"
    BY <1>0, <2>0 DEF Takes
  <2>4. ~overlapped'
    BY <1>1, <2>0, <2>1, <2>3, Zenon DEF Takes
  <2>5. ASSUME NEW q \in Recipients PROVE Num(handler', Busy(q)) = Num(handler, Busy(q))
    <3>1. In(handler[h], Busy(q)) = 0
      BY <2>3, InSets
    <3>2. In(v, Busy(q)) = 0
      BY <2>2, <2>3, InSets
    <3> QED
      BY <2>2, <3>1, <3>2, BusyCounts
  <2> QED
    BY <1>1, <1>a, <2>1, <2>4, <2>5
<1>7. ASSUME NEW h \in Handlers, NEW r \in Recipients, NEW type \in Types,
             Redelivered(h, r, type)
      PROVE  FALSE
  BY <1>0, <1>7 DEF Redelivered
<1>8. ASSUME NEW h \in Handlers, CreateRow(h) PROVE Goal
  <2>1. PICK v \in HandlerType :
              /\ Becomes(h, v) /\ Proper(v)
              /\ \/ /\ handler[h].type = "FAILED"
                    /\ v.at = "retryGet" /\ v.r = handler[h].r
                 \/ handler[h].type # "FAILED" /\ v.at = "check"
    BY <1>8, CreateRowTo
  <2>2. /\ handler[h].at = "create" /\ handler[h] \in HandlerType
        /\ UNCHANGED <<mail, overlapped, duplicates>>
    BY <1>0, <1>8 DEF CreateRow, bounds
  <2>3. ASSUME NEW q \in Recipients PROVE Num(handler', Busy(q)) = Num(handler, Busy(q))
    <3>1. In(v, Busy(q)) = In(handler[h], Busy(q)) /\ In(v, Busy(q)) \in {0, 1}
      <4>1. /\ In(v, Busy(q)) \in {0, 1} /\ In(handler[h], Busy(q)) \in {0, 1}
            /\ In(handler[h], Busy(q)) = 1
                 <=> handler[h].r = q /\ handler[h].type = "FAILED"
            /\ In(v, Busy(q)) = 1 <=> v.r = q /\ v.at = "retryGet"
        BY <2>1, <2>2, InSets
      <4>2. In(v, Busy(q)) = 1 <=> In(handler[h], Busy(q)) = 1
        BY <2>1, <4>1
      <4> QED
        BY <4>1, <4>2
    <3>2. /\ Num(handler', Busy(q)) =
               Num(handler, Busy(q)) + In(v, Busy(q)) - In(handler[h], Busy(q))
          /\ Num(handler, Busy(q)) \in Nat
      BY <2>1, BusyCounts
    <3> QED
      BY <3>1, <3>2
  <2> QED
    BY <1>1, <1>a, <2>2, <2>3
<1>9. ASSUME NEW h \in Handlers, ReadRetry(h) \/ SetRetry(h) PROVE Goal
  <2>1. PICK v \in HandlerType :
              /\ Becomes(h, v) /\ Proper(v)
              /\ (v.at \in {"retrySet", "emit"} /\ v.r = handler[h].r) \/ v.at = "check"
    BY <1>9, ReadRetryTo, SetRetryTo
  <2>2. /\ handler[h].at \in {"retryGet", "retrySet"} /\ handler[h] \in HandlerType
        /\ UNCHANGED <<mail, overlapped, duplicates>>
    BY <1>0, <1>9 DEF ReadRetry, SetRetry, bounds
  <2>3. ASSUME NEW q \in Recipients PROVE Num(handler', Busy(q)) <= Num(handler, Busy(q))
    <3>1. /\ In(v, Busy(q)) \in {0, 1} /\ In(handler[h], Busy(q)) \in {0, 1}
          /\ In(v, Busy(q)) = 1 => In(handler[h], Busy(q)) = 1
      BY <2>1, <2>2, InSets
    <3>2. /\ Num(handler', Busy(q)) =
               Num(handler, Busy(q)) + In(v, Busy(q)) - In(handler[h], Busy(q))
          /\ Num(handler, Busy(q)) \in Nat
      BY <2>1, BusyCounts
    <3> QED
      BY <3>1, <3>2
  <2>4. \A q \in Recipients : Num(handler, Busy(q)) \in Nat /\ Num(handler', Busy(q)) \in Nat
    BY <2>1, BusyCounts
  <2> QED
    BY <1>0, <1>1, <1>a, <2>2, <2>3, <2>4
<1>10. ASSUME NEW h \in Handlers, EmitRetry(h) PROVE Goal
  <2>1. PICK v \in HandlerType : Becomes(h, v) /\ Proper(v) /\ v.at = "check"
    BY <1>10, EmitRetryTo
  <2>2. /\ handler[h].at = "emit" /\ handler[h] \in HandlerType
        /\ handler[h].r \in Recipients
        /\ mail' = [mail EXCEPT ![<<handler[h].r, "topic", "due">>] = @ + 1]
        /\ UNCHANGED <<overlapped, duplicates>>
    BY <1>0, <1>10, EmitRetryTo DEF EmitRetry, bounds
  <2>3. ASSUME NEW q \in Recipients PROVE Under(q)' + Num(handler', Busy(q)) <= 1
    <3>1. /\ In(v, Busy(q)) = 0
          /\ In(handler[h], Busy(q)) \in {0, 1}
          /\ In(handler[h], Busy(q)) = 1 <=> handler[h].r = q
      BY <2>1, <2>2, InSets
    <3>2. /\ Num(handler', Busy(q)) =
               Num(handler, Busy(q)) + In(v, Busy(q)) - In(handler[h], Busy(q))
          /\ Num(handler, Busy(q)) \in Nat
      BY <2>1, BusyCounts
    <3>3. /\ handler[h].r = q => Under(q)' = Under(q) + 1
          /\ handler[h].r # q => Under(q)' = Under(q)
      BY <2>2, UnderEmits
    <3>4. Under(q) + Num(handler, Busy(q)) <= 1
      BY <1>1, <2>2
    <3> QED
      BY <1>0, <3>1, <3>2, <3>3, <3>4
  <2> QED
    BY <1>1, <2>2, <2>3
<1>11. ASSUME NEW h \in Handlers, Rest(h) \/ CallFails(h) PROVE Goal
  <2>1. \E v \in HandlerType : Becomes(h, v) /\ Proper(v) /\ v.at \in Past
    <3>1. CASE Rest(h)
      BY <3>1, RestTo
    <3>2. CASE CallFails(h)
      BY <3>2, EndsTo, Resting DEF CallFails, Past
    <3> QED
      BY <1>11, <3>1, <3>2
  <2>2. UNCHANGED <<mail, overlapped, duplicates>> /\ handler[h] \in HandlerType
    BY <1>0, <1>11, RestTo DEF CallFails, bounds
  <2>3. PICK v \in HandlerType : Becomes(h, v) /\ Proper(v) /\ v.at \in Past
    BY <2>1
  <2>4. ASSUME NEW q \in Recipients PROVE Num(handler', Busy(q)) <= Num(handler, Busy(q))
    <3>1. In(v, Busy(q)) = 0 /\ In(handler[h], Busy(q)) \in {0, 1}
      BY <2>2, <2>3, InSets DEF Past
    <3>2. /\ Num(handler', Busy(q)) =
               Num(handler, Busy(q)) + In(v, Busy(q)) - In(handler[h], Busy(q))
          /\ Num(handler, Busy(q)) \in Nat
      BY <2>3, BusyCounts
    <3> QED
      BY <3>1, <3>2
  <2>5. \A q \in Recipients : Num(handler, Busy(q)) \in Nat /\ Num(handler', Busy(q)) \in Nat
    BY <2>3, BusyCounts
  <2> QED
    BY <1>0, <1>1, <1>a, <2>2, <2>4, <2>5
<1> HIDE DEF Goal
<1> QED
  BY <1>3, <1>4, <1>5, <1>6, <1>7, <1>8, <1>9, <1>10, <1>11, Steps, Zenon DEF Takings

\* Nobody gets more retries than the allowance, unless an event was handed over
\* twice and its two handlers were at work at once. (handleFailedMail 403-420)
THEOREM RetriesAreWithinAllowance == Spec => []RetriesWithinAllowance
<1>1. Init => Typed /\ OneByOne /\ OneMail
  <2> SUFFICES ASSUME Init PROVE OneByOne /\ OneMail
    BY TypeInit
  <2>1. \A h \in Handlers : handler[h].at = "idle"
    BY CallsStart, Resting
  <2>2. ASSUME NEW q \in Recipients PROVE Single(q) /\ Alone(q)
    <3>1. Num(handler, Emitting(q)) = 0
      BY NoneCounted
    <3>2. retry[q] = 0 /\ emitted[q] = 0
      BY DEF Init
    <3> QED
      BY <2>1, <3>1, <3>2 DEF Single, Alone, Failing, Sent
  <2>3. ~overlapped
    BY Zenon DEF Init
  <2>4. \A q \in Recipients : Num(handler, Busy(q)) = 0
    BY NoneCounted
  <2>5. OneByOne
    BY <2>2 DEF OneByOne
  <2>6. ASSUME NEW q \in Recipients PROVE Under(q) \in Nat /\ Under(q) <= 1
    <3>1. \A at \in {"due", "accepted", "sent", "unsent"} : <<q, "topic", at>> \in Mails
      BY Words DEF Stages
    <3>2. \A m \in Mails : /\ mail[m] \in {0, 1}
                           /\ m[3] # "due" => mail[m] = 0
      BY DEF Init
    <3>3. \A at : <<q, "topic", at>>[3] = at
      OBVIOUS
    <3>4. /\ mail[<<q, "topic", "due">>] \in {0, 1} /\ mail[<<q, "topic", "accepted">>] = 0
          /\ mail[<<q, "topic", "sent">>] = 0 /\ mail[<<q, "topic", "unsent">>] = 0
      BY <3>1, <3>2, <3>3
    <3> HIDE DEF Init
    <3> QED
      BY <3>4 DEF Under
  <2>7. OneMail
    <3>1. ASSUME NEW q \in Recipients PROVE Under(q) + Num(handler, Busy(q)) <= 1
      BY <2>4, <2>6
    <3> QED
      BY <2>3, <3>1 DEF OneMail
  <2> QED
    BY <2>5, <2>7
<1>2. Typed /\ OneByOne /\ OneMail /\ [Next]_vars => Typed' /\ OneByOne' /\ OneMail'
  BY TypeStep, OneByOneStep, OneMailStep
<1>3. Typed /\ OneByOne /\ OneMail => RetriesWithinAllowance
  <2> SUFFICES ASSUME Typed, OneByOne, OneMail, NEW r \in Recipients,
                      emitted[r] > Allowance
               PROVE  overlapped /\ duplicates > 0
    BY DEF RetriesWithinAllowance
  <2>1. emitted[r] \in Nat /\ retry[r] \in 0 .. Allowance /\ duplicates \in Nat
    BY DEF Typed, Flags, Rows, MailCounts
  <2>2. Num(handler, Emitting(r)) \in Nat
    BY EventsAssumption, NumType, Zenon DEF Typed, Calls
  <2>3. ~overlapped => Sent(r) <= retry[r]
    BY DEF OneByOne, Single
  <2>4. overlapped
    BY <2>1, <2>2, <2>3, Constants DEF Sent
  <2>5. duplicates = 0 => ~overlapped
    BY DEF OneMail
  <2> QED
    BY <2>1, <2>4, <2>5
<1> QED
  BY <1>1, <1>2, <1>3, PTL DEF Spec
-----------------------------------------------------------------------------
(* Reports are kept                                                        *)

\* The rows that the reports of a recipient have, or have yet to get: two each.
Weight(r) ==
  rows[<<r, "DELIVERED">>] + 2 * Num(hook, Found(r)) + Num(hook, Written(r)) + topic[r]
    + Num(handler, Reporting(r))

Kept == faults = 0 => \A r \in Recipients : Weight(r) >= 2 * reports[r]

LEMMA WeightTypes ==
  ASSUME Typed, NEW q \in Recipients
  PROVE  /\ rows[<<q, "DELIVERED">>] \in Nat /\ topic[q] \in Nat /\ reports[q] \in Nat
         /\ Num(hook, Found(q)) \in Nat /\ Num(hook, Written(q)) \in Nat
         /\ Num(handler, Reporting(q)) \in Nat
<1>1. rows[<<q, "DELIVERED">>] \in Nat /\ topic[q] \in Nat /\ reports[q] \in Nat
  BY Words DEF Typed, Rows, Reports
<1>2. IsFiniteSet(Hooks) /\ IsFiniteSet(Handlers)
  BY EventsAssumption
<1>3. hook \in [Hooks -> HookType] /\ handler \in [Handlers -> HandlerType]
  BY DEF Typed, Reports, Calls
<1>4. Num(hook, Found(q)) \in Nat
  BY <1>2, <1>3, NumType, Zenon
<1>5. Num(hook, Written(q)) \in Nat
  BY <1>2, <1>3, NumType, Zenon
<1>6. Num(handler, Reporting(q)) \in Nat
  BY <1>2, <1>3, NumType, Zenon
<1> QED
  BY <1>1, <1>4, <1>5, <1>6

LEMMA ReportingCounts ==
  ASSUME Typed, NEW h \in Handlers, NEW v \in HandlerType, Proper(v), Becomes(h, v),
         NEW q \in Recipients
  PROVE  /\ Num(handler, Reporting(q)) \in Nat
         /\ Num(handler', Reporting(q)) =
              Num(handler, Reporting(q)) + In(v, Reporting(q)) - In(handler[h], Reporting(q))
BY CallMoves DEF Typed

LEMMA HookCounts ==
  ASSUME Typed, NEW k \in Hooks, NEW w \in HookType, HookBecomes(k, w), NEW q \in Recipients
  PROVE  /\ Num(hook', Found(q)) =
              Num(hook, Found(q)) + In(w, Found(q)) - In(hook[k], Found(q))
         /\ Num(hook', Written(q)) =
              Num(hook, Written(q)) + In(w, Written(q)) - In(hook[k], Written(q))
         /\ hook'[k] = w /\ \A g \in Hooks \ {k} : hook'[g] = hook[g]
BY HookMoves DEF Typed

\* A call takes an event: it counts when the event is of a report.
LEMMA KeptTakes ==
  ASSUME Typed, NEW h \in Handlers, NEW r \in Recipients, NEW type \in Types,
         Takes(h, r, type), NEW q \in Recipients
  PROVE  /\ Num(handler', Reporting(q)) >= Num(handler, Reporting(q))
         /\ (q = r /\ type = "DELIVERED") =>
              Num(handler', Reporting(q)) = Num(handler, Reporting(q)) + 1
<1>1. PICK v \in HandlerType :
        Becomes(h, v) /\ Proper(v) /\ v.at = "create" /\ v.r = r /\ v.type = type
  BY TakesTo
<1>2. handler[h].at = "idle" /\ handler[h] \in HandlerType
  BY TakesTo DEF Typed, Calls
<1>3. In(handler[h], Reporting(q)) = 0
  BY <1>2, InSets
<1>4. /\ In(v, Reporting(q)) \in {0, 1}
      /\ In(v, Reporting(q)) = 1 <=> (q = r /\ type = "DELIVERED")
  BY <1>1, InSets
<1>5. /\ Num(handler, Reporting(q)) \in Nat
      /\ Num(handler', Reporting(q)) =
           Num(handler, Reporting(q)) + In(v, Reporting(q)) - In(handler[h], Reporting(q))
  BY <1>1, ReportingCounts
<1> QED
  BY <1>3, <1>4, <1>5

\* A step of a call that awaits no row before it and after it.
LEMMA KeptCall ==
  ASSUME Typed, NEW h \in Handlers, NEW v \in HandlerType, Proper(v), Becomes(h, v),
         v.at # "create", handler[h].at # "create", NEW q \in Recipients
  PROVE  Num(handler', Reporting(q)) = Num(handler, Reporting(q))
<1>1. In(v, Reporting(q)) = 0 /\ In(handler[h], Reporting(q)) = 0
  BY InSets, AnswerTypes
<1> QED
  BY <1>1, ReportingCounts

\* The row of an event, of a report or not.
LEMMA KeptCreateRow ==
  ASSUME Typed, NEW h \in Handlers, CreateRow(h), NEW q \in Recipients
  PROVE  rows'[<<q, "DELIVERED">>] + Num(handler', Reporting(q))
           = rows[<<q, "DELIVERED">>] + Num(handler, Reporting(q))
<1> DEFINE u == handler[h]
<1>1. /\ u \in HandlerType /\ u.at = "create"
      /\ \E v \in HandlerType :
              /\ Becomes(h, v) /\ Proper(v)
              /\ \/ /\ u.type = "FAILED"
                    /\ v.at = "retryGet" /\ v.r = u.r
                 \/ u.type # "FAILED" /\ v.at = "check"
  BY CreateRowTo
<1>2. PICK v \in HandlerType : Becomes(h, v) /\ Proper(v) /\ v.at # "create"
  BY <1>1
<1>3. rows' = [rows EXCEPT ![<<u.r, u.type>>] = @ + 1]
  BY DEF CreateRow, AddsRow
<1>4. rows \in [Recipients \X Kinds -> Nat] /\ <<q, "DELIVERED">> \in Recipients \X Kinds
  BY Words DEF Typed, Rows
<1>5. Num(handler', Reporting(q)) =
        Num(handler, Reporting(q)) + In(v, Reporting(q)) - In(u, Reporting(q))
  BY <1>2, ReportingCounts
<1> HIDE DEF u
<1>6. /\ In(v, Reporting(q)) = 0
      /\ In(u, Reporting(q)) \in {0, 1}
      /\ In(u, Reporting(q)) = 1 <=> (u.r = q /\ u.type = "DELIVERED")
  BY <1>1, <1>2, InSets
<1>7. CASE u.r = q /\ u.type = "DELIVERED"
  <2>1. rows'[<<q, "DELIVERED">>] = rows[<<q, "DELIVERED">>] + 1
    BY <1>3, <1>4, <1>7
  <2> QED
    BY <1>5, <1>6, <1>7, <2>1, WeightTypes
<1>8. CASE ~(u.r = q /\ u.type = "DELIVERED")
  <2>1. rows'[<<q, "DELIVERED">>] = rows[<<q, "DELIVERED">>]
    BY <1>3, <1>4, <1>8
  <2> QED
    BY <1>5, <1>6, <1>8, <2>1, WeightTypes
<1> QED
  BY <1>7, <1>8

\* Each step leaves the weight of a recipient what it was, or raises it by the two
\* of a new report.
LEMMA KeptHook ==
  ASSUME Typed, NEW k \in Hooks, NEW q \in Recipients,
         Weight(q) >= 2 * reports[q]
  PROVE  /\ \A r \in Recipients, logged, known \in BOOLEAN :
              HandleSESEvent(k, r, logged, known) => Weight(q)' >= 2 * reports'[q]
         /\ FindMail(k) \/ CreateReport(k) \/ EmitReport(k) => Weight(q)' >= 2 * reports'[q]
<1> DEFINE u == hook[k]
<1>0. /\ u \in HookType
      /\ rows[<<q, "DELIVERED">>] \in Nat /\ topic[q] \in Nat /\ reports[q] \in Nat
      /\ Num(hook, Found(q)) \in Nat /\ Num(hook, Written(q)) \in Nat
      /\ Num(handler, Reporting(q)) \in Nat
  BY WeightTypes DEF Typed, Reports
<1>1. ASSUME NEW r \in Recipients, NEW logged \in BOOLEAN, NEW known \in BOOLEAN,
             HandleSESEvent(k, r, logged, known)
      PROVE  Weight(q)' >= 2 * reports'[q]
  <2>1. PICK w \in HookType : /\ HookBecomes(k, w) /\ w.at = "find"
                             /\ w.r = r /\ w.logged = logged /\ w.known = known
    BY <1>1, HandleSESEventTo
  <2>2. /\ u.at = "idle" /\ UNCHANGED <<rows, handler, topic>>
        /\ logged /\ known => reports' = [reports EXCEPT ![r] = @ + 1]
        /\ ~(logged /\ known) => reports' = reports
    BY <1>1 DEF HandleSESEvent, calls
  <2>3. /\ Num(hook', Found(q)) =
             Num(hook, Found(q)) + In(w, Found(q)) - In(u, Found(q))
        /\ Num(hook', Written(q)) =
             Num(hook, Written(q)) + In(w, Written(q)) - In(u, Written(q))
    BY <2>1, HookCounts
  <2> HIDE DEF u
  <2>4. /\ In(u, Found(q)) = 0 /\ In(u, Written(q)) = 0 /\ In(w, Written(q)) = 0
        /\ In(w, Found(q)) \in {0, 1}
        /\ In(w, Found(q)) = 1 <=> (r = q /\ logged /\ known)
    BY <1>0, <2>1, <2>2, InHookSets
  <2>5. /\ In(w, Found(q)) = 1 => reports'[q] = reports[q] + 1
        /\ In(w, Found(q)) = 0 => reports'[q] = reports[q]
    BY <2>2, <2>4 DEF Typed, Reports
  <2> QED
    BY <1>0, <2>2, <2>3, <2>4, <2>5 DEF Weight
<1>2. ASSUME FindMail(k) PROVE Weight(q)' >= 2 * reports'[q]
  <2>1. PICK w \in HookType :
             /\ u.at = "find" /\ HookBecomes(k, w)
             /\ \/ w.at = "create" /\ w.r = u.r /\ w.logged = u.logged /\ w.known = u.known
                \/ ~(u.logged /\ u.known) /\ w = NoReport
    BY <1>2, FindMailTo
  <2>2. UNCHANGED <<rows, handler, topic, reports>>
    BY <1>2 DEF FindMail, calls
  <2>3. /\ Num(hook', Found(q)) =
             Num(hook, Found(q)) + In(w, Found(q)) - In(u, Found(q))
        /\ Num(hook', Written(q)) =
             Num(hook, Written(q)) + In(w, Written(q)) - In(u, Written(q))
    BY <2>1, HookCounts
  <2> HIDE DEF u
  <2>4. /\ In(u, Found(q)) \in {0, 1} /\ In(u, Written(q)) = 0
        /\ In(u, Found(q)) = 1 <=> (u.r = q /\ u.logged /\ u.known)
    BY <1>0, <2>1, InHookSets
  <2>5. /\ In(w, Found(q)) \in {0, 1} /\ In(w, Written(q)) = 0
        /\ In(w, Found(q)) = 1
             <=> (w.at \in {"find", "create"} /\ w.r = q /\ w.logged /\ w.known)
    BY <2>1, RestingHook, InHookSets
  <2>6. In(w, Found(q)) = 1 <=> In(u, Found(q)) = 1
    BY <2>1, <2>4, <2>5, RestingHook
  <2>7. In(w, Found(q)) = In(u, Found(q))
    BY <2>4, <2>5, <2>6
  <2>8. /\ Num(hook', Found(q)) = Num(hook, Found(q))
        /\ Num(hook', Written(q)) = Num(hook, Written(q))
    BY <1>0, <2>3, <2>4, <2>5, <2>7
  <2> QED
    BY <1>0, <2>2, <2>8 DEF Weight
<1>3. ASSUME CreateReport(k) PROVE Weight(q)' >= 2 * reports'[q]
  <2>1. PICK w \in HookType : HookBecomes(k, w) /\ w.at = "emit" /\ w.r = u.r
    BY <1>3, CreateReportTo
  <2>2. /\ u.at = "create" /\ rows' = [rows EXCEPT ![<<u.r, "DELIVERED">>] = @ + 1]
        /\ UNCHANGED <<handler, topic, reports>>
    BY <1>3 DEF CreateReport, AddsRow, calls
  <2>3. /\ Num(hook', Found(q)) =
             Num(hook, Found(q)) + In(w, Found(q)) - In(u, Found(q))
        /\ Num(hook', Written(q)) =
             Num(hook, Written(q)) + In(w, Written(q)) - In(u, Written(q))
    BY <2>1, HookCounts
  <2> HIDE DEF u
  <2>4. /\ In(u, Found(q)) \in {0, 1} /\ (In(u, Found(q)) = 1 => u.r = q)
        /\ In(u, Written(q)) = 0
    BY <1>0, <2>2, InHookSets
  <2>5. /\ In(w, Written(q)) \in {0, 1} /\ (In(w, Written(q)) = 1 <=> u.r = q)
        /\ In(w, Found(q)) = 0
    BY <2>1, InHookSets
  <2>6. /\ u.r = q => rows'[<<q, "DELIVERED">>] = rows[<<q, "DELIVERED">>] + 1
        /\ u.r # q => rows'[<<q, "DELIVERED">>] = rows[<<q, "DELIVERED">>]
    <3>1. rows \in [Recipients \X Kinds -> Nat] /\ <<q, "DELIVERED">> \in Recipients \X Kinds
      BY Words DEF Typed, Rows
    <3> QED
      BY <2>2, <3>1
  <2> QED
    BY <1>0, <2>2, <2>3, <2>4, <2>5, <2>6 DEF Weight
<1>4. ASSUME EmitReport(k) PROVE Weight(q)' >= 2 * reports'[q]
  <2>1. HookBecomes(k, NoReport)
    BY <1>4, EmitReportTo
  <2>2. /\ u.at = "emit" /\ topic' = [topic EXCEPT ![u.r] = @ + 1]
        /\ UNCHANGED <<rows, handler, reports>>
    BY <1>4 DEF EmitReport, calls
  <2>3. /\ Num(hook', Found(q)) =
             Num(hook, Found(q)) + In(NoReport, Found(q)) - In(u, Found(q))
        /\ Num(hook', Written(q)) =
             Num(hook, Written(q)) + In(NoReport, Written(q)) - In(u, Written(q))
    BY <2>1, RestingHook, HookCounts
  <2> HIDE DEF u
  <2>4. /\ In(u, Written(q)) \in {0, 1} /\ (In(u, Written(q)) = 1 <=> u.r = q)
        /\ In(u, Found(q)) = 0
    BY <1>0, <2>2, InHookSets
  <2>5. In(NoReport, Written(q)) = 0 /\ In(NoReport, Found(q)) = 0
    BY RestingHook, InHookSets
  <2>6. /\ u.r = q => topic'[q] = topic[q] + 1
        /\ u.r # q => topic'[q] = topic[q]
    BY <2>2 DEF Typed, Reports
  <2> QED
    BY <1>0, <2>2, <2>3, <2>4, <2>5, <2>6 DEF Weight
<1> QED
  BY <1>1, <1>2, <1>3, <1>4

LEMMA KeptStep == Typed /\ Kept /\ [Next]_vars => Kept'
<1> SUFFICES ASSUME Typed, Kept, [Next]_vars, faults' = 0, NEW q \in Recipients
             PROVE  Weight(q)' >= 2 * reports'[q]
  BY DEF Kept
<1> DEFINE Goal == Weight(q)' >= 2 * reports'[q]
<1>a. /\ rows[<<q, "DELIVERED">>] \in Nat /\ topic[q] \in Nat /\ reports[q] \in Nat
      /\ Num(hook, Found(q)) \in Nat /\ Num(hook, Written(q)) \in Nat
      /\ Num(handler, Reporting(q)) \in Nat
  BY WeightTypes
<1>b. Num(handler', Reporting(q)) \in Nat /\ rows'[<<q, "DELIVERED">>] \in Nat
  <2>1. Typed'
    BY TypeStep
  <2>2. IsFiniteSet(Handlers) /\ handler' \in [Handlers -> HandlerType]
    BY <2>1, EventsAssumption DEF Typed, Calls
  <2>3. Num(handler', Reporting(q)) \in Nat
    BY <2>2, NumType, Zenon
  <2>4. rows'[<<q, "DELIVERED">>] \in Nat
    BY <2>1, Words DEF Typed, Rows
  <2> QED
    BY <2>3, <2>4
<1>1. faults' = faults \/ Fault => Weight(q) >= 2 * reports[q]
  BY Mishap DEF Kept
<1>2. ASSUME UNCHANGED vars PROVE Goal
  BY <1>1, <1>2 DEF vars, webhook, bounds, Weight
<1>3. ASSUME NEW k \in Hooks, HookStep(k) PROVE Goal
  <2>1. ~HookFails(k)
    BY Mishap DEF HookFails
  <2>2. UNCHANGED faults
    BY <1>3, <2>1, Zenon DEF HookStep, HandleSESEvent, FindMail, CreateReport, EmitReport, bounds
  <2> QED
    BY <1>1, <1>3, <2>1, <2>2, KeptHook, Zenon DEF HookStep
<1>4. ASSUME NEW h \in Handlers, CallFails(h) PROVE FALSE
  BY <1>4, Mishap DEF CallFails
<1>5. ASSUME Senders PROVE Goal
  <2>1. /\ UNCHANGED <<handler, hook, topic, reports>> /\ (faults' = faults \/ Fault)
        /\ \E r \in Recipients, kind \in Sending : Adds(r, kind)
    BY <1>5, SenderSteps
  <2>2. rows'[<<q, "DELIVERED">>] = rows[<<q, "DELIVERED">>]
    BY <2>1, AddsOther, Words
  <2> QED
    BY <1>1, <2>1, <2>2 DEF Weight
<1>6. ASSUME NEW h \in Handlers, NEW r \in Recipients, Delivered(h, r) PROVE Goal
  <2>0. "DELIVERED" \in Types /\ Takes(h, r, "DELIVERED")
    BY <1>6, Words DEF Delivered
  <2>1. /\ topic' = [topic EXCEPT ![r] = @ - 1]
        /\ UNCHANGED <<rows, hook, reports, faults>>
    BY <1>6 DEF Delivered, bounds
  <2>2. /\ Num(handler', Reporting(q)) >= Num(handler, Reporting(q))
        /\ q = r => Num(handler', Reporting(q)) = Num(handler, Reporting(q)) + 1
    BY <2>0, KeptTakes
  <2>3. /\ q = r => topic'[q] = topic[q] - 1
        /\ q # r => topic'[q] = topic[q]
    BY <2>1 DEF Typed, Reports
  <2>4. Weight(q) >= 2 * reports[q]
    BY <1>1, <2>1
  <2> QED
    BY <1>a, <1>b, <2>1, <2>2, <2>3, <2>4 DEF Weight
<1>7. ASSUME NEW h \in Handlers, NEW r \in Recipients,
             \/ \E type \in Outcomes : MailEnds(h, r, type)
             \/ \E type \in Types : Redelivered(h, r, type)
      PROVE  Goal
  <2>1. /\ \E type \in Types : Takes(h, r, type)
        /\ UNCHANGED <<rows, hook, topic, reports, faults>>
    BY <1>7, Words DEF MailEnds, Redelivered, bounds, webhook
  <2>2. Num(handler', Reporting(q)) >= Num(handler, Reporting(q))
    BY <2>1, KeptTakes
  <2>3. Weight(q) >= 2 * reports[q]
    BY <1>1, <2>1
  <2> QED
    BY <1>a, <1>b, <2>1, <2>2, <2>3 DEF Weight
<1>8. ASSUME NEW h \in Handlers, CreateRow(h) PROVE Goal
  <2>1. UNCHANGED <<hook, topic, reports, faults>>
    BY <1>8 DEF CreateRow, webhook, bounds
  <2>2. rows'[<<q, "DELIVERED">>] + Num(handler', Reporting(q))
          = rows[<<q, "DELIVERED">>] + Num(handler, Reporting(q))
    BY <1>8, KeptCreateRow
  <2>3. Weight(q) >= 2 * reports[q]
    BY <1>1, <2>1
  <2> QED
    BY <1>a, <1>b, <2>1, <2>2, <2>3 DEF Weight
<1>9. ASSUME NEW h \in Handlers, ReadRetry(h) \/ SetRetry(h) \/ EmitRetry(h) \/ Rest(h)
      PROVE  Goal
  <2>1. UNCHANGED <<rows, hook, topic, reports, faults>>
    BY <1>9, RestTo DEF ReadRetry, SetRetry, EmitRetry, webhook, bounds
  <2>2. /\ handler[h].at # "create"
        /\ \E v \in HandlerType : Becomes(h, v) /\ Proper(v) /\ v.at # "create"
    <3>1. CASE ReadRetry(h)
      BY <3>1, ReadRetryTo
    <3>2. CASE SetRetry(h)
      BY <3>2, SetRetryTo
    <3>3. CASE EmitRetry(h)
      BY <3>3, EmitRetryTo
    <3>4. CASE Rest(h)
      BY <3>4, RestTo DEF Past
    <3> QED
      BY <1>9, <3>1, <3>2, <3>3, <3>4
  <2>3. Num(handler', Reporting(q)) = Num(handler, Reporting(q))
    BY <2>2, KeptCall
  <2>4. Weight(q) >= 2 * reports[q]
    BY <1>1, <2>1
  <2> QED
    BY <2>1, <2>3, <2>4 DEF Weight
<1> HIDE DEF Goal
<1>10. Goal
  BY <1>2, <1>3, <1>4, <1>5, <1>6, <1>7, <1>8, <1>9, Steps, Zenon DEF Takings
<1> QED
  BY <1>10 DEF Goal

\* A report of a known type on a mail that had MailService's row when it came is not
\* lost while no call fails: it has its row, and the one it gets by way of
\* MAIL_EVENT. What is dropped is of another type, or on a mail without that row.
\* (handleSESEvent 20-76)
THEOREM ReportsAreKept == Spec => []ReportsKept
<1>1. Init => Typed /\ Kept
  <2> SUFFICES ASSUME Init PROVE Kept
    BY TypeInit
  <2>1. ASSUME NEW q \in Recipients PROVE Weight(q) >= 2 * reports[q]
    <3>1. reports[q] = 0
      BY DEF Init
    <3>2. Weight(q) \in Nat
      BY TypeInit, WeightTypes DEF Weight
    <3> QED
      BY <3>1, <3>2
  <2> QED
    BY <2>1 DEF Kept
<1>2. Typed /\ Kept /\ [Next]_vars => Typed' /\ Kept'
  BY TypeStep, KeptStep
<1>3. Typed /\ Kept => ReportsKept
  <2> SUFFICES ASSUME Typed, Kept, Quiet, faults = 0, NEW r \in Recipients
               PROVE  rows[<<r, "DELIVERED">>] >= 2 * reports[r]
    BY Zenon DEF ReportsKept
  <2>1. rows[<<r, "DELIVERED">>] \in Nat
    BY WeightTypes
  <2>2. Num(handler, Reporting(r)) = 0 /\ topic[r] = 0
    BY QuietCounts DEF Quiet
  <2>3. Num(hook, Found(r)) = 0 /\ Num(hook, Written(r)) = 0
    <3>1. IsFiniteSet(Hooks) /\ hook \in [Hooks -> HookType]
      BY EventsAssumption DEF Typed, Reports
    <3>2. \A k \in Hooks : hook[k] \notin Found(r) /\ hook[k] \notin Written(r)
      BY DEF Quiet, Found, Written
    <3> QED
      BY <3>1, <3>2, NumType, Zenon
  <2>4. Weight(r) = rows[<<r, "DELIVERED">>]
    BY <2>1, <2>2, <2>3 DEF Weight
  <2> QED
    BY <2>4 DEF Kept
<1> QED
  BY <1>1, <1>2, <1>3, PTL DEF Spec

(***************************************************************************)
(* The end of the campaign                                                 *)
(***************************************************************************)

\* The rows that checkCampaignCompletion counts, and the recipients.
Row == Recipients \X Counted
N == Cardinality(Recipients)

LEMMA Three == ASSUME NEW a, NEW b, NEW c PROVE IsFiniteSet({a, b, c})
<1>1. IsFiniteSet({a})
  BY FS_Singleton
<1>2. IsFiniteSet({a} \union {b})
  BY <1>1, FS_AddElement
<1>3. IsFiniteSet(({a} \union {b}) \union {c})
  BY <1>2, FS_AddElement
<1>4. {a, b, c} = ({a} \union {b}) \union {c}
  OBVIOUS
<1> QED
  BY <1>3, <1>4

LEMMA Finite ==
  /\ IsFiniteSet(Recipients) /\ IsFiniteSet(Counted) /\ IsFiniteSet(Row)
  /\ N \in Nat \ {0} /\ Counted \subseteq Kinds
<1>1. IsFiniteSet(Recipients) /\ Recipients # {}
  BY EventsAssumption
<1>2. IsFiniteSet(Counted)
  <2>1. IsFiniteSet({"SENT", "FAILED", "REJECTED"})
    BY Three
  <2>2. IsFiniteSet({"mailSent", "taskSent", "taskFailed"})
    BY Three
  <2> QED
    BY <2>1, <2>2, FS_Union DEF Counted, Outcomes, Sending
<1>3. IsFiniteSet(Row)
  BY <1>1, <1>2, FS_Product DEF Row
<1>4. N \in Nat /\ N # 0
  BY <1>1, FS_CardinalityType, FS_EmptySet DEF N
<1>5. Counted \subseteq Kinds
  BY Words
<1> QED
  BY <1>1, <1>2, <1>3, <1>4, <1>5

\* The count is made of what each recipient has.
LEMMA CountByRecipient ==
  ASSUME Rows
  PROVE  /\ \A r \in Recipients : Events(r) \in Nat
         /\ CountOf(Row) \in Nat
         /\ CountOf(Row) = Total([r \in Recipients |-> Events(r)], Recipients)
<1>1. \A x \in Recipients \X Counted : rows[x] \in Nat
  BY Finite DEF Rows
<1>2. /\ \A r \in Recipients : Total(rows, {r} \X Counted) \in Nat
      /\ Total(rows, Recipients \X Counted)
           = Total([r \in Recipients |-> Total(rows, {r} \X Counted)], Recipients)
  BY <1>1, Finite, SumRows
<1>3. \A e : CountOf(e) = Total(rows, e)
  BY DEF CountOf, Total
<1>4. \A r \in Recipients : Events(r) = Total(rows, {r} \X Counted)
  BY <1>3 DEF Events
<1>5. [r \in Recipients |-> Events(r)] = [r \in Recipients |-> Total(rows, {r} \X Counted)]
  BY <1>4
<1>6. CountOf(Row) = Total(rows, Recipients \X Counted)
  BY <1>3 DEF Row
<1>7. CountOf(Row) \in Nat
  <2>1. IsFiniteSet(Recipients \X Counted)
    BY Finite DEF Row
  <2> QED
    BY <1>1, <1>6, <2>1, SumRemove
<1> QED
  BY <1>2, <1>4, <1>5, <1>6, <1>7

\* As many rows as recipients: each has one, or one of them has two.
LEMMA Pigeonhole ==
  ASSUME Rows
  PROVE  CountOf(Row) >= N => \/ \A r \in Recipients : Events(r) > 0
                              \/ \E r \in Recipients : Events(r) > 1
<1> DEFINE f == [r \in Recipients |-> Events(r)]
           one == [r \in Recipients |-> 1]
<1>1. /\ \A r \in Recipients : f[r] = Events(r) /\ f[r] \in Nat
      /\ CountOf(Row) \in Nat /\ CountOf(Row) = Total(f, Recipients)
  BY CountByRecipient
<1>2. \A r \in Recipients : one[r] = 1
  OBVIOUS
<1> HIDE DEF f, one
<1>3. Total(one, Recipients) = N
  BY <1>2, Finite, SumOnes DEF N
<1>4. ASSUME NEW r \in Recipients, ~(Events(r) > 0), \A q \in Recipients : ~(Events(q) > 1)
      PROVE  CountOf(Row) < N
  <2>1. \A q \in Recipients : f[q] \in Nat /\ one[q] \in Nat /\ f[q] <= one[q]
    BY <1>1, <1>2, <1>4
  <2>2. f[r] < one[r]
    BY <1>1, <1>2, <1>4
  <2>3. Total(f, Recipients) < Total(one, Recipients)
    BY <2>1, <2>2, Finite, SumAtMost
  <2> QED
    BY <1>1, <1>3, <2>3
<1> QED
  BY <1>1, <1>4, Finite

\* What a row does to the count.
LEMMA RowCounts ==
  ASSUME Rows, NEW r \in Recipients, NEW kind \in Kinds, AddsRow(r, kind)
  PROVE  /\ kind \in Counted => CountOf(Row)' = CountOf(Row) + 1
         /\ kind \notin Counted => CountOf(Row)' = CountOf(Row)
<1> DEFINE e == <<r, kind>>
<1>0. CountOf(Row) = Total(rows, Row) /\ CountOf(Row)' = Total(rows', Row)
  BY DEF CountOf, Total, Row
<1>1. /\ rows \in [Recipients \X Kinds -> Nat] /\ e \in Recipients \X Kinds
      /\ rows' = [rows EXCEPT ![e] = @ + 1]
  BY DEF Rows, AddsRow
<1>2. Row \subseteq Recipients \X Kinds /\ IsFiniteSet(Row)
  BY Finite DEF Row
<1>3. e \in Row <=> kind \in Counted
  BY DEF Row
<1> HIDE DEF e
<1>4. \A x \in Row : rows[x] \in Nat
  BY <1>1, <1>2
<1>5. CASE e \in Row
  <2>1. \A x \in Row \ {e} : rows'[x] = rows[x]
    BY <1>1, <1>2
  <2>2. rows'[e] = rows[e] + 1 /\ rows[e] \in Nat
    BY <1>1
  <2>3. /\ Total(rows, Row) \in Nat /\ Total(rows', Row) \in Nat
        /\ Total(rows', Row) + rows[e] = Total(rows, Row) + rows'[e]
    BY <1>2, <1>4, <1>5, <2>1, <2>2, SumChange
  <2> QED
    BY <1>0, <1>3, <1>5, <2>2, <2>3
<1>6. CASE e \notin Row
  <2>1. \A x \in Row : rows'[x] = rows[x]
    BY <1>1, <1>2, <1>6
  <2>2. Total(rows', Row) = Total(rows, Row)
    BY <1>2, <2>1, SumSame
  <2> QED
    BY <1>0, <1>3, <1>6, <2>2
<1> QED
  BY <1>5, <1>6

\* What a step does to the count: the row of an event adds one, or a sender's, which
\* leaves it unchecked; a report adds none.
LEMMA CountStep ==
  ASSUME Typed, [Next]_vars
  PROVE  \/ CountOf(Row)' = CountOf(Row)
         \/ /\ CountOf(Row)' = CountOf(Row) + 1
            /\ (\E h \in Handlers : CreateRow(h)) \/ unchecked' = TRUE
<1>0. Rows
  BY DEF Typed
<1>1. ASSUME UNCHANGED rows PROVE CountOf(Row)' = CountOf(Row)
  BY <1>1 DEF CountOf, Row
<1>2. ASSUME NEW r \in Recipients, NEW kind \in Kinds, AddsRow(r, kind)
      PROVE  CountOf(Row)' = CountOf(Row) \/ CountOf(Row)' = CountOf(Row) + 1
  BY <1>0, <1>2, RowCounts
<1>3. CASE UNCHANGED vars
  BY <1>1, <1>3 DEF vars
<1>4. CASE Senders
  <2>1. PICK r \in Recipients, kind \in Sending : Adds(r, kind)
    BY <1>4, SenderSteps
  <2>2. kind \in Kinds
    BY Words
  <2> QED
    BY <1>1, <1>2, <2>1, <2>2 DEF Adds
<1>5. ASSUME NEW k \in Hooks, HookStep(k) PROVE CountOf(Row)' = CountOf(Row)
  <2>1. CASE CreateReport(k)
    <3>1. hook[k].r \in Recipients /\ AddsRow(hook[k].r, "DELIVERED")
      BY <2>1, CreateReportTo DEF CreateReport
    <3> QED
      BY <1>0, <3>1, RowCounts, Words
  <2>2. CASE ~CreateReport(k)
    <3>1. UNCHANGED rows
      BY <1>5, <2>2, Zenon DEF HookStep, HandleSESEvent, FindMail, EmitReport, HookFails
    <3> QED
      BY <1>1, <3>1
  <2> QED
    BY <2>1, <2>2
<1>6. ASSUME NEW h \in Handlers, CreateRow(h)
      PROVE  CountOf(Row)' = CountOf(Row) \/ CountOf(Row)' = CountOf(Row) + 1
  <2>1. AddsRow(handler[h].r, handler[h].type)
    BY <1>6 DEF CreateRow
  <2>2. handler[h].r \in Recipients /\ handler[h].type \in Kinds
    BY Words DEF Typed, Calls, HandlerType
  <2> QED
    BY <1>2, <2>1, <2>2
<1>7. ASSUME NEW h \in Handlers,
             \/ Takings(h) \/ ReadRetry(h) \/ SetRetry(h) \/ EmitRetry(h)
             \/ Rest(h) \/ CallFails(h)
      PROVE  UNCHANGED rows
  BY <1>7, TakingsTo, RestTo DEF ReadRetry, SetRetry, EmitRetry, CallFails
<1> QED
  BY <1>1, <1>3, <1>4, <1>5, <1>6, <1>7, Steps, Zenon

\* A campaign that is completed, or about to be, had as many events as recipients;
\* no event is ever taken back.
Enough ==
  status = "COMPLETED" \/ (\E h \in Handlers : handler[h].at \in {"complete", "copy"})
    => CountOf(Row) >= N

LEMMA CountBecomes ==
  ASSUME Typed, Typed', [Next]_vars
  PROVE  CountOf(Row) \in Nat /\ CountOf(Row)' \in Nat /\ CountOf(Row)' >= CountOf(Row)
<1>1. CountOf(Row) \in Nat
  BY CountByRecipient DEF Typed
<1>2. CountOf(Row)' = CountOf(Row) \/ CountOf(Row)' = CountOf(Row) + 1
  BY CountStep, Zenon
<1> QED
  BY <1>1, <1>2

LEMMA EnoughStep == Typed /\ Enough /\ [Next]_vars => Enough'
<1> SUFFICES ASSUME Typed, Enough, [Next]_vars PROVE Enough'
  OBVIOUS
<1>1. Typed'
  BY TypeStep
<1>2. CountOf(Row) \in Nat /\ CountOf(Row)' \in Nat /\ CountOf(Row)' >= CountOf(Row)
  BY <1>1, CountBecomes
<1>3. UNCHANGED N
  BY DEF N
<1> DEFINE Told == status = "COMPLETED" \/ \E g \in Handlers : handler[g].at \in {"complete", "copy"}
<1>4. ASSUME Told \/ ~Told' PROVE Enough'
  BY <1>2, <1>3, <1>4, Finite DEF Enough
<1>5. ASSUME UNCHANGED <<handler, status>> PROVE Enough'
  BY <1>4, <1>5
<1>6. ASSUME UNCHANGED status, NEW h \in Handlers, NEW v \in HandlerType, Becomes(h, v), Proper(v),
             v.at \notin {"complete", "copy"}
      PROVE  Enough'
  <2>1. handler'[h] = v /\ \A g \in Handlers \ {h} : handler'[g] = handler[g]
    BY <1>6, CallMoves DEF Typed
  <2> QED
    BY <1>4, <1>6, <2>1
<1> HIDE DEF Told
<1>7. ASSUME \/ UNCHANGED vars \/ Senders
             \/ \E k \in Hooks : HookStep(k)
      PROVE  Enough'
  <2>1. UNCHANGED <<handler, status>>
    BY <1>7, SenderSteps, HookLeaves, Zenon DEF vars, campaign
  <2> QED
    BY <1>5, <2>1
<1>8. ASSUME NEW h \in Handlers, Takings(h) PROVE Enough'
  <2>1. /\ \E r \in Recipients, type \in Types : Takes(h, r, type)
        /\ UNCHANGED status
    BY <1>8, TakingsTo
  <2>2. PICK v \in HandlerType : Becomes(h, v) /\ Proper(v) /\ v.at = "create"
    BY <2>1, TakesTo
  <2> QED
    BY <1>6, <2>1, <2>2
<1>9. ASSUME NEW h \in Handlers,
             CreateRow(h) \/ ReadRetry(h) \/ SetRetry(h) \/ EmitRetry(h) \/ CallFails(h)
      PROVE  Enough'
  <2>1. UNCHANGED status
    BY <1>9 DEF CreateRow, ReadRetry, SetRetry, EmitRetry, CallFails, campaign
  <2>2. \E v \in HandlerType : Becomes(h, v) /\ Proper(v) /\ v.at \notin {"complete", "copy"}
    <3>1. CASE CreateRow(h)
      BY <3>1, CreateRowTo
    <3>2. CASE ReadRetry(h)
      BY <3>2, ReadRetryTo
    <3>3. CASE SetRetry(h)
      BY <3>3, SetRetryTo
    <3>4. CASE EmitRetry(h)
      BY <3>4, EmitRetryTo
    <3>5. CASE CallFails(h)
      BY <3>5, EndsTo, Resting DEF CallFails
    <3> QED
      BY <1>9, <3>1, <3>2, <3>3, <3>4, <3>5
  <2> QED
    BY <1>6, <2>1, <2>2
<1>10. ASSUME NEW h \in Handlers, CheckCampaignCompletion(h) PROVE Enough'
  <2>1. CASE CountOf(Row) = N
    <3>1. CountOf(Row)' >= N
      BY <1>2, <2>1, Finite
    <3> QED
      BY <1>3, <3>1 DEF Enough
  <2>2. CASE CountOf(Row) # N
    <3>1. Ends(h) /\ UNCHANGED status
      BY <1>10, <2>2 DEF CheckCampaignCompletion, Row, N, campaign
    <3> QED
      BY <1>6, <3>1, EndsTo, Resting
  <2> QED
    BY <2>1, <2>2
<1>11. ASSUME NEW h \in Handlers, Complete(h) \/ CopyStatus(h) PROVE Enough'
  <2>1. handler[h].at \in {"complete", "copy"}
    BY <1>11 DEF Complete, CopyStatus
  <2> QED
    BY <1>4, <2>1 DEF Told
<1> QED
  BY <1>7, <1>8, <1>9, <1>10, <1>11, Steps, Zenon DEF Rest

\* checkCampaignCompletion compares the number of rows with that of recipients,
\* whosever they are: a campaign that ends before each recipient has one ends
\* because another had two. (447-457)
THEOREM EarlyCompletionNeedsARetry == Spec => []EarlyCompletionHasCause
<1>1. Init => Typed /\ Enough
  <2> SUFFICES ASSUME Init PROVE Enough
    BY TypeInit
  <2>1. status = "SENDING" /\ \A h \in Handlers : handler[h].at = "idle"
    BY CallsStart, Resting DEF Init
  <2> QED
    BY <2>1 DEF Enough
<1>2. Typed /\ Enough /\ [Next]_vars => Typed' /\ Enough'
  BY TypeStep, EnoughStep
<1>3. Typed /\ Enough => EarlyCompletionHasCause
  BY Pigeonhole DEF Typed, Enough, EarlyCompletionHasCause
<1> QED
  BY <1>1, <1>2, <1>3, PTL DEF Spec

-----------------------------------------------------------------------------
(* The count is full                                                       *)

\* With as many rows as recipients a call is on its way to the check and beyond, or
\* has ended the campaign, or a sender wrote the last row and nobody looked since.
Ending ==
  faults = 0 /\ CountOf(Row) = N =>
    \/ unchecked
    \/ status = "COMPLETED" /\ copy = "COMPLETED"
    \/ \E h \in Handlers : handler[h].at \notin {"idle", "create"}

\* The copy is written after the campaign itself.
CopyAfter == \A h \in Handlers : handler[h].at = "copy" => status = "COMPLETED"

LEMMA CopyAfterStep == Typed /\ CopyAfter /\ [Next]_vars => CopyAfter'
<1> SUFFICES ASSUME Typed, CopyAfter, [Next]_vars PROVE CopyAfter'
  OBVIOUS
<1>1. ASSUME UNCHANGED <<handler, status>> PROVE CopyAfter'
  BY <1>1 DEF CopyAfter
<1>2. ASSUME NEW h \in Handlers, NEW v \in HandlerType, Becomes(h, v), Proper(v),
             status' = status \/ status' = "COMPLETED",
             v.at = "copy" => status' = "COMPLETED"
      PROVE  CopyAfter'
  <2>1. handler'[h] = v /\ \A g \in Handlers \ {h} : handler'[g] = handler[g]
    BY <1>2, CallMoves DEF Typed
  <2> QED
    BY <1>2, <2>1 DEF CopyAfter
<1>3. ASSUME \/ UNCHANGED vars \/ Senders
             \/ \E k \in Hooks : HookStep(k)
      PROVE  CopyAfter'
  <2>1. UNCHANGED <<handler, status>>
    BY <1>3, SenderSteps, HookLeaves, Zenon DEF vars, campaign
  <2> QED
    BY <1>1, <2>1
<1>4. ASSUME NEW h \in Handlers, Takings(h) PROVE CopyAfter'
  <2>1. /\ \E r \in Recipients, type \in Types : Takes(h, r, type)
        /\ UNCHANGED status
    BY <1>4, TakingsTo
  <2>2. PICK v \in HandlerType : Becomes(h, v) /\ Proper(v) /\ v.at = "create"
    BY <2>1, TakesTo
  <2> QED
    BY <1>2, <2>1, <2>2
<1>5. ASSUME NEW h \in Handlers,
             \/ CreateRow(h) \/ ReadRetry(h) \/ SetRetry(h) \/ EmitRetry(h)
             \/ CheckCampaignCompletion(h) \/ CopyStatus(h) \/ CallFails(h)
      PROVE  CopyAfter'
  <2>1. UNCHANGED status
    BY <1>5 DEF CreateRow, ReadRetry, SetRetry, EmitRetry, CheckCampaignCompletion,
       CopyStatus, CallFails, campaign
  <2>2. \E v \in HandlerType : Becomes(h, v) /\ Proper(v) /\ v.at # "copy"
    <3>1. CASE CreateRow(h)
      BY <3>1, CreateRowTo
    <3>2. CASE ReadRetry(h)
      BY <3>2, ReadRetryTo
    <3>3. CASE SetRetry(h)
      BY <3>3, SetRetryTo
    <3>4. CASE EmitRetry(h)
      BY <3>4, EmitRetryTo
    <3>5. CASE CopyStatus(h) \/ CallFails(h)
      BY <3>5, EndsTo, Resting DEF CopyStatus, CallFails
    <3>6. CASE CheckCampaignCompletion(h)
      <4>1. CASE Ends(h)
        BY <4>1, EndsTo, Resting
      <4>2. CASE Moves(h, "complete")
        BY <4>2, MovesTo DEF Typed, Proper
      <4> QED
        BY <3>6, <4>1, <4>2 DEF CheckCampaignCompletion
    <3> QED
      BY <1>5, <3>1, <3>2, <3>3, <3>4, <3>5, <3>6
  <2> QED
    BY <1>2, <2>1, <2>2
<1>6. ASSUME NEW h \in Handlers, Complete(h) PROVE CopyAfter'
  <2>1. status' = "COMPLETED"
    BY <1>6 DEF Complete
  <2> QED
    BY <2>1 DEF CopyAfter
<1> QED
  BY <1>3, <1>4, <1>5, <1>6, Steps, Zenon DEF Rest

LEMMA EndingStep == Typed /\ CopyAfter /\ Ending /\ [Next]_vars => Ending'
<1> SUFFICES ASSUME Typed, CopyAfter, Ending, [Next]_vars, faults' = 0, CountOf(Row)' = N
             PROVE  \/ unchecked'
                    \/ status' = "COMPLETED" /\ copy' = "COMPLETED"
                    \/ \E h \in Handlers : handler'[h].at \notin {"idle", "create"}
  BY DEF Ending, N
<1> DEFINE Goal == \/ unchecked'
                   \/ status' = "COMPLETED" /\ copy' = "COMPLETED"
                   \/ \E h \in Handlers : handler'[h].at \notin {"idle", "create"}
\* One that is past its row is a witness.
<1>1. ASSUME NEW h \in Handlers, NEW v \in HandlerType, Becomes(h, v), Proper(v),
             v.at \notin {"idle", "create"}
      PROVE  Goal
  <2>1. handler'[h] = v
    BY <1>1, CallMoves DEF Typed
  <2> QED
    BY <1>1, <2>1
\* So is the one there was, unless it is the one that moves.
<1>2. ASSUME UNCHANGED <<status, copy>>, unchecked' = unchecked \/ unchecked',
             faults' = faults \/ Fault, CountOf(Row)' = CountOf(Row),
             \A g \in Handlers : handler'[g] # handler[g] => handler[g].at \in {"idle", "create"}
      PROVE  Goal
  <2>1. \/ unchecked
        \/ status = "COMPLETED" /\ copy = "COMPLETED"
        \/ \E h \in Handlers : handler[h].at \notin {"idle", "create"}
    BY <1>2, Mishap DEF Ending
  <2> QED
    BY <1>2, <2>1
<1>a. ASSUME unchecked' PROVE Goal
  BY <1>a
<1>3. \/ CountOf(Row)' = CountOf(Row) \/ unchecked'
      \/ \E h \in Handlers : CreateRow(h)
  BY CountStep, Zenon
<1> HIDE DEF Goal
<1>4. ASSUME NEW h \in Handlers, CreateRow(h) PROVE Goal
  BY <1>1, <1>4, CreateRowTo
<1>5. ASSUME NEW h \in Handlers, ReadRetry(h) \/ SetRetry(h) \/ EmitRetry(h) PROVE Goal
  BY <1>1, <1>5, ReadRetryTo, SetRetryTo, EmitRetryTo
<1>6. ASSUME \/ UNCHANGED vars \/ Senders
             \/ \E k \in Hooks : HookStep(k)
      PROVE  Goal
  <2>1. UNCHANGED <<handler, status, copy>>
    BY <1>6, SenderSteps, HookLeaves, Zenon DEF vars, campaign
  <2>2. (unchecked' = unchecked \/ unchecked') /\ (faults' = faults \/ Fault)
    <3>1. CASE UNCHANGED vars
      BY <3>1 DEF vars, bounds
    <3>2. CASE Senders
      BY <3>2, SenderSteps DEF Adds
    <3>3. ASSUME NEW k \in Hooks, HookStep(k)
          PROVE  UNCHANGED unchecked /\ (faults' = faults \/ Fault)
      BY <3>3, HookLeaves, Zenon DEF HookStep, HandleSESEvent, FindMail, CreateReport,
         EmitReport, HookFails, bounds
    <3> QED
      BY <1>6, <3>1, <3>2, <3>3
  <2> QED
    BY <1>2, <1>3, <1>4, <1>a, <2>1, <2>2
<1>7. ASSUME NEW h \in Handlers, Takings(h) PROVE Goal
  <2>1. /\ \E r \in Recipients, type \in Types : Takes(h, r, type)
        /\ UNCHANGED <<status, copy, unchecked, faults>>
    BY <1>7, TakingsTo
  <2>2. /\ handler[h].at = "idle"
        /\ \E v \in HandlerType : Becomes(h, v) /\ Proper(v)
    BY <2>1, TakesTo
  <2>3. \A g \in Handlers \ {h} : handler'[g] = handler[g]
    BY <2>2, CallMoves DEF Typed
  <2> QED
    BY <1>2, <1>3, <1>4, <1>a, <2>1, <2>2, <2>3
<1>8. ASSUME NEW h \in Handlers, CheckCampaignCompletion(h) PROVE Goal
  <2>1. CountOf(Row)' = CountOf(Row)
    BY <1>8 DEF CheckCampaignCompletion, CountOf, Row
  <2>2. Moves(h, "complete")
    BY <1>8, <2>1 DEF CheckCampaignCompletion, Row, N
  <2>3. PICK v \in HandlerType : Becomes(h, v) /\ v.at = "complete"
    BY <2>2, MovesTo DEF Typed
  <2>4. Proper(v)
    BY <2>3 DEF Proper
  <2> QED
    BY <1>1, <2>3, <2>4
<1>9. ASSUME NEW h \in Handlers, Complete(h) PROVE Goal
  <2>1. Moves(h, "copy")
    BY <1>9 DEF Complete
  <2>2. PICK v \in HandlerType : Becomes(h, v) /\ v.at = "copy"
    BY <2>1, MovesTo DEF Typed
  <2>3. Proper(v)
    BY <2>2 DEF Proper
  <2> QED
    BY <1>1, <2>2, <2>3
<1>10. ASSUME NEW h \in Handlers, CopyStatus(h) PROVE Goal
  <2>1. copy' = "COMPLETED" /\ status' = "COMPLETED"
    BY <1>10 DEF CopyStatus, CopyAfter
  <2> QED
    BY <2>1 DEF Goal
<1>11. ASSUME NEW h \in Handlers, CallFails(h) PROVE FALSE
  BY <1>11, Mishap DEF CallFails
<1>12. Goal
  BY <1>4, <1>5, <1>6, <1>7, <1>8, <1>9, <1>10, <1>11, Steps, Zenon DEF Rest
<1> QED
  BY <1>12 DEF Goal

\* When the rows are as many as the recipients and nobody is at work, the campaign is
\* completed, in the database and in Redis, or a sender wrote the last of them and
\* nobody looked since: of the calls that overlap, the one whose row makes the number
\* full finds it so, or another does. (382-397, 425-463)
THEOREM FullCountIsSeen == Spec => []FullCountCompletes
<1>1. Init => Typed /\ CopyAfter /\ Ending
  <2> SUFFICES ASSUME Init PROVE CopyAfter /\ Ending
    BY TypeInit
  <2>1. \A h \in Handlers : handler[h].at = "idle"
    BY CallsStart, Resting
  <2>2. CountOf(Row) # N
    <3>1. Row \subseteq Recipients \X Kinds
      BY Finite DEF Row
    <3>2. \A x \in Row : rows[x] = 0
      BY <3>1 DEF Init
    <3>3. Total(rows, Row) = 0
      BY <3>2, Finite, SumZero
    <3> QED
      BY <3>3, Finite DEF CountOf, Total
  <2> QED
    BY <2>1, <2>2 DEF CopyAfter, Ending
<1>2. Typed /\ CopyAfter /\ Ending /\ [Next]_vars => Typed' /\ CopyAfter' /\ Ending'
  BY TypeStep, CopyAfterStep, EndingStep
<1>3. Typed /\ Ending => FullCountCompletes
  BY Zenon DEF Ending, FullCountCompletes, Quiet, Row, N
<1> QED
  BY <1>1, <1>2, <1>3, PTL DEF Spec
=============================================================================
