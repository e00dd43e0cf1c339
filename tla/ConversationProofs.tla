-------------------------- MODULE ConversationProofs --------------------------
(***************************************************************************)
(* Theorems about the conversation: what a request to the model holds and  *)
(* why one is refused (ModelContext), for any calls, any budgets and       *)
(* sessions of any length; and what LoadTail returns of a session's file   *)
(* (SessionFile), for any messages, chunks and budgets.                    *)
(***************************************************************************)
EXTENDS ModelContext, SessionFile, SequenceTheorems, WellFoundedInduction, TLAPS

Message == [role : {"system", "user", "assistant", "tool"}, text : Seq(Nat),
            calls : SUBSET Calls, result : {<<>>} \cup (Calls \X Nat)]

\* Made of one message: a result is of the tool role and has that message's number.
Plain(m) ==
    /\ m \in Message /\ Len(m.text) = 1
    /\ IsResult(m) <=> m.role = "tool"
    /\ IsResult(m) => m.calls = {} /\ m.result[2] = m.text[1]

Stored == {m \in Message : Plain(m) /\ m.role # "system"}

TypeInv ==
    /\ file \in Seq(Stored) /\ history \in Seq(Stored) /\ memory \in Seq(Stored)
    /\ toolRole \in BOOLEAN /\ failures \in Nat
    /\ todo \in SUBSET Calls

Normalized == Normalize(BuildContext, toolRole)

\* What was made of the context for the request in hand.
RequestInv ==
    /\ pc = "asked" => /\ payload = Payload(Normalized, toolRole)
                       /\ ValidateRoles => Valid(Normalized, toolRole)
    /\ pc = "refused" => ~Valid(Normalized, toolRole)

\* The newest assistant message of the first n of s makes the calls S.
CalledBefore(s, n, S) ==
    \E a \in 1 .. n :
        /\ s[a].role = "assistant" /\ S \subseteq s[a].calls
        /\ \A k \in a + 1 .. n : s[k].role # "assistant"

\* A result is behind the calls, a result or the message of a skill, and is for one of
\* the newest calls.
Backed(s, skills, f) ==
    IsResult(s[f]) =>
        /\ f > 1 /\ (ExpectsResult(s[f - 1]) \/ s[f - 1].text[1] \in skills)
        /\ CalledBefore(s, f - 1, {s[f].result[1]})

\* The number of a message is its place.
Numbered(s) == \A n \in 1 .. Len(s) : s[n].text[1] = n

FileInv == Numbered(file) /\ \A f \in 1 .. Len(file) : Backed(file, skillMsgs, f)

\* While calls are due the file ends with them or with the results of others.
Due(s, S) == Len(s) > 0 /\ ExpectsResult(s[Len(s)]) /\ CalledBefore(s, Len(s), S)

TurnInv == pc \in {"collect", "tools"} => Due(file, todo)

\* Messages of s, in their order.
Chosen(h, s) ==
    \A k \in 1 .. Len(h) :
        /\ h[k].text[1] \in 1 .. Len(s) /\ s[h[k].text[1]] = h[k]
        /\ \A q \in 1 .. k - 1 : h[q].text[1] < h[k].text[1]

\* The same of a context c, but for the system message.
Picked(c, s) ==
    \A k \in 2 .. Len(c) :
        /\ c[k].text[1] \in 1 .. Len(s) /\ s[c[k].text[1]] = c[k]
        /\ \A q \in 2 .. k - 1 : c[q].text[1] < c[k].text[1]

PickedInv == Picked(BuildContext, file)

ContextInv == failures = 0 => FileInv /\ TurnInv /\ PickedInv

-----------------------------------------------------------------------------
(* Induction and iteration. The library's theorems on these take an operator as a *)
(* parameter; here the induction is over a set and the iteration over a function, *)
(* which the provers can instantiate.                                             *)

LEMMA HasLeast ==
  ASSUME NEW T \in SUBSET Nat, T # {}
  PROVE  \E t \in T : \A y \in T : t <= y
<1>1. \E t \in T : \A y \in T : <<y, t>> \notin OpToRel(<, Nat)
  BY WFMin, NatLessThanWellFounded, Zenon
<1>2. PICK t \in T : \A y \in T : <<y, t>> \notin OpToRel(<, Nat)
  BY <1>1
<1>3. \A y \in T : ~ (y < t)
  BY <1>2, Zenon DEF OpToRel
<1>4. QED
  BY <1>3

LEMMA Induction ==
  ASSUME NEW P \in SUBSET Nat, 0 \in P, \A n \in P : n + 1 \in P
  PROVE  P = Nat
<1> DEFINE T == Nat \ P
<1> SUFFICES ASSUME T # {} PROVE FALSE
  OBVIOUS
<1>1. PICK t \in T : \A y \in T : t <= y
  BY HasLeast
<1>2. t # 0 /\ t - 1 \in Nat /\ t - 1 \notin T
  BY <1>1
<1>3. t - 1 + 1 \in P
  BY <1>2
<1>4. QED
  BY <1>1, <1>3

\* A loop whose round n goes from s to F[n][s], and the states g it computes from b.
Loops(S) == [Nat -> [S -> S]]
Computes(g, F, b) == g[0] = b /\ \A n \in Nat : g[n + 1] = F[n][g[n]]

LEMMA Iteration ==
  ASSUME NEW S, NEW F \in Loops(S), NEW b \in S
  PROVE  \E g \in [Nat -> S] : Computes(g, F, b)
<1> USE DEF Loops, Computes
<1> DEFINE Rounds(n) == {h \in [0 .. n -> S] : h[0] = b /\ \A i \in 0 .. n - 1 : h[i + 1] = F[i][h[i]]}
           P == {n \in Nat : Rounds(n) # {}}
<1>1. P = Nat
  <2>1. 0 \in P
    <3>1. [i \in 0 .. 0 |-> b] \in Rounds(0)
      OBVIOUS
    <3>2. QED
      BY <3>1
  <2>2. ASSUME NEW n \in P PROVE n + 1 \in P
    <3>1. PICK h : h \in Rounds(n)
      BY <2>2
    <3> DEFINE k == [i \in 0 .. n + 1 |-> IF i = n + 1 THEN F[n][h[n]] ELSE h[i]]
    <3>2. h \in [0 .. n -> S] /\ n \in 0 .. n /\ h[0] = b
          /\ \A i \in 0 .. n - 1 : h[i + 1] = F[i][h[i]]
      BY <3>1
    <3>3. k \in [0 .. n + 1 -> S]
      <4>1. F[n] \in [S -> S] /\ h[n] \in S
        BY <3>2
      <4>2. QED
        BY <3>2, <4>1
    <3>4. k[0] = b
      BY <3>2
    <3>5. ASSUME NEW i \in 0 .. n PROVE k[i + 1] = F[i][k[i]]
      <4>1. CASE i = n
        BY <4>1
      <4>2. CASE i # n
        <5>1. i \in 0 .. n - 1 /\ i + 1 \in 0 .. n + 1 /\ i + 1 # n + 1
          BY <4>2
        <5>2. k[i + 1] = h[i + 1] /\ k[i] = h[i]
          BY <4>2, <5>1
        <5>3. QED
          BY <3>2, <5>1, <5>2
      <4>3. QED
        BY <4>1, <4>2
    <3> HIDE DEF k
    <3>6. k \in Rounds(n + 1)
      BY <3>3, <3>4, <3>5
    <3>7. QED
      BY <3>6
  <2> HIDE DEF P
  <2>3. P \in SUBSET Nat
    BY DEF P
  <2>4. QED
    BY <2>1, <2>2, <2>3, Induction
<1>2. ASSUME NEW n \in Nat, NEW h \in Rounds(n), NEW m \in Nat, NEW k \in Rounds(m), NEW j \in Nat,
             j <= n, j <= m
      PROVE  h[j] = k[j]
  <2> DEFINE Q == {i \in Nat : i <= n /\ i <= m => h[i] = k[i]}
  <2>1. 0 \in Q
    OBVIOUS
  <2>2. ASSUME NEW i \in Q, i + 1 <= n, i + 1 <= m PROVE h[i + 1] = k[i + 1]
    <3>1. i \in 0 .. n - 1 /\ i \in 0 .. m - 1 /\ h[i] = k[i]
      BY <2>2
    <3>2. QED
      BY <3>1
  <2>3. \A i \in Q : i + 1 \in Q
    BY <2>2
  <2> HIDE DEF Q
  <2>4. Q \in SUBSET Nat
    BY DEF Q
  <2>5. Q = Nat
    BY <2>1, <2>3, <2>4, Induction
  <2>6. QED
    BY <1>2, <2>5 DEF Q
<1> DEFINE R == [n \in Nat |-> CHOOSE h : h \in Rounds(n)]
           g == [n \in Nat |-> R[n][n]]
<1>3. ASSUME NEW n \in Nat PROVE R[n] \in Rounds(n)
  BY <1>1
<1>4. ASSUME NEW n \in Nat, NEW h \in Rounds(n)
      PROVE  h \in [0 .. n -> S] /\ h[0] = b /\ \A i \in 0 .. n - 1 : h[i + 1] = F[i][h[i]]
  OBVIOUS
<1>5. \A n \in Nat : g[n] = R[n][n]
  OBVIOUS
<1> HIDE DEF Rounds, R, g
<1>6. \A n \in Nat : g[n] \in S
  <2>1. ASSUME NEW n \in Nat PROVE R[n][n] \in S
    BY <1>3, <1>4
  <2>2. QED
    BY <2>1, <1>5
<1>7. g[0] = b
  BY <1>3, <1>4, <1>5
<1>8. ASSUME NEW n \in Nat PROVE g[n + 1] = F[n][g[n]]
  <2>1. R[n + 1] \in Rounds(n + 1) /\ R[n] \in Rounds(n)
    BY <1>3
  <2>2. R[n + 1][n + 1] = F[n][R[n + 1][n]]
    BY <2>1, <1>4
  <2>3. R[n + 1][n] = R[n][n]
    BY <1>2, <2>1
  <2>4. QED
    BY <2>2, <2>3, <1>5
<1>9. g \in [Nat -> S]
  BY <1>6 DEF g
<1>10. QED
  BY <1>7, <1>8, <1>9

-----------------------------------------------------------------------------
(* What Normalize makes of a sequence of messages. *)

MessageSeqs == Seq(Message) \ {<<>>}

\* An entry that a message was merged into, or that was started with it.
Holds(e, m, useToolRole) ==
    /\ EffectiveRole(e, useToolRole) = EffectiveRole(m, useToolRole)
    /\ ToSet(m.text) \subseteq ToSet(e.text)
    /\ m.calls \subseteq e.calls

LEMMA JoinedText ==
  ASSUME NEW s \in Seq(Nat), NEW t \in Seq(Nat)
  PROVE  /\ s \o t \in Seq(Nat)
         /\ ToSet(s) \subseteq ToSet(s \o t) /\ ToSet(t) \subseteq ToSet(s \o t)
<1> DEFINE st == s \o t
<1>1. st \in Seq(Nat) /\ Len(st) = Len(s) + Len(t) /\ Len(s) \in Nat /\ Len(t) \in Nat
  OBVIOUS
<1>2. \A i \in 1 .. Len(s) : st[i] = s[i]
  OBVIOUS
<1>3. \A i \in 1 .. Len(t) : st[i + Len(s)] = t[i]
  OBVIOUS
<1> HIDE DEF st
<1>4. \A x \in Seq(Nat) : ToSet(x) = {x[i] : i \in 1 .. Len(x)}
  BY DEF ToSet
<1>5. \A i \in 1 .. Len(s) : i \in 1 .. Len(st) /\ s[i] = st[i]
  BY <1>1, <1>2
<1>6. \A i \in 1 .. Len(t) : i + Len(s) \in 1 .. Len(st) /\ t[i] = st[i + Len(s)]
  BY <1>1, <1>3
<1>7. ToSet(s) \subseteq ToSet(st)
  <2>1. ToSet(s) = {s[i] : i \in 1 .. Len(s)} /\ ToSet(st) = {st[i] : i \in 1 .. Len(st)}
    BY <1>1, <1>4
  <2>2. QED
    BY <1>5, <2>1
<1>8. ToSet(t) \subseteq ToSet(st)
  <2>1. ToSet(t) = {t[i] : i \in 1 .. Len(t)} /\ ToSet(st) = {st[i] : i \in 1 .. Len(st)}
    BY <1>1, <1>4
  <2>2. QED
    BY <1>6, <2>1
<1>9. QED
  BY <1>1, <1>7, <1>8 DEF st

LEMMA MergeHolds ==
  ASSUME NEW target \in Message, NEW source \in Message, NEW u \in BOOLEAN
  PROVE  /\ Merge(target, source) \in Message
         /\ Merge(target, source).role = target.role
         /\ Merge(target, source).result = target.result
         /\ EffectiveRole(target, u) = EffectiveRole(source, u) => Holds(Merge(target, source), source, u)
         /\ \A m \in Message : Holds(target, m, u) => Holds(Merge(target, source), m, u)
<1> DEFINE e == Merge(target, source)
<1>1. target.text \in Seq(Nat) /\ source.text \in Seq(Nat)
  BY DEF Message
<1>2. e = [role |-> target.role, text |-> target.text \o source.text,
           calls |-> target.calls \cup source.calls, result |-> target.result]
  <2>2. ASSUME NEW t, NEW c
        PROVE  [target EXCEPT !.text = t, !.calls = c] =
                 [role |-> target.role, text |-> t, calls |-> c, result |-> target.result]
    <3> DEFINE r == [target EXCEPT !.text = t]
    <3>1. r = [role |-> target.role, text |-> t, calls |-> target.calls, result |-> target.result]
      <4>1. target = [role |-> target.role, text |-> target.text, calls |-> target.calls,
                      result |-> target.result]
        BY DEF Message
      <4>2. DOMAIN target = {"role", "text", "calls", "result"}
        BY <4>1
      <4>3. QED
        BY <4>2
    <3>2. [target EXCEPT !.text = t, !.calls = c] = [r EXCEPT !.calls = c]
      OBVIOUS
    <3> HIDE DEF r
    <3>3. QED
      BY <3>1, <3>2
  <2>3. QED
    BY <2>2 DEF Merge
<1>3. e \in Message
  BY <1>1, <1>2, JoinedText DEF Message
<1>4. EffectiveRole(e, u) = EffectiveRole(target, u)
  BY <1>2 DEF EffectiveRole, IsResult
<1>5. ToSet(target.text) \subseteq ToSet(e.text) /\ ToSet(source.text) \subseteq ToSet(e.text)
  BY <1>1, <1>2, JoinedText
<1>6. target.calls \subseteq e.calls /\ source.calls \subseteq e.calls
  BY <1>2
<1>7. e.role = target.role /\ e.result = target.result
  BY <1>2
<1> HIDE DEF e
<1>8. \A m \in Message : Holds(target, m, u) => Holds(e, m, u)
  BY <1>4, <1>5, <1>6 DEF Holds
<1>9. EffectiveRole(target, u) = EffectiveRole(source, u) => Holds(e, source, u)
  BY <1>4, <1>5, <1>6 DEF Holds
<1>10. QED
  BY <1>3, <1>7, <1>8, <1>9 DEF e

LEMMA AddCases ==
  ASSUME NEW merged \in MessageSeqs, NEW m \in Message, NEW u \in BOOLEAN
  PROVE  LET n == Len(merged) IN
         /\ n \in Nat \ {0} /\ merged[n] \in Message /\ Last(merged) = merged[n]
         /\ Add(merged, m, u) \in MessageSeqs
         /\ ShouldMerge(m, merged[n], u) =>
              /\ Len(Add(merged, m, u)) = n
              /\ Add(merged, m, u)[n] = Merge(merged[n], m)
              /\ \A p \in 1 .. n - 1 : Add(merged, m, u)[p] = merged[p]
         /\ ~ShouldMerge(m, merged[n], u) =>
              /\ Len(Add(merged, m, u)) = n + 1
              /\ Add(merged, m, u)[n + 1] = m
              /\ \A p \in 1 .. n : Add(merged, m, u)[p] = merged[p]
<1> DEFINE n == Len(merged)
<1>1. n \in Nat \ {0} /\ merged[n] \in Message /\ Last(merged) = merged[n]
  BY DEF MessageSeqs, Last
<1>2. CASE ShouldMerge(m, merged[n], u)
  <2> DEFINE e == Merge(merged[n], m)
  <2>1. Add(merged, m, u) = [merged EXCEPT ![n] = e]
    BY <1>1, <1>2 DEF Add
  <2>2. e \in Message
    BY <1>1, MergeHolds
  <2> HIDE DEF e
  <2>3. [merged EXCEPT ![n] = e] \in Seq(Message) /\ Len([merged EXCEPT ![n] = e]) = n
    BY <1>1, <2>2 DEF MessageSeqs
  <2>4. [merged EXCEPT ![n] = e] # <<>>
    BY <1>1, <2>3
  <2>5. /\ [merged EXCEPT ![n] = e][n] = e
        /\ \A p \in 1 .. n - 1 : [merged EXCEPT ![n] = e][p] = merged[p]
    BY <1>1 DEF MessageSeqs
  <2>6. QED
    BY <1>1, <1>2, <2>1, <2>3, <2>4, <2>5 DEF e, MessageSeqs
<1>3. CASE ~ShouldMerge(m, merged[n], u)
  <2>1. Add(merged, m, u) = Append(merged, m)
    BY <1>1, <1>3 DEF Add
  <2>2. QED
    BY <1>1, <1>3, <2>1 DEF MessageSeqs
<1>4. QED
  BY <1>2, <1>3

\* The rounds of the loop in Normalize.
Rounds(M, msgs, useToolRole) ==
    /\ M \in [1 .. Len(msgs) -> MessageSeqs]
    /\ M[1] = <<msgs[1]>>
    /\ \A n \in 2 .. Len(msgs) : M[n] = Add(M[n - 1], msgs[n], useToolRole)

\* Normalize does its rounds: the function it is defined by exists.
LEMMA NormalizeRounds ==
  ASSUME NEW msgs \in MessageSeqs, NEW u \in BOOLEAN
  PROVE  \E M : Rounds(M, msgs, u) /\ Normalize(msgs, u) = M[Len(msgs)]
<1> DEFINE N == Len(msgs)
           F == [n \in Nat |-> [l \in MessageSeqs |-> IF n + 2 <= N THEN Add(l, msgs[n + 2], u) ELSE l]]
<1>1. N \in Nat \ {0} /\ \A n \in 1 .. N : msgs[n] \in Message
  BY DEF MessageSeqs
<1>2. ASSUME NEW n \in Nat PROVE F[n] \in [MessageSeqs -> MessageSeqs]
  <2>1. ASSUME NEW l \in MessageSeqs, n + 2 <= N PROVE Add(l, msgs[n + 2], u) \in MessageSeqs
    BY <1>1, <2>1, AddCases
  <2>2. QED
    BY <2>1
<1>3. F \in [Nat -> [MessageSeqs -> MessageSeqs]]
  BY <1>2
<1>4. <<msgs[1]>> \in MessageSeqs
  BY <1>1 DEF MessageSeqs
<1>5. \A n \in Nat, l \in MessageSeqs : n + 2 <= N => F[n][l] = Add(l, msgs[n + 2], u)
  OBVIOUS
<1> HIDE DEF F
<1>6. PICK g \in [Nat -> MessageSeqs] : g[0] = <<msgs[1]>> /\ \A n \in Nat : g[n + 1] = F[n][g[n]]
  <2> DEFINE b == <<msgs[1]>>
             S == MessageSeqs
  <2> HIDE DEF b, S
  <2>1. b \in S /\ F \in [Nat -> [S -> S]]
    BY <1>3, <1>4 DEF b, S
  <2>2. F \in Loops(S)
    BY <2>1 DEF Loops
  <2>3. \E k \in [Nat -> S] : Computes(k, F, b)
    BY <2>1, <2>2, Iteration, Zenon
  <2>4. QED
    BY <2>3 DEF b, S, Computes
<1> DEFINE M == [n \in 1 .. N |-> g[n - 1]]
           Step(f) == [n \in 1 .. N |-> IF n = 1 THEN <<msgs[1]>> ELSE Add(f[n - 1], msgs[n], u)]
<1>7. M \in [1 .. N -> MessageSeqs]
  OBVIOUS
<1>8. M[1] = <<msgs[1]>>
  BY <1>1, <1>6
<1>9. ASSUME NEW n \in 2 .. N PROVE M[n] = Add(M[n - 1], msgs[n], u)
  <2>1. n - 2 \in Nat /\ n - 2 + 1 = n - 1 /\ n - 2 + 2 = n /\ n - 1 \in 1 .. N /\ n \in 1 .. N
    BY <1>1
  <2>2. g[n - 1] = F[n - 2][g[n - 2]]
    BY <1>6, <2>1
  <2>3. M[n] = g[n - 1] /\ M[n - 1] = g[n - 2]
    BY <2>1
  <2>4. QED
    BY <1>5, <2>1, <2>2, <2>3
<1> HIDE DEF M
<1>10. M = Step(M)
  <2>1. ASSUME NEW n \in 1 .. N PROVE M[n] = Step(M)[n]
    BY <1>8, <1>9
  <2>2. QED
    BY <1>7, <2>1
<1> DEFINE h == CHOOSE f : f = Step(f)
<1>11. h = Step(h)
  BY <1>10
<1>12. Normalize(msgs, u) = h[N]
  BY DEF Normalize
<1> HIDE DEF h
<1>13. h[1] = <<msgs[1]>> /\ \A n \in 2 .. N : h[n] = Add(h[n - 1], msgs[n], u)
  <2>1. \A n \in 1 .. N : h[n] = IF n = 1 THEN <<msgs[1]>> ELSE Add(h[n - 1], msgs[n], u)
    BY <1>11
  <2>2. QED
    BY <2>1, <1>1
<1>14. \A n \in 1 .. N : h[n] \in MessageSeqs
  <2> DEFINE P == {k \in Nat : k + 1 <= N => h[k + 1] \in MessageSeqs}
  <2>1. 0 \in P
    BY <1>4, <1>13
  <2>2. ASSUME NEW k \in P PROVE k + 1 \in P
    <3>1. CASE k + 2 <= N
      <4>1. k + 2 \in 2 .. N /\ k + 2 - 1 = k + 1 /\ k + 2 \in 1 .. N
        BY <3>1, <1>1
      <4>2. h[k + 1] \in MessageSeqs /\ h[k + 2] = Add(h[k + 1], msgs[k + 2], u)
        BY <2>2, <3>1, <4>1, <1>13
      <4>3. msgs[k + 2] \in Message
        BY <1>1, <4>1
      <4>4. Add(h[k + 1], msgs[k + 2], u) \in MessageSeqs
        BY <4>2, <4>3, AddCases
      <4>5. QED
        BY <4>2, <4>4
    <3>2. CASE ~(k + 2 <= N)
      BY <3>2, <1>1
    <3>3. QED
      BY <3>1, <3>2
  <2> HIDE DEF P
  <2>3. P \in SUBSET Nat
    BY DEF P
  <2>4. P = Nat
    BY <2>1, <2>2, <2>3, Induction
  <2>5. ASSUME NEW n \in 1 .. N PROVE h[n] \in MessageSeqs
    <3>1. n - 1 \in P /\ n - 1 + 1 = n /\ n <= N
      BY <1>1, <2>4
    <3>2. QED
      BY <3>1 DEF P
  <2>6. QED
    BY <2>5
<1>15. h \in [1 .. N -> MessageSeqs]
  BY <1>11, <1>14
<1>16. QED
  BY <1>12, <1>13, <1>15 DEF Rounds

\* Message i starts an entry.
Starts(place, i) == i = 1 \/ place[i - 1] # place[i]

\* Message i of msgs went into the entry e.
Placed(e, i, place, msgs, useToolRole) ==
    /\ e \in Message
    /\ Holds(e, msgs[i], useToolRole)
    /\ Starts(place, i) => e.role = msgs[i].role /\ e.result = msgs[i].result

\* Message i of msgs went into entry place[i] of out.
Arranged(place, out, msgs, useToolRole) ==
    /\ out \in MessageSeqs
    /\ place \in [1 .. Len(msgs) -> 1 .. Len(out)]
    /\ place[1] = 1 /\ place[Len(msgs)] = Len(out)
    /\ \A i \in 2 .. Len(msgs) :
         place[i] = IF ShouldMerge(msgs[i], msgs[i - 1], useToolRole)
                      THEN place[i - 1] ELSE place[i - 1] + 1
    /\ \A i \in 1 .. Len(msgs) : Placed(out[place[i]], i, place, msgs, useToolRole)

LEMMA SameShouldMerge ==
  ASSUME NEW m, NEW e, NEW k, NEW u, EffectiveRole(e, u) = EffectiveRole(k, u)
  PROVE  ShouldMerge(m, e, u) <=> ShouldMerge(m, k, u)
BY DEF ShouldMerge

LEMMA HoldsItself ==
  ASSUME NEW m, NEW u
  PROVE  Holds(m, m, u)
BY DEF Holds

\* After each round the last message is in the last entry.
Places(M, msgs) == [i \in 1 .. Len(msgs) |-> Len(M[i])]

\* The first n messages are in the entries l.
AllPlaced(l, n, place, msgs, useToolRole) ==
    \A i \in 1 .. n :
        place[i] \in 1 .. place[n] /\ Placed(l[place[i]], i, place, msgs, useToolRole)

LEMMA RoundPlaces ==
  ASSUME NEW msgs \in MessageSeqs, NEW u \in BOOLEAN, NEW M, Rounds(M, msgs, u),
         NEW place, place = Places(M, msgs),
         NEW n \in 1 .. Len(msgs) - 1, AllPlaced(M[n], n, place, msgs, u)
  PROVE  /\ place[n + 1] = IF ShouldMerge(msgs[n + 1], msgs[n], u) THEN place[n] ELSE place[n] + 1
         /\ AllPlaced(M[n + 1], n + 1, place, msgs, u)
<1> DEFINE m == msgs[n + 1]
           l == M[n]
           k == M[n + 1]
           last == Len(l)
<1>1. /\ Len(msgs) \in Nat /\ n \in 1 .. Len(msgs) /\ n + 1 \in 2 .. Len(msgs)
      /\ n + 1 \in 1 .. Len(msgs) /\ n + 1 - 1 = n
  BY DEF MessageSeqs
<1>2. m \in Message /\ l \in MessageSeqs /\ k = Add(l, m, u)
  <2>1. m \in Message
    BY <1>1 DEF MessageSeqs
  <2>2. l \in MessageSeqs /\ k = Add(l, m, u)
    BY <1>1 DEF Rounds
  <2>3. QED
    BY <2>1, <2>2
<1>3. place[n] = last /\ place[n + 1] = Len(k) /\ last \in Nat \ {0}
  <2>1. last \in Nat \ {0}
    BY <1>2, AddCases
  <2>2. QED
    BY <1>1, <2>1 DEF Places
<1> HIDE DEF m, l, k, last
<1>4. /\ l[last] \in Message
      /\ ShouldMerge(m, l[last], u) =>
           Len(k) = last /\ k[last] = Merge(l[last], m) /\ \A p \in 1 .. last - 1 : k[p] = l[p]
      /\ ~ShouldMerge(m, l[last], u) =>
           Len(k) = last + 1 /\ k[last + 1] = m /\ \A p \in 1 .. last : k[p] = l[p]
  BY <1>2, AddCases, SMTT(30) DEF last
<1>5. ShouldMerge(m, l[last], u) <=> ShouldMerge(m, msgs[n], u)
  <2>1. n \in 1 .. n
    BY <1>1
  <2>2. Placed(l[last], n, place, msgs, u)
    BY <1>3, <2>1 DEF AllPlaced, l
  <2>3. EffectiveRole(l[last], u) = EffectiveRole(msgs[n], u)
    BY <2>2 DEF Placed, Holds
  <2>4. QED
    BY <2>3, SameShouldMerge
<1>6. \A i \in 1 .. n : place[i] \in 1 .. last /\ Placed(l[place[i]], i, place, msgs, u)
  BY <1>3 DEF l, AllPlaced
<1>7. CASE ShouldMerge(m, l[last], u)
  <2>1. Len(k) = last /\ k[last] = Merge(l[last], m) /\ \A p \in 1 .. last - 1 : k[p] = l[p]
    BY <1>4, <1>7
  <2>2. EffectiveRole(l[last], u) = EffectiveRole(m, u)
    BY <1>7 DEF ShouldMerge
  <2>3. /\ k[last] \in Message
        /\ Holds(k[last], m, u)
        /\ k[last].role = l[last].role /\ k[last].result = l[last].result
        /\ \A x \in Message : Holds(l[last], x, u) => Holds(k[last], x, u)
    BY <1>2, <1>4, <2>1, <2>2, MergeHolds
  <2>4. ASSUME NEW i \in 1 .. n PROVE Placed(k[place[i]], i, place, msgs, u)
    <3>1. CASE place[i] = last
      <4>1. msgs[i] \in Message
        BY <1>1 DEF MessageSeqs
      <4>2. QED
        BY <1>6, <2>3, <3>1, <4>1 DEF Placed
    <3>2. CASE place[i] # last
      <4>1. place[i] \in 1 .. last - 1
        BY <1>3, <1>6, <3>2
      <4>2. QED
        BY <1>6, <2>1, <4>1
    <3>3. QED
      BY <3>1, <3>2
  <2>5. Placed(k[place[n + 1]], n + 1, place, msgs, u)
    BY <1>1, <1>3, <2>1, <2>3 DEF Placed, Starts, m
  <2>6. place[n + 1] = last
    BY <1>3, <2>1
  <2>7. \A i \in 1 .. n + 1 : place[i] \in 1 .. last /\ Placed(k[place[i]], i, place, msgs, u)
    BY <1>1, <1>3, <1>6, <2>4, <2>5, <2>6
  <2>8. QED
    BY <1>3, <1>5, <1>7, <2>6, <2>7 DEF m, k, AllPlaced
<1>8. CASE ~ShouldMerge(m, l[last], u)
  <2>1. Len(k) = last + 1 /\ k[last + 1] = m /\ \A p \in 1 .. last : k[p] = l[p]
    BY <1>4, <1>8
  <2>2. ASSUME NEW i \in 1 .. n PROVE Placed(k[place[i]], i, place, msgs, u)
    BY <1>6, <2>1
  <2>3. Placed(k[place[n + 1]], n + 1, place, msgs, u)
    BY <1>2, <1>3, <2>1, HoldsItself DEF Placed, m
  <2>4. place[n + 1] = last + 1
    BY <1>3, <2>1
  <2>5. \A i \in 1 .. n + 1 : place[i] \in 1 .. last + 1 /\ Placed(k[place[i]], i, place, msgs, u)
    BY <1>1, <1>3, <1>6, <2>2, <2>3, <2>4
  <2>6. QED
    BY <1>3, <1>5, <1>8, <2>4, <2>5 DEF m, k, AllPlaced
<1>9. QED
  BY <1>7, <1>8

LEMMA OneOnly ==
  ASSUME NEW s, NEW x, s = <<x>>
  PROVE  s[1] = x /\ Len(s) = 1
OBVIOUS

\* Every message has its place in what Normalize makes of the sequence.
LEMMA NormalizeArranges ==
  ASSUME NEW msgs \in MessageSeqs, NEW u \in BOOLEAN
  PROVE  \E place : Arranged(place, Normalize(msgs, u), msgs, u)
<1> DEFINE N == Len(msgs)
<1>1. PICK M : Rounds(M, msgs, u) /\ Normalize(msgs, u) = M[N]
  BY NormalizeRounds
<1> DEFINE place == Places(M, msgs)
           Fits(n) == AllPlaced(M[n], n, place, msgs, u)
           P == {k \in Nat : k + 1 <= N => Fits(k + 1)}
<1>2. N \in Nat \ {0} /\ \A i \in 1 .. N : msgs[i] \in Message
  BY DEF MessageSeqs
<1>3. M[1] = <<msgs[1]>> /\ M[1][1] = msgs[1] /\ \A i \in 1 .. N : M[i] \in MessageSeqs
  <2>1. M[1] = <<msgs[1]>> /\ \A i \in 1 .. N : M[i] \in MessageSeqs
    BY <1>1 DEF Rounds
  <2>2. M[1][1] = msgs[1]
    BY <2>1, OneOnly
  <2>3. QED
    BY <2>1, <2>2
<1>4. place[1] = 1 /\ \A i \in 1 .. N : place[i] = Len(M[i])
  <2>1. \A i \in 1 .. N : place[i] = Len(M[i])
    BY DEF Places
  <2>2. Len(M[1]) = 1
    BY <1>3, OneOnly
  <2>3. 1 \in 1 .. N
    BY <1>2
  <2> HIDE DEF place, N
  <2>4. QED
    BY <2>1, <2>2, <2>3
<1>5. Fits(1)
  <2>1. M[1][place[1]] = msgs[1]
    <3> HIDE DEF place
    <3>1. QED
      BY <1>3, <1>4
  <2> HIDE DEF place
  <2>2. Placed(M[1][place[1]], 1, place, msgs, u)
    BY <1>2, <2>1, HoldsItself DEF Placed
  <2>3. QED
    BY <1>4, <2>2 DEF AllPlaced
<1>6. ASSUME NEW n \in 1 .. N - 1, Fits(n)
      PROVE  /\ place[n + 1] = IF ShouldMerge(msgs[n + 1], msgs[n], u) THEN place[n] ELSE place[n] + 1
             /\ Fits(n + 1)
  BY <1>1, <1>6, RoundPlaces
<1> HIDE DEF Fits
<1>7. P = Nat
  <2>1. 0 \in P
    BY <1>5
  <2>2. ASSUME NEW k \in P PROVE k + 1 \in P
    <3>1. CASE k + 2 <= N
      <4>1. k + 1 \in 1 .. N - 1 /\ Fits(k + 1)
        BY <1>2, <3>1
      <4>2. Fits(k + 1 + 1)
        BY <1>6, <4>1
      <4>3. QED
        BY <4>2
    <3>2. CASE ~(k + 2 <= N)
      BY <1>2, <3>2
    <3>3. QED
      BY <3>1, <3>2
  <2> HIDE DEF P
  <2>3. P \in SUBSET Nat
    BY DEF P
  <2>4. QED
    BY <2>1, <2>2, <2>3, Induction
<1> HIDE DEF P
<1>8. \A n \in 1 .. N : Fits(n)
  <2>1. ASSUME NEW n \in 1 .. N PROVE Fits(n)
    <3>1. n - 1 \in P /\ n - 1 + 1 = n /\ n <= N
      BY <1>2, <1>7
    <3>2. QED
      BY <3>1 DEF P
  <2>2. QED
    BY <2>1
<1> DEFINE out == Normalize(msgs, u)
<1>9. out \in MessageSeqs /\ Len(out) = place[N] /\ out = M[N]
  BY <1>1, <1>2, <1>3, <1>4
<1>10. place \in [1 .. N -> 1 .. Len(out)] /\ \A i \in 1 .. N : Placed(out[place[i]], i, place, msgs, u)
  <2>1. Fits(N)
    BY <1>2, <1>8
  <2>2. \A i \in 1 .. N : place[i] \in 1 .. Len(out) /\ Placed(out[place[i]], i, place, msgs, u)
    BY <1>9, <2>1 DEF Fits, AllPlaced
  <2>3. QED
    BY <2>2 DEF Places
<1>11. ASSUME NEW i \in 2 .. N
       PROVE  place[i] = IF ShouldMerge(msgs[i], msgs[i - 1], u) THEN place[i - 1] ELSE place[i - 1] + 1
  <2>1. i - 1 \in 1 .. N - 1 /\ i - 1 + 1 = i /\ i - 1 \in 1 .. N
    BY <1>2
  <2>2. Fits(i - 1)
    BY <1>8, <2>1
  <2> HIDE DEF place
  <2>3. QED
    BY <1>6, <2>1, <2>2
<1> HIDE DEF place, out
<1>12. Arranged(place, out, msgs, u)
  BY <1>2, <1>4, <1>9, <1>10, <1>11 DEF Arranged
<1>13. QED
  BY <1>12 DEF out

LEMMA PlacesGrow ==
  ASSUME NEW msgs \in MessageSeqs, NEW u, NEW place, NEW out, Arranged(place, out, msgs, u),
         NEW i \in 1 .. Len(msgs), NEW j \in 1 .. Len(msgs), i <= j
  PROVE  place[i] <= place[j]
<1> DEFINE N == Len(msgs)
           P == {k \in Nat : i + k <= N => place[i] <= place[i + k]}
<1>1. N \in Nat /\ Len(out) \in Nat
  BY DEF MessageSeqs, Arranged
<1>2. \A k \in 1 .. N : place[k] \in 1 .. Len(out)
  BY DEF Arranged
<1>3. \A k \in 2 .. N : place[k - 1] <= place[k]
  <2>1. ASSUME NEW k \in 2 .. N PROVE place[k - 1] <= place[k]
    <3>1. place[k] = place[k - 1] \/ place[k] = place[k - 1] + 1
      BY DEF Arranged
    <3>2. place[k - 1] \in Int
      BY <1>1, <1>2
    <3>3. QED
      BY <3>1, <3>2
  <2>2. QED
    BY <2>1
<1>4. 0 \in P
  BY <1>1, <1>2
<1>5. ASSUME NEW k \in P PROVE k + 1 \in P
  <2>1. CASE i + (k + 1) <= N
    <3>1. i + k \in 1 .. N /\ i + (k + 1) \in 2 .. N /\ i + (k + 1) - 1 = i + k
      BY <1>1, <2>1
    <3>2. place[i] <= place[i + k] /\ place[i + k] <= place[i + (k + 1)]
      BY <1>1, <1>3, <3>1
    <3>3. place[i] \in Int /\ place[i + k] \in Int /\ place[i + (k + 1)] \in Int
      BY <1>1, <1>2, <3>1
    <3>4. QED
      BY <3>2, <3>3
  <2>2. CASE ~(i + (k + 1) <= N)
    BY <2>2
  <2>3. QED
    BY <2>1, <2>2
<1> HIDE DEF P
<1>6. P \in SUBSET Nat
  BY DEF P
<1>7. P = Nat
  BY <1>4, <1>5, <1>6, Induction
<1>8. j - i \in P /\ i + (j - i) = j
  BY <1>1, <1>7
<1>9. QED
  BY <1>1, <1>8 DEF P

\* Entry p was started with message s: the message before that is in the entry before.
Opens(place, s, p) ==
    /\ place[s] = p /\ Starts(place, s)
    /\ IF p = 1 THEN s = 1 ELSE s > 1 /\ place[s - 1] = p - 1

LEMMA StartOf ==
  ASSUME NEW msgs \in MessageSeqs, NEW u, NEW place, NEW out, Arranged(place, out, msgs, u),
         NEW p \in 1 .. Len(out)
  PROVE  \E s \in 1 .. Len(msgs) : Opens(place, s, p)
<1> USE DEF Opens
<1> DEFINE N == Len(msgs)
           T == {k \in 1 .. N : p <= place[k]}
<1>1. N \in Nat \ {0} /\ Len(out) \in Nat /\ \A k \in 1 .. N : place[k] \in 1 .. Len(out)
  <2>1. N \in Nat \ {0}
    BY DEF MessageSeqs
  <2>2. out \in MessageSeqs /\ place \in [1 .. N -> 1 .. Len(out)]
    BY DEF Arranged
  <2>3. Len(out) \in Nat
    BY <2>2 DEF MessageSeqs
  <2>4. QED
    BY <2>1, <2>2, <2>3
<1>2. place[N] = Len(out) /\ place[1] = 1
  BY DEF Arranged
<1>3. T \in SUBSET Nat /\ N \in T
  BY <1>1, <1>2
<1>4. PICK s \in T : \A y \in T : s <= y
  BY <1>3, HasLeast
<1>5. s \in 1 .. N /\ p <= place[s]
  OBVIOUS
<1>6. CASE s = 1
  <2>1. p = 1
    BY <1>2, <1>5, <1>6
  <2>2. QED
    BY <1>2, <1>5, <1>6, <2>1 DEF Starts
<1>7. CASE s # 1
  <2>1. s \in 2 .. N /\ s - 1 \in 1 .. N /\ s - 1 \notin T
    BY <1>1, <1>4, <1>5, <1>7
  <2>2. place[s - 1] < p /\ place[s - 1] \in Int /\ place[s] \in Int
    BY <1>1, <2>1
  <2>3. place[s] = place[s - 1] \/ place[s] = place[s - 1] + 1
    BY <2>1 DEF Arranged
  <2>4. place[s] = p /\ place[s - 1] = p - 1
    BY <1>5, <2>2, <2>3
  <2>5. place[s - 1] >= 1
    BY <1>1, <2>1
  <2>6. QED
    BY <1>5, <1>7, <2>1, <2>4, <2>5 DEF Starts
<1>8. QED
  BY <1>6, <1>7

\* Each message is made of one that was stored, or is the system message.
PlainMessages == {msgs \in MessageSeqs : \A i \in 1 .. Len(msgs) : Plain(msgs[i])}

\* With tool_role no role is changed and no result is merged.
KeepsRoles(useToolRole) ==
    /\ \A m : EffectiveRole(m, useToolRole) = m.role
    /\ \A m, k : m.role = "tool" => ~ShouldMerge(m, k, useToolRole)

LEMMA ToolRoleKeepsRoles ==
  ASSUME NEW u \in BOOLEAN, u
  PROVE  KeepsRoles(u)
BY DEF KeepsRoles, EffectiveRole, ShouldMerge

\* A result in the tool role is an entry of its own.
LEMMA ResultsAreAlone ==
  ASSUME NEW msgs \in PlainMessages, NEW u, KeepsRoles(u), NEW place, NEW out,
         Arranged(place, out, msgs, u),
         NEW i \in 1 .. Len(msgs), IsResult(out[place[i]]) \/ IsResult(msgs[i])
  PROVE  Starts(place, i) /\ IsResult(msgs[i]) /\ out[place[i]].result = msgs[i].result
<1>1. msgs \in MessageSeqs /\ Len(msgs) \in Nat /\ \A k \in 1 .. Len(msgs) : Plain(msgs[k])
  BY DEF PlainMessages, MessageSeqs
<1>2. \A k \in 1 .. Len(msgs) : Placed(out[place[k]], k, place, msgs, u)
  BY DEF Arranged
<1>3. \A k \in 1 .. Len(msgs) : IsResult(msgs[k]) <=> msgs[k].role = "tool"
  BY <1>1 DEF Plain
<1>4. \A k \in 1 .. Len(msgs) : out[place[k]].role = msgs[k].role
  BY <1>2 DEF Placed, Holds, KeepsRoles
<1>5. IsResult(msgs[i])
  <2> SUFFICES ASSUME IsResult(out[place[i]]) PROVE IsResult(msgs[i])
    OBVIOUS
  <2>1. place[i] \in 1 .. Len(out)
    BY DEF Arranged
  <2>2. PICK s \in 1 .. Len(msgs) : Opens(place, s, place[i])
    BY <1>1, <2>1, StartOf
  <2> USE DEF Opens
  <2>3. out[place[i]].result = msgs[s].result
    BY <1>2, <2>2 DEF Placed
  <2>4. IsResult(msgs[s])
    BY <2>3 DEF IsResult
  <2>5. msgs[i].role = "tool"
    BY <1>3, <1>4, <2>2, <2>4
  <2>6. QED
    BY <1>3, <2>5
<1>6. Starts(place, i)
  <2> SUFFICES ASSUME i # 1 PROVE place[i - 1] # place[i]
    BY DEF Starts
  <2>1. i \in 2 .. Len(msgs) /\ i - 1 \in 1 .. Len(msgs)
    BY <1>1
  <2>2. ~ShouldMerge(msgs[i], msgs[i - 1], u)
    BY <1>3, <1>5 DEF KeepsRoles
  <2>3. place[i] = place[i - 1] + 1
    BY <2>1, <2>2 DEF Arranged
  <2>4. place[i - 1] \in 1 .. Len(out)
    BY <2>1 DEF Arranged
  <2>5. QED
    BY <2>3, <2>4
<1>7. QED
  BY <1>2, <1>5, <1>6 DEF Placed

LEMMA ArrangedTypes ==
  ASSUME NEW msgs \in PlainMessages, NEW u, NEW place, NEW out, Arranged(place, out, msgs, u)
  PROVE  /\ msgs \in MessageSeqs /\ Len(msgs) \in Nat \ {0} /\ Len(out) \in Nat \ {0}
         /\ \A i \in 1 .. Len(msgs) : /\ msgs[i] \in Message /\ Plain(msgs[i])
                                      /\ IsResult(msgs[i]) <=> msgs[i].role = "tool"
                                      /\ place[i] \in 1 .. Len(out) /\ place[i] \in Int
                                      /\ Placed(out[place[i]], i, place, msgs, u)
<1>1. msgs \in MessageSeqs /\ \A i \in 1 .. Len(msgs) : Plain(msgs[i])
  BY DEF PlainMessages
<1>2. out \in MessageSeqs /\ \A i \in 1 .. Len(msgs) : place[i] \in 1 .. Len(out)
  BY DEF Arranged
<1>3. Len(msgs) \in Nat \ {0} /\ Len(out) \in Nat \ {0}
  BY <1>1, <1>2 DEF MessageSeqs
<1>4. \A i \in 1 .. Len(msgs) : place[i] \in Int
  BY <1>2, <1>3
<1>5. QED
  BY <1>1, <1>2, <1>3, <1>4 DEF Arranged, Plain

\* The request has the message: its text and its calls.
Sent(e, m, useToolRole) ==
    /\ m.text[1] \in ToSet(Entry(e, useToolRole).text)
    /\ m.calls \subseteq Entry(e, useToolRole).calls

LEMMA FirstInText ==
  ASSUME NEW m, NEW e, NEW u, Plain(m), Holds(e, m, u), ~IsResult(e)
  PROVE  Sent(e, m, u)
<1>1. m.text \in Seq(Nat) /\ Len(m.text) = 1
  BY DEF Plain, Message
<1>2. m.text[1] \in ToSet(m.text)
  BY <1>1 DEF ToSet
<1>3. QED
  BY <1>2 DEF Holds, Sent, Entry

LEMMA ResultInText ==
  ASSUME NEW m, NEW e, NEW u, Plain(m), IsResult(m), e.result = m.result, Holds(e, m, u)
  PROVE  Sent(e, m, u)
<1>1. m.calls = {} /\ m.result[2] = m.text[1]
  BY DEF Plain
<1>2. Entry(e, u).text = <<m.result[2]>>
  BY DEF Entry, IsResult
<1>3. m.result[2] \in ToSet(<<m.result[2]>>)
  BY DEF ToSet
<1>4. QED
  BY <1>1, <1>2, <1>3 DEF Sent

\* A message the request does not have was merged behind a result.
LEMMA LostBehind ==
  ASSUME NEW msgs \in PlainMessages, NEW u \in BOOLEAN, NEW place, NEW out,
         Arranged(place, out, msgs, u), NEW j \in 1 .. Len(msgs)
  PROVE  \/ Sent(out[place[j]], msgs[j], u)
         \/ \E i \in 1 .. j - 1 :
              IsResult(msgs[i]) /\ \A k \in i .. j : EffectiveRole(msgs[k], u) = "user"
<1> DEFINE e == out[place[j]]
<1>1. /\ msgs \in MessageSeqs /\ Len(msgs) \in Nat /\ Len(out) \in Nat
      /\ Plain(msgs[j]) /\ Holds(e, msgs[j], u)
      /\ place[j] \in 1 .. Len(out)
  BY ArrangedTypes DEF Placed
<1>2. CASE ~IsResult(e)
  BY <1>1, <1>2, FirstInText
<1>3. CASE IsResult(e)
  <2>1. PICK s \in 1 .. Len(msgs) : Opens(place, s, place[j])
    BY <1>1, StartOf
  <2> USE DEF Opens
  <2>2. e.role = msgs[s].role /\ e.result = msgs[s].result
    BY <2>1, ArrangedTypes DEF Placed
  <2>3. IsResult(msgs[s])
    BY <1>3, <2>2 DEF IsResult
  <2>4. CASE s = j
    BY <1>1, <2>2, <2>3, <2>4, ResultInText
  <2>5. CASE Starts(place, j)
    <3>1. e.result = msgs[j].result
      BY <2>5, ArrangedTypes DEF Placed
    <3>2. IsResult(msgs[j])
      BY <1>3, <3>1 DEF IsResult
    <3>3. QED
      BY <1>1, <3>1, <3>2, ResultInText
  <2>6. CASE s # j /\ ~Starts(place, j)
    <3>1. j \in 2 .. Len(msgs) /\ place[j - 1] = place[j]
      BY <1>1, <2>6 DEF Starts
    <3>2. s < j
      <4> SUFFICES ASSUME j < s PROVE FALSE
        BY <1>1, <2>6
      <4>1. s - 1 \in 1 .. Len(msgs) /\ j <= s - 1 /\ s - 1 <= s
        BY <1>1
      <4>2. place[j] <= place[s - 1] /\ place[s - 1] <= place[s]
        BY <1>1, <4>1, PlacesGrow
      <4>3. place[s - 1] = place[s]
        BY <1>1, <2>1, <4>1, <4>2, ArrangedTypes
      <4>4. QED
        BY <2>1, <4>1, <4>3 DEF Starts
    <3>3. ~u
      <4> SUFFICES ASSUME u PROVE FALSE
        OBVIOUS
      <4>1. Starts(place, j)
        BY <1>3, ToolRoleKeepsRoles, ResultsAreAlone
      <4>2. QED
        BY <2>6, <4>1
    <3>4. EffectiveRole(e, u) = "user"
      BY <1>3, <3>3 DEF EffectiveRole
    <3>5. ASSUME NEW k \in s .. j PROVE EffectiveRole(msgs[k], u) = "user"
      <4>1. k \in 1 .. Len(msgs) /\ s <= k /\ k <= j
        BY <1>1
      <4>2. place[s] <= place[k] /\ place[k] <= place[j]
        BY <1>1, <4>1, PlacesGrow
      <4>3. place[k] = place[j]
        BY <2>1, <4>1, <4>2, ArrangedTypes
      <4>4. Holds(e, msgs[k], u)
        BY <4>1, <4>3, ArrangedTypes DEF Placed
      <4>5. QED
        BY <3>4, <4>4 DEF Holds
    <3>6. QED
      BY <1>1, <2>3, <3>2, <3>5
  <2>7. QED
    BY <2>4, <2>5, <2>6
<1>4. QED
  BY <1>2, <1>3

\* Merging never brings the roles out of order.
LEMMA ArrangedIsValid ==
  ASSUME NEW msgs \in PlainMessages, NEW u \in BOOLEAN, NEW place, NEW out,
         Arranged(place, out, msgs, u), msgs[1].role = "system",
         \A i \in 2 .. Len(msgs) : IsResult(msgs[i]) => ExpectsResult(msgs[i - 1])
  PROVE  Valid(out, u)
<1>1. msgs \in MessageSeqs /\ Len(msgs) \in Nat \ {0} /\ Len(out) \in Nat \ {0}
  BY ArrangedTypes
<1>2. out[1].role = "system"
  <2>1. place[1] = 1 /\ 1 \in 1 .. Len(msgs)
    BY <1>1 DEF Arranged
  <2>2. out[1].role = msgs[1].role
    BY <2>1, ArrangedTypes DEF Placed, Starts
  <2>3. QED
    BY <2>2
<1>3. ASSUME NEW p \in 2 .. Len(out)
      PROVE  \E s \in 2 .. Len(msgs) :
               /\ ~ShouldMerge(msgs[s], msgs[s - 1], u)
               /\ place[s] = p /\ place[s - 1] = p - 1
               /\ Placed(out[p], s, place, msgs, u) /\ Placed(out[p - 1], s - 1, place, msgs, u)
               /\ out[p].role = msgs[s].role /\ out[p].result = msgs[s].result
  <2>1. p \in 1 .. Len(out) /\ p # 1
    BY <1>1
  <2>2. PICK s \in 1 .. Len(msgs) : Opens(place, s, p)
    BY <1>1, <2>1, StartOf
  <2>3. s \in 2 .. Len(msgs) /\ s - 1 \in 1 .. Len(msgs)
    BY <1>1, <2>1, <2>2 DEF Opens
  <2>4. place[s] = p /\ place[s - 1] = p - 1 /\ Starts(place, s)
    BY <2>1, <2>2 DEF Opens
  <2>5. Placed(out[p], s, place, msgs, u) /\ Placed(out[p - 1], s - 1, place, msgs, u)
    BY <2>3, <2>4, ArrangedTypes
  <2>6. place[s] # place[s - 1]
    BY <2>1, <2>4
  <2>7. ~ShouldMerge(msgs[s], msgs[s - 1], u)
    BY <2>3, <2>6 DEF Arranged
  <2>8. QED
    BY <2>3, <2>4, <2>5, <2>7 DEF Placed
<1>4. Alternates(out, u)
  <2> SUFFICES ASSUME NEW p \in 3 .. Len(out),
                      EffectiveRole(out[p], u) = EffectiveRole(out[p - 1], u)
               PROVE  EffectiveRole(out[p], u) = "tool"
    BY DEF Alternates
  <2>1. p \in 2 .. Len(out)
    BY <1>1
  <2>2. PICK s \in 2 .. Len(msgs) :
          /\ ~ShouldMerge(msgs[s], msgs[s - 1], u)
          /\ Placed(out[p], s, place, msgs, u) /\ Placed(out[p - 1], s - 1, place, msgs, u)
    BY <1>3, <2>1
  <2>3. EffectiveRole(msgs[s], u) = EffectiveRole(msgs[s - 1], u)
    BY <2>2 DEF Placed, Holds
  <2>4. EffectiveRole(msgs[s], u) = "tool"
    BY <2>2, <2>3 DEF ShouldMerge
  <2>5. QED
    BY <2>2, <2>4 DEF Placed, Holds
<1>5. ASSUME NEW p \in 2 .. Len(out), IsResult(out[p]) PROVE ExpectsResult(out[p - 1])
  <2>1. PICK s \in 2 .. Len(msgs) :
          /\ ~ShouldMerge(msgs[s], msgs[s - 1], u)
          /\ place[s - 1] = p - 1
          /\ Placed(out[p - 1], s - 1, place, msgs, u)
          /\ out[p].role = msgs[s].role /\ out[p].result = msgs[s].result
    BY <1>3
  <2> DEFINE m == msgs[s]
             x == msgs[s - 1]
             e == out[p - 1]
  <2>2. IsResult(m) /\ ExpectsResult(x)
    BY <1>5, <2>1 DEF IsResult
  <2>3. s \in 1 .. Len(msgs) /\ s - 1 \in 1 .. Len(msgs)
    BY <1>1
  <2>4. /\ IsResult(m) <=> m.role = "tool"
        /\ IsResult(x) <=> x.role = "tool"
    BY <2>3, ArrangedTypes
  <2>5. CASE IsResult(x)
    <3>1. u
      <4> SUFFICES ASSUME ~u PROVE FALSE
        OBVIOUS
      <4>1. EffectiveRole(m, u) = "user" /\ EffectiveRole(x, u) = "user"
        BY <2>2, <2>5 DEF EffectiveRole
      <4>2. QED
        BY <2>1, <4>1 DEF ShouldMerge
    <3>2. e.result = x.result
      <4>1. e = out[place[s - 1]]
        BY <2>1
      <4>2. QED
        <5>1. KeepsRoles(u)
          BY <3>1, ToolRoleKeepsRoles
        <5>2. out[place[s - 1]].result = msgs[s - 1].result
          BY <2>3, <2>5, <5>1, ResultsAreAlone
        <5>3. QED
          BY <4>1, <5>2
    <3>3. QED
      BY <2>5, <3>2 DEF ExpectsResult, IsResult
  <2>6. CASE ~IsResult(x)
    <3>1. x.role = "assistant" /\ x.calls # {}
      BY <2>2, <2>6 DEF ExpectsResult
    <3>2. EffectiveRole(x, u) = "assistant"
      BY <2>6, <3>1 DEF EffectiveRole
    <3>3. EffectiveRole(e, u) = "assistant" /\ x.calls \subseteq e.calls
      BY <2>1, <3>2 DEF Placed, Holds
    <3>4. e.role = "assistant"
      BY <3>3 DEF EffectiveRole
    <3>5. e.calls # {}
      BY <3>1, <3>3
    <3>6. QED
      BY <3>4, <3>5 DEF ExpectsResult
  <2>7. QED
    BY <2>5, <2>6
<1>6. QED
  BY <1>2, <1>4, <1>5 DEF Valid

\* Message x is the newest of the assistant's before f.
NewestBefore(msgs, x, f) ==
    x < f /\ msgs[x].role = "assistant" /\ \A k \in x + 1 .. f - 1 : msgs[k].role # "assistant"

\* Between an entry that is a result and its calls there are only results, unless one of
\* these has its number among the gaps.
LEMMA ResultBehindCalls ==
  ASSUME NEW msgs \in PlainMessages, NEW u, KeepsRoles(u), NEW place, NEW out,
         Arranged(place, out, msgs, u),
         Valid(out, u), NEW j \in 1 .. Len(out), IsResult(out[j]), NEW gaps,
         \A f \in 2 .. Len(msgs) : IsResult(msgs[f]) =>
           \A x \in 1 .. f - 1 :
             NewestBefore(msgs, x, f) /\ (\A k \in x + 1 .. f : msgs[k].text[1] \notin gaps)
               => msgs[f].result[1] \in msgs[x].calls
  PROVE  \E i \in 1 .. j - 1 :
           /\ out[i].role = "assistant" /\ ~IsResult(out[i])
           /\ \/ out[j].result[1] \in out[i].calls
              \/ \E k \in i + 1 .. j : out[k].result[2] \in gaps
           /\ \A k \in i + 1 .. j : IsResult(out[k])
<1> DEFINE T == {p \in 1 .. j : \A q \in p .. j : IsResult(out[q])}
<1>1. msgs \in MessageSeqs /\ Len(msgs) \in Nat \ {0} /\ Len(out) \in Nat \ {0}
  BY ArrangedTypes
<1> DEFINE Fact(i) == /\ msgs[i] \in Message /\ Plain(msgs[i])
                      /\ IsResult(msgs[i]) <=> msgs[i].role = "tool"
                      /\ place[i] \in 1 .. Len(out) /\ place[i] \in Int
                      /\ Placed(out[place[i]], i, place, msgs, u)
<1>t. \A i \in 1 .. Len(msgs) : Fact(i)
  BY ArrangedTypes, Zenon
<1>2. PICK p \in T : \A y \in T : p <= y
  <2>1. j \in T
    BY <1>1
  <2>2. T \in SUBSET Nat
    BY <1>1
  <2>3. QED
    BY <2>1, <2>2, HasLeast
<1>3. p \in 1 .. j /\ \A q \in p .. j : IsResult(out[q])
  OBVIOUS
<1>4. ~IsResult(out[1])
  <2>1. place[1] = 1 /\ 1 \in 1 .. Len(msgs)
    BY <1>1 DEF Arranged
  <2>2. out[1].role = msgs[1].role
    BY <1>t, <2>1 DEF Placed, Starts
  <2>3. msgs[1].role = "system"
    BY <2>2 DEF Valid
  <2>4. ~IsResult(msgs[1])
    BY <1>t, <2>1, <2>3
  <2>5. QED
    BY <2>1, <2>4, ResultsAreAlone
<1>5. p # 1 /\ p \in 2 .. Len(out) /\ p \in p .. j /\ p - 1 \in 1 .. j
  BY <1>1, <1>3, <1>4
<1>6. ~IsResult(out[p - 1])
  <2> SUFFICES ASSUME IsResult(out[p - 1]) PROVE FALSE
    OBVIOUS
  <2>1. \A q \in p - 1 .. j : q = p - 1 \/ q \in p .. j
    BY <1>3
  <2>2. p - 1 \in T
    BY <1>3, <1>5, <2>1
  <2>3. QED
    BY <1>2, <1>3, <2>2
<1> HIDE DEF T
<1>7. out[p - 1].role = "assistant"
  <2>1. ExpectsResult(out[p - 1])
    BY <1>3, <1>5 DEF Valid
  <2>2. QED
    BY <1>6, <2>1 DEF ExpectsResult
<1>8. \A k \in 1 .. Len(msgs) : /\ out[place[k]].role = msgs[k].role
                                 /\ msgs[k].calls \subseteq out[place[k]].calls
  BY <1>t DEF Placed, Holds, KeepsRoles
<1>9. PICK s \in 1 .. Len(msgs) : Opens(place, s, p)
  <2>1. p \in 1 .. Len(out)
    BY <1>1, <1>5
  <2>2. QED
    BY <1>1, <2>1, StartOf, Zenon
<1>10. PICK f \in 1 .. Len(msgs) : Opens(place, f, j)
  BY <1>1, StartOf, Zenon
<1>11. /\ s \in 2 .. Len(msgs) /\ s - 1 \in 1 .. Len(msgs)
       /\ place[s] = p /\ place[s - 1] = p - 1
       /\ place[f] = j
  BY <1>1, <1>5, <1>9, <1>10 DEF Opens
<1>12. s <= f
  <2> SUFFICES ASSUME f < s PROVE FALSE
    BY <1>1
  <2>1. f <= s - 1
    BY <1>1
  <2>2. place[f] <= place[s - 1]
    BY <1>1, <1>11, <2>1, PlacesGrow
  <2>3. QED
    BY <1>3, <1>11, <2>2
<1>13. ASSUME NEW k \in s .. f
       PROVE  /\ msgs[k].role # "assistant"
              /\ place[k] \in p .. j /\ out[place[k]].result[2] = msgs[k].text[1]
  <2>1. k \in 1 .. Len(msgs) /\ s <= k /\ k <= f
    BY <1>1
  <2>2. place[s] <= place[k] /\ place[k] <= place[f]
    BY <1>1, <2>1, PlacesGrow
  <2>3. place[k] \in p .. j
    BY <1>t, <1>11, <2>1, <2>2
  <2>4. IsResult(msgs[k]) /\ out[place[k]].result = msgs[k].result
    <3>1. IsResult(out[place[k]])
      BY <1>3, <2>3
    <3>2. QED
      BY <2>1, <3>1, ResultsAreAlone
  <2>5. msgs[k].role = "tool" /\ msgs[k].result[2] = msgs[k].text[1]
    BY <1>t, <2>1, <2>4 DEF Plain
  <2>6. QED
    BY <2>3, <2>4, <2>5
<1>14. IsResult(msgs[f]) /\ out[j].result = msgs[f].result
  <2>1. IsResult(out[place[f]])
    BY <1>11
  <2>2. IsResult(msgs[f]) /\ out[place[f]].result = msgs[f].result
    BY <2>1, ResultsAreAlone
  <2>3. QED
    BY <1>11, <2>2
<1>15. ASSUME \A k \in s .. f : msgs[k].text[1] \notin gaps
       PROVE  msgs[f].result[1] \in msgs[s - 1].calls
  <2>1. s - 1 \in 1 .. f - 1 /\ f \in 2 .. Len(msgs)
    BY <1>1, <1>11, <1>12
  <2>2. msgs[s - 1].role = "assistant"
    BY <1>7, <1>8, <1>11
  <2>3. \A k \in (s - 1) + 1 .. f - 1 : msgs[k].role # "assistant"
    BY <1>13
  <2>4. NewestBefore(msgs, s - 1, f)
    BY <2>1, <2>2, <2>3 DEF NewestBefore
  <2>5. \A k \in (s - 1) + 1 .. f : msgs[k].text[1] \notin gaps
    BY <1>1, <1>15
  <2>6. QED
    BY <1>14, <2>1, <2>4, <2>5
<1>16. \/ out[j].result[1] \in out[p - 1].calls
       \/ \E k \in p .. j : out[k].result[2] \in gaps
  <2>1. CASE \A k \in s .. f : msgs[k].text[1] \notin gaps
    BY <1>8, <1>11, <1>14, <1>15, <2>1
  <2>2. CASE \E k \in s .. f : msgs[k].text[1] \in gaps
    BY <1>13, <2>2
  <2>3. QED
    BY <2>1, <2>2
<1>17. p - 1 \in 1 .. j - 1 /\ (p - 1) + 1 = p
  BY <1>1, <1>3, <1>5
<1>18. QED
  BY <1>3, <1>6, <1>7, <1>16, <1>17

-----------------------------------------------------------------------------
(* The types of the variables. *)

LEMMA StoredMsg ==
  ASSUME NEW n \in Nat, NEW S \in SUBSET Calls, NEW r \in {"user", "assistant"}
  PROVE  /\ Msg(r, n, S) \in Stored /\ ~IsResult(Msg(r, n, S))
         /\ Msg(r, n, S).role = r /\ Msg(r, n, S).calls = S /\ Msg(r, n, S).text[1] = n
<1> DEFINE m == Msg(r, n, S)
           t == <<n>>
<1>1. m = [role |-> r, text |-> t, calls |-> S, result |-> <<>>]
  BY DEF Msg
<1>2. t \in Seq(Nat) /\ Len(t) = 1 /\ t[1] = n
  OBVIOUS
<1> HIDE DEF m, t
<1>3. m \in Message
  BY <1>1, <1>2 DEF Message
<1>4. ~IsResult(m)
  BY <1>1 DEF IsResult
<1>5. m.role = r /\ m.calls = S /\ m.text = t
  BY <1>1
<1>6. Plain(m)
  BY <1>2, <1>3, <1>4, <1>5 DEF Plain
<1>7. m \in Stored
  BY <1>3, <1>5, <1>6 DEF Stored
<1>8. QED
  BY <1>2, <1>4, <1>5, <1>7 DEF m

LEMMA StoredToolMsg ==
  ASSUME NEW c \in Calls, NEW n \in Nat
  PROVE  /\ ToolMsg(c, n) \in Stored /\ IsResult(ToolMsg(c, n))
         /\ ToolMsg(c, n).role = "tool" /\ ToolMsg(c, n).result[1] = c
         /\ ToolMsg(c, n).text[1] = n
<1> DEFINE m == ToolMsg(c, n)
           t == <<n>>
           o == <<c, n>>
<1>1. m = [role |-> "tool", text |-> t, calls |-> {}, result |-> o]
  <2> DEFINE r == Msg("tool", n, {})
  <2>1. r = [role |-> "tool", text |-> t, calls |-> {}, result |-> <<>>]
    BY DEF Msg
  <2>2. m = [r EXCEPT !.result = o]
    BY DEF ToolMsg, Result
  <2> HIDE DEF r, m, t, o
  <2>3. QED
    BY <2>1, <2>2
<1>2. t \in Seq(Nat) /\ Len(t) = 1 /\ t[1] = n
  OBVIOUS
<1>3. o \in Calls \X Nat /\ o # <<>> /\ o[1] = c /\ o[2] = n
  OBVIOUS
<1> HIDE DEF m, t, o
<1>4. m \in Message
  BY <1>1, <1>2, <1>3 DEF Message
<1>5. IsResult(m)
  BY <1>1, <1>3 DEF IsResult
<1>6. m.role = "tool" /\ m.calls = {} /\ m.text = t /\ m.result = o
  BY <1>1
<1>7. Plain(m)
  BY <1>2, <1>3, <1>4, <1>5, <1>6 DEF Plain
<1>8. m \in Stored
  BY <1>4, <1>6, <1>7 DEF Stored
<1>9. QED
  BY <1>2, <1>3, <1>5, <1>6, <1>8 DEF m

LEMMA PlainSystemMsg ==
  SystemMsg \in Message /\ Plain(SystemMsg) /\ ~IsResult(SystemMsg) /\ SystemMsg.role = "system"
<1> DEFINE m == SystemMsg
           t == <<0>>
<1>1. m = [role |-> "system", text |-> t, calls |-> {}, result |-> <<>>]
  BY DEF SystemMsg, Msg
<1>2. t \in Seq(Nat) /\ Len(t) = 1
  OBVIOUS
<1> HIDE DEF m, t
<1>3. m \in Message
  BY <1>1, <1>2 DEF Message
<1>4. ~IsResult(m)
  BY <1>1 DEF IsResult
<1>5. m.role = "system" /\ m.text = t
  BY <1>1
<1>6. Plain(m)
  BY <1>2, <1>3, <1>4, <1>5 DEF Plain
<1>7. QED
  BY <1>3, <1>4, <1>5, <1>6 DEF m

\* The rounds of LinesRead.
ReadRounds(R, seams) ==
    /\ R \in [0 .. Len(file) -> Seq(Stored)] /\ R[0] = <<>>
    /\ \A n \in 1 .. Len(file) : R[n] = AddRead(R[n - 1], n, seams)

LEMMA LinesAreRead ==
  ASSUME file \in Seq(Stored), NEW seams
  PROVE  \E R : ReadRounds(R, seams) /\ LinesRead(seams) = R[Len(file)]
<1> DEFINE N == Len(file)
           S == Seq(Stored)
           F == [n \in Nat |-> [l \in S |-> IF n + 1 <= N THEN AddRead(l, n + 1, seams) ELSE l]]
           b == <<>>
<1>1. N \in Nat /\ b \in S /\ \A n \in 1 .. N : file[n] \in Stored
  OBVIOUS
<1>2. \A n \in 1 .. N, l \in S : AddRead(l, n, seams) \in S
  BY <1>1 DEF AddRead
<1>3. ASSUME NEW n \in Nat PROVE F[n] \in [S -> S]
  <2>1. ASSUME NEW l \in S, n + 1 <= N PROVE AddRead(l, n + 1, seams) \in S
    <3>1. n + 1 \in 1 .. N
      BY <1>1, <2>1
    <3>2. QED
      BY <1>2, <3>1
  <2> HIDE DEF S
  <2>2. QED
    BY <2>1
<1>4. \A n \in Nat, l \in S : n + 1 <= N => F[n][l] = AddRead(l, n + 1, seams)
  OBVIOUS
<1>5. F \in Loops(S)
  BY <1>3 DEF Loops
<1> HIDE DEF F, S, b
<1>6. PICK g \in [Nat -> S] : Computes(g, F, b)
  BY <1>1, <1>5, Iteration
<1>7. g[0] = b /\ \A n \in Nat : g[n + 1] = F[n][g[n]]
  BY <1>6 DEF Computes
<1> DEFINE R == [n \in 0 .. N |-> g[n]]
           Step(f) == [n \in 0 .. N |-> IF n = 0 THEN b ELSE AddRead(f[n - 1], n, seams)]
<1>8. R \in [0 .. N -> S] /\ R[0] = b
  BY <1>1, <1>7
<1>9. ASSUME NEW n \in 1 .. N PROVE R[n] = AddRead(R[n - 1], n, seams)
  <2>1. n - 1 \in Nat /\ (n - 1) + 1 = n /\ n \in 0 .. N /\ n - 1 \in 0 .. N
    BY <1>1
  <2>2. g[n] = F[n - 1][g[n - 1]]
    BY <1>7, <2>1
  <2>3. R[n] = g[n] /\ R[n - 1] = g[n - 1] /\ g[n - 1] \in S
    BY <2>1
  <2>4. QED
    BY <1>4, <2>1, <2>2, <2>3
<1> HIDE DEF R
<1>10. R = Step(R)
  <2>1. ASSUME NEW n \in 0 .. N PROVE R[n] = Step(R)[n]
    BY <1>1, <1>8, <1>9
  <2>2. QED
    BY <1>8, <2>1
<1> DEFINE h == CHOOSE f : f = Step(f)
<1>11. h = Step(h)
  BY <1>10
<1>12. LinesRead(seams) = h[N]
  BY DEF LinesRead, b
<1> HIDE DEF h
<1>13. h[0] = b /\ \A n \in 1 .. N : h[n] = AddRead(h[n - 1], n, seams)
  BY <1>1, <1>11
<1>14. \A n \in 0 .. N : h[n] \in S
  <2> DEFINE P == {n \in Nat : n <= N => h[n] \in S}
  <2>1. 0 \in P
    BY <1>1, <1>13
  <2>2. ASSUME NEW n \in P PROVE n + 1 \in P
    <3>1. CASE n + 1 <= N
      <4>1. n + 1 \in 1 .. N /\ (n + 1) - 1 = n /\ h[n] \in S
        BY <1>1, <2>2, <3>1
      <4>2. QED
        BY <1>2, <1>13, <4>1
    <3>2. CASE ~(n + 1 <= N)
      BY <3>2
    <3>3. QED
      BY <3>1, <3>2
  <2> HIDE DEF P
  <2>3. P \in SUBSET Nat
    BY DEF P
  <2>4. P = Nat
    BY <2>1, <2>2, <2>3, Induction
  <2>5. QED
    BY <1>1, <2>4 DEF P
<1>15. h \in [0 .. N -> S]
  BY <1>11, <1>14
<1>16. QED
  BY <1>12, <1>13, <1>15 DEF ReadRounds, S, b

\* The lines that are read are messages of the file in its order.
LEMMA ReadIsChosen ==
  ASSUME file \in Seq(Stored), NEW seams
  PROVE  LinesRead(seams) \in Seq(Stored) /\ (Numbered(file) => Chosen(LinesRead(seams), file))
<1>1. PICK R : ReadRounds(R, seams) /\ LinesRead(seams) = R[Len(file)]
  BY LinesAreRead
<1> DEFINE N == Len(file)
<1>2. /\ N \in Nat /\ R \in [0 .. N -> Seq(Stored)] /\ R[0] = <<>>
      /\ \A n \in 1 .. N : R[n] = AddRead(R[n - 1], n, seams)
  BY <1>1 DEF ReadRounds
<1>3. ASSUME Numbered(file) PROVE Chosen(R[N], file)
  <2> DEFINE Upto(n) == \A k \in 1 .. Len(R[n]) : R[n][k].text[1] \in 1 .. n
             P == {n \in Nat : n <= N => Upto(n) /\ Chosen(R[n], file)}
  <2>1. 0 \in P
    BY <1>2 DEF Chosen
  <2>2. ASSUME NEW n \in P PROVE n + 1 \in P
    <3> SUFFICES ASSUME n + 1 <= N PROVE Upto(n + 1) /\ Chosen(R[n + 1], file)
      OBVIOUS
    <3>1. /\ n \in Nat /\ n + 1 \in 1 .. N /\ (n + 1) - 1 = n /\ n \in 0 .. N
          /\ Upto(n) /\ Chosen(R[n], file)
      BY <1>2, <2>2
    <3>2. R[n + 1] = AddRead(R[n], n + 1, seams)
      BY <1>2, <3>1
    <3>3. CASE n + 1 \in Spoils(seams)
      <4>1. R[n + 1] = R[n]
        BY <3>2, <3>3 DEF AddRead
      <4>2. \A i \in 1 .. n : i \in 1 .. n + 1
        BY <3>1
      <4>3. QED
        BY <3>1, <4>1, <4>2
    <3>4. CASE n + 1 \notin Spoils(seams)
      <4>1. PICK r \in Seq(Stored), m \in Stored : r = R[n] /\ m = file[n + 1]
        BY <1>2, <3>1
      <4>2. m.text[1] = n + 1
        BY <1>3, <3>1, <4>1 DEF Numbered
      <4>3. PICK t \in Seq(Stored) : t = R[n + 1] /\ t = Append(r, m)
        <5>1. R[n + 1] = Append(r, m)
          BY <3>2, <3>4, <4>1 DEF AddRead
        <5>2. Append(r, m) \in Seq(Stored)
          OBVIOUS
        <5>3. QED
          BY <5>1, <5>2
      <4>4. /\ Len(r) \in Nat /\ Len(t) = Len(r) + 1 /\ t[Len(r) + 1] = m
            /\ \A k \in 1 .. Len(r) : t[k] = r[k]
        BY <4>3
      <4>5. \A k \in 1 .. Len(r) :
              /\ r[k].text[1] \in 1 .. n /\ file[r[k].text[1]] = r[k]
              /\ \A q \in 1 .. k - 1 : r[q].text[1] < r[k].text[1]
        BY <3>1, <4>1 DEF Chosen
      <4>6. ASSUME NEW k \in 1 .. Len(t)
            PROVE  /\ t[k].text[1] \in 1 .. n + 1 /\ file[t[k].text[1]] = t[k]
                   /\ \A q \in 1 .. k - 1 : t[q].text[1] < t[k].text[1]
        <5>1. CASE k \in 1 .. Len(r)
          <6>1. \A q \in 1 .. k - 1 : q \in 1 .. Len(r)
            BY <4>4, <5>1
          <6>2. t[k] = r[k] /\ r[k].text[1] \in 1 .. n /\ file[r[k].text[1]] = r[k]
            BY <4>4, <4>5, <5>1
          <6>3. r[k].text[1] \in 1 .. n + 1
            BY <3>1, <6>2
          <6>4. \A q \in 1 .. k - 1 : t[q] = r[q] /\ r[q].text[1] < r[k].text[1]
            BY <4>4, <4>5, <5>1, <6>1
          <6>5. QED
            BY <6>2, <6>3, <6>4
        <5>2. CASE k = Len(r) + 1
          <6>1. t[k] = m /\ \A q \in 1 .. k - 1 : q \in 1 .. Len(r) /\ t[q] = r[q]
            BY <4>4, <5>2
          <6>2. \A q \in 1 .. k - 1 : t[q].text[1] < n + 1
            BY <3>1, <4>5, <6>1
          <6>3. QED
            BY <3>1, <4>1, <4>2, <6>1, <6>2
        <5>3. QED
          BY <4>4, <5>1, <5>2
      <4>7. \A i \in 1 .. n + 1 : i \in 1 .. N
        BY <1>2, <3>1
      <4>8. QED
        BY <4>3, <4>6, <4>7 DEF Chosen
    <3>5. QED
      BY <3>3, <3>4
  <2> HIDE DEF P
  <2>3. P \in SUBSET Nat
    BY DEF P
  <2>4. N \in P
    BY <1>2, <2>1, <2>2, <2>3, Induction
  <2>5. QED
    BY <1>2, <2>4 DEF P
<1>4. R[N] \in Seq(Stored)
  BY <1>2
<1>5. QED
  BY <1>1, <1>3, <1>4

\* What LoadTail loads is chosen from the file.
LEMMA LoadIsChosen ==
  ASSUME file \in Seq(Stored), NEW b \in Nat, NEW seams
  PROVE  /\ LoadTail(b, seams) \in Seq(Stored)
         /\ Numbered(file) => Chosen(LoadTail(b, seams), file)
<1>1. PICK h \in Seq(Stored) : h = LinesRead(seams)
  BY ReadIsChosen
<1>2. PICK n \in Nat \ {0} : LoadTail(b, seams) = Newest(h, n)
  BY <1>1 DEF LoadTail
<1>3. Len(h) \in Nat
  OBVIOUS
<1>4. PICK d \in Nat, t \in Seq(Stored) :
        /\ t = Newest(h, n) /\ Len(t) + d = Len(h)
        /\ \A k \in 1 .. Len(t) : t[k] = h[d + k]
  <2>1. CASE n >= Len(h)
    <3>1. Newest(h, n) = h /\ Len(h) + 0 = Len(h) /\ \A k \in 1 .. Len(h) : h[k] = h[0 + k]
      BY <1>3, <2>1 DEF Newest
    <3>2. QED
      BY <3>1
  <2>2. CASE n < Len(h)
    <3> DEFINE t == SubSeq(h, Len(h) - n + 1, Len(h))
               d == Len(h) - n
    <3>1. Newest(h, n) = t /\ d \in Nat
      BY <1>3, <2>2 DEF Newest
    <3>2. Len(h) - n + 1 \in 1 .. Len(h) /\ Len(h) - n + 1 <= Len(h) + 1
      BY <1>3, <2>2
    <3>3. t \in Seq(Stored) /\ Len(t) = n /\ \A k \in 1 .. n : t[k] = h[Len(h) - n + k]
      BY <1>3, <2>2, <3>2
    <3>4. Len(t) + d = Len(h) /\ \A k \in 1 .. Len(t) : t[k] = h[d + k]
      BY <1>3, <3>3
    <3> HIDE DEF t, d
    <3>5. QED
      BY <3>1, <3>3, <3>4
  <2>3. QED
    BY <1>3, <2>1, <2>2
<1>5. ASSUME Numbered(file) PROVE Chosen(t, file)
  <2>1. Chosen(h, file)
    BY <1>1, <1>5, ReadIsChosen
  <2>2. ASSUME NEW k \in 1 .. Len(t)
        PROVE  /\ t[k].text[1] \in 1 .. Len(file) /\ file[t[k].text[1]] = t[k]
               /\ \A q \in 1 .. k - 1 : t[q].text[1] < t[k].text[1]
    <3>1. d + k \in 1 .. Len(h) /\ t[k] = h[d + k]
      BY <1>3, <1>4
    <3>2. ASSUME NEW q \in 1 .. k - 1 PROVE d + q \in 1 .. (d + k) - 1 /\ t[q] = h[d + q]
      BY <1>4
    <3>3. QED
      BY <2>1, <3>1, <3>2 DEF Chosen
  <2>3. QED
    BY <2>2 DEF Chosen
<1>6. QED
  BY <1>2, <1>4, <1>5

LEMMA AppendStored ==
  ASSUME TypeInv, NEW m \in Stored
  PROVE  Append(file, m) \in Seq(Stored) /\ Append(memory, m) \in Seq(Stored)
BY DEF TypeInv

\* A message that cannot be stored, too, is in the file or it is not.
LEMMA StoreFailsTypes ==
  ASSUME TypeInv, NEW m \in Stored, StoreFails(m)
  PROVE  file' \in Seq(Stored) /\ failures' \in Nat
<1>1. file \in Seq(Stored) /\ Append(file, m) \in Seq(Stored) /\ failures \in Nat
  BY AppendStored DEF TypeInv
<1>2. (file' = file \/ file' = Append(file, m)) /\ failures' = failures + 1
  BY DEF StoreFails, stored
<1>3. QED
  BY <1>1, <1>2

LEMMA TypeInvInit == Init => TypeInv
<1>1. <<>> \in Seq(Stored) /\ {} \in SUBSET Calls /\ 0 \in Nat
  OBVIOUS
<1>2. FALSE \in BOOLEAN
  OBVIOUS
<1>3. QED
  BY <1>1, <1>2, Zenon DEF Init, TypeInv

LEMMA TypeInvStep == TypeInv /\ [Next]_vars => TypeInv'
<1> SUFFICES ASSUME TypeInv, [Next]_vars PROVE TypeInv'
  OBVIOUS
<1>1. /\ file \in Seq(Stored) /\ history \in Seq(Stored) /\ memory \in Seq(Stored)
      /\ toolRole \in BOOLEAN /\ failures \in Nat /\ todo \in SUBSET Calls
      /\ <<>> \in Seq(Stored) /\ Len(file) \in Nat /\ NextNumber \in Nat
  BY DEF TypeInv, NextNumber
<1>2. CASE UNCHANGED vars
  BY <1>1, <1>2 DEF TypeInv, vars, notes, stored
<1>3. CASE StartRun
  <2>1. ASSUME NEW b \in Budgets, NEW seams PROVE LoadTail(b, seams) \in Seq(Stored)
    BY <1>1, BoundsAssumption, LoadIsChosen
  <2>2. history' \in Seq(Stored) /\ memory' = <<>> /\ toolRole' \in BOOLEAN
    BY <1>1, <1>3, <2>1 DEF StartRun
  <2>3. UNCHANGED <<file, todo, failures>>
    BY <1>3 DEF StartRun, notes, stored
  <2>4. QED
    BY <1>1, <2>2, <2>3 DEF TypeInv
<1>4. CASE AddPrompt
  <2> DEFINE m == Msg("user", NextNumber, {})
  <2>1. m \in Stored /\ Append(file, m) \in Seq(Stored) /\ Append(memory, m) \in Seq(Stored)
    BY <1>1, StoredMsg, AppendStored
  <2>2. /\ Store(m) \/ (StoreFails(m) /\ UNCHANGED memory) \/ UNCHANGED <<stored, memory, failures>>
        /\ UNCHANGED <<history, toolRole, todo>>
    BY <1>4 DEF AddPrompt
  <2> HIDE DEF m
  <2>3. file' \in Seq(Stored) /\ memory' \in Seq(Stored) /\ failures' \in Nat
    BY <1>1, <2>1, <2>2, StoreFailsTypes DEF Store, AppendToFile, stored
  <2>4. QED
    BY <1>1, <2>2, <2>3 DEF TypeInv
<1>5. CASE GenerateChat
  BY <1>1, <1>5 DEF TypeInv, GenerateChat, notes, stored
<1>6. CASE RequestFails
  BY <1>1, <1>6 DEF TypeInv, RequestFails, EndRun, notes, stored
<1>7. CASE Answer
  <2> DEFINE m == Msg("assistant", NextNumber, {})
  <2>1. m \in Stored /\ Append(file, m) \in Seq(Stored)
    BY <1>1, StoredMsg, AppendStored
  <2>2. (AppendToFile(m) \/ StoreFails(m)) /\ EndRun
    BY <1>7 DEF Answer
  <2> HIDE DEF m
  <2>3. file' \in Seq(Stored) /\ failures' \in Nat
    BY <1>1, <2>1, <2>2, StoreFailsTypes DEF AppendToFile
  <2>4. QED
    BY <1>1, <2>2, <2>3 DEF TypeInv, EndRun
<1>8. ASSUME NEW S \in SUBSET Calls, MakeCalls(S) PROVE TypeInv'
  <2> DEFINE m == Msg("assistant", NextNumber, S)
  <2>1. m \in Stored /\ Append(file, m) \in Seq(Stored) /\ Append(memory, m) \in Seq(Stored)
    BY <1>1, StoredMsg, AppendStored
  <2>2. /\ Store(m) \/ (StoreFails(m) /\ UNCHANGED memory)
        /\ todo' = S /\ UNCHANGED <<history, toolRole>>
    BY <1>8 DEF MakeCalls
  <2> HIDE DEF m
  <2>3. file' \in Seq(Stored) /\ memory' \in Seq(Stored) /\ failures' \in Nat
    BY <1>1, <2>1, <2>2, StoreFailsTypes DEF Store, AppendToFile
  <2>4. QED
    BY <1>1, <2>2, <2>3 DEF TypeInv
<1>9. ASSUME NEW S \in SUBSET Calls, Decide(S) PROVE TypeInv'
  BY <1>1, <1>9 DEF TypeInv, Decide, notes, stored
<1>10. CASE Cancel
  BY <1>1, <1>10 DEF TypeInv, Cancel, EndRun, notes, stored
<1>11. ASSUME NEW c \in Calls, ToolResult(c) PROVE TypeInv'
  <2> DEFINE m == ToolMsg(c, NextNumber)
  <2>1. m \in Stored /\ Append(file, m) \in Seq(Stored) /\ Append(memory, m) \in Seq(Stored)
    BY <1>1, StoredToolMsg, AppendStored
  <2>2. \/ Store(m) /\ todo' = todo \ {c} /\ UNCHANGED <<history, toolRole, pc, denied>>
        \/ StoreFails(m) /\ EndRun
    BY <1>11 DEF ToolResult
  <2> HIDE DEF m
  <2>3. CASE Store(m) /\ todo' = todo \ {c} /\ UNCHANGED <<history, toolRole, pc, denied>>
    BY <1>1, <2>1, <2>3 DEF TypeInv, Store, AppendToFile
  <2>4. CASE StoreFails(m) /\ EndRun
    <3>1. file' \in Seq(Stored) /\ failures' \in Nat
      BY <2>1, <2>4, StoreFailsTypes
    <3>2. QED
      BY <1>1, <2>4, <3>1 DEF TypeInv, EndRun
  <2>5. QED
    BY <2>2, <2>3, <2>4
<1>12. ASSUME NEW c \in Calls, SkillResult(c) PROVE TypeInv'
  <2> DEFINE added == <<Msg("user", NextNumber, {}), ToolMsg(c, NextNumber + 1)>>
  <2>1. Msg("user", NextNumber, {}) \in Stored /\ ToolMsg(c, NextNumber + 1) \in Stored
    BY <1>1, StoredMsg, StoredToolMsg
  <2>2. added \in Seq(Stored)
    BY <2>1
  <2>3. file' = file \o added /\ memory' = memory \o added /\ todo' = todo \ {c}
        /\ UNCHANGED <<history, toolRole, failures>>
    BY <1>12 DEF SkillResult
  <2> HIDE DEF added
  <2>4. QED
    BY <1>1, <2>2, <2>3 DEF TypeInv
<1>13. ASSUME NEW c \in Calls, SkillFails(c) PROVE TypeInv'
  <2> DEFINE u == Msg("user", NextNumber, {})
             added == <<u, ToolMsg(c, NextNumber + 1)>>
  <2>1. u \in Stored /\ ToolMsg(c, NextNumber + 1) \in Stored
    BY <1>1, StoredMsg, StoredToolMsg
  <2>2. Append(file, u) \in Seq(Stored) /\ added \in Seq(Stored)
    BY <1>1, <2>1
  <2>3. (file' = Append(file, u) \/ file' = file \o added) /\ failures' = failures + 1 /\ EndRun
    BY <1>13 DEF SkillFails
  <2> HIDE DEF u, added
  <2>4. file \o added \in Seq(Stored)
    BY <1>1, <2>2
  <2>5. file' \in Seq(Stored)
    BY <2>2, <2>3, <2>4, Zenon
  <2>6. failures' \in Nat
    BY <1>1, <2>3
  <2>7. QED
    BY <1>1, <2>3, <2>5, <2>6 DEF TypeInv, EndRun
<1>14. CASE ToolsDone
  BY <1>1, <1>14 DEF TypeInv, ToolsDone, EndRun, notes, stored
<1>15. QED
  BY <1>2, <1>3, <1>4, <1>5, <1>6, <1>7, <1>8, <1>9, <1>10, <1>11, <1>12, <1>13, <1>14 DEF Next

\* The session file, the loaded tail and the memory of the run hold messages of the kinds
\* the program makes: prompts, answers, calls, and results made of one output.
THEOREM ContextTypes == Spec => []TypeInv
BY TypeInvInit, TypeInvStep, PTL DEF Spec

-----------------------------------------------------------------------------
(* What is sent is what GenerateChat made of the context, and it is valid. *)

LEMMA RequestInvStep == RequestInv /\ [Next]_vars => RequestInv'
<1> SUFFICES ASSUME RequestInv, [Next]_vars PROVE RequestInv'
  OBVIOUS
<1>1. CASE UNCHANGED vars
  BY <1>1 DEF RequestInv, vars, Normalized, BuildContext
<1>2. CASE GenerateChat
  <2>1. Normalized' = Normalized /\ toolRole' = toolRole
    BY <1>2 DEF GenerateChat, Normalized, BuildContext
  <2>2. IF ValidateRoles /\ ~Valid(Normalized, toolRole)
          THEN pc' = "refused" /\ payload' = <<>>
          ELSE pc' = "asked" /\ payload' = Payload(Normalized, toolRole)
    BY <1>2 DEF GenerateChat, Normalized
  <2>3. QED
    BY <2>1, <2>2 DEF RequestInv
<1>3. CASE ~GenerateChat /\ Next
  <2>1. pc' \notin {"asked", "refused"}
    BY <1>3 DEF Next, StartRun, AddPrompt, RequestFails, Answer, MakeCalls, Decide, Cancel,
                ToolResult, SkillResult, SkillFails, ToolsDone, EndRun
  <2>2. QED
    BY <2>1 DEF RequestInv
<1>4. QED
  BY <1>1, <1>2, <1>3

LEMMA RequestsAreNormalized == Spec => []RequestInv
<1>1. Init => RequestInv
  BY DEF Init, RequestInv
<1>2. QED
  BY <1>1, RequestInvStep, PTL DEF Spec

-----------------------------------------------------------------------------
(* The context, the file and the calls that are due. *)

LEMMA Joined ==
  ASSUME NEW X, NEW a \in Seq(X), NEW b \in Seq(X)
  PROVE  /\ a \o b \in Seq(X) /\ Len(a \o b) = Len(a) + Len(b)
         /\ \A k \in 1 .. Len(a) : (a \o b)[k] = a[k]
         /\ \A k \in 1 .. Len(b) : (a \o b)[Len(a) + k] = b[k]
OBVIOUS

\* The same of a sequence that has a name.
LEMMA JoinedAs ==
  ASSUME NEW X, NEW a \in Seq(X), NEW b \in Seq(X), NEW s, s = a \o b
  PROVE  /\ s \in Seq(X) /\ Len(s) = Len(a) + Len(b)
         /\ \A k \in 1 .. Len(a) : s[k] = a[k]
         /\ \A k \in 1 .. Len(b) : s[Len(a) + k] = b[k]
BY Joined

LEMMA ContextShape ==
  ASSUME TypeInv
  PROVE  /\ BuildContext \in PlainMessages
         /\ Len(BuildContext) = 1 + Len(history) + Len(memory)
         /\ BuildContext[1] = SystemMsg
         /\ \A k \in 1 .. Len(history) : BuildContext[k + 1] = history[k]
         /\ \A k \in 1 .. Len(memory) : BuildContext[1 + Len(history) + k] = memory[k]
<1> DEFINE s == <<SystemMsg>>
           h == s \o history
           c == h \o memory
<1>1. /\ history \in Seq(Stored) /\ memory \in Seq(Stored)
      /\ Len(history) \in Nat /\ Len(memory) \in Nat
  BY DEF TypeInv
<1>2. Stored \subseteq Message /\ SystemMsg \in Message
  BY PlainSystemMsg DEF Stored
<1>3. s \in Seq(Message) /\ s[1] = SystemMsg /\ Len(s) = 1
  BY <1>2
<1>4. s \in Seq(Message) /\ history \in Seq(Message) /\ memory \in Seq(Message)
  BY <1>1, <1>2, <1>3
<1> HIDE DEF s, h
<1>5. /\ h \in Seq(Message) /\ Len(h) = Len(s) + Len(history)
      /\ \A k \in 1 .. Len(s) : h[k] = s[k]
      /\ \A k \in 1 .. Len(history) : h[Len(s) + k] = history[k]
  BY <1>4, JoinedAs DEF h
<1> HIDE DEF c
<1>6. /\ c \in Seq(Message) /\ Len(c) = 1 + Len(history) + Len(memory) /\ c[1] = SystemMsg
      /\ \A k \in 1 .. Len(history) : c[k + 1] = history[k]
      /\ \A k \in 1 .. Len(memory) : c[1 + Len(history) + k] = memory[k]
  <2>1. h \in Seq(Message)
    BY <1>5
  <2>2. /\ c \in Seq(Message) /\ Len(c) = Len(h) + Len(memory)
        /\ \A k \in 1 .. Len(h) : c[k] = h[k]
        /\ \A k \in 1 .. Len(memory) : c[Len(h) + k] = memory[k]
    BY <1>4, <2>1, JoinedAs DEF c
  <2>3. /\ Len(h) = 1 + Len(history) /\ h[1] = SystemMsg
        /\ \A k \in 1 .. Len(history) : h[k + 1] = history[k]
    BY <1>1, <1>3, <1>5
  <2>4. 1 \in 1 .. Len(h) /\ \A k \in 1 .. Len(history) : k + 1 \in 1 .. Len(h)
    BY <1>1, <2>3
  <2>5. QED
    BY <2>2, <2>3, <2>4
<1>7. ASSUME NEW k \in 1 .. Len(c) PROVE Plain(c[k])
  <2>1. CASE k = 1
    BY <1>6, <2>1, PlainSystemMsg
  <2>2. CASE k \in 2 .. 1 + Len(history)
    <3>1. k - 1 \in 1 .. Len(history) /\ (k - 1) + 1 = k
      BY <1>1, <2>2
    <3>2. c[k] = history[k - 1] /\ history[k - 1] \in Stored
      BY <1>1, <1>6, <3>1
    <3>3. QED
      BY <3>2 DEF Stored
  <2>3. CASE k \in 2 + Len(history) .. 1 + Len(history) + Len(memory)
    <3> DEFINE i == k - (1 + Len(history))
    <3>1. i \in 1 .. Len(memory) /\ 1 + Len(history) + i = k
      BY <1>1, <2>3
    <3> HIDE DEF i
    <3>2. c[k] = memory[i] /\ memory[i] \in Stored
      BY <1>1, <1>6, <3>1
    <3>3. QED
      BY <3>2 DEF Stored
  <2>4. QED
    BY <1>1, <1>6, <2>1, <2>2, <2>3
<1>8. c \in MessageSeqs
  BY <1>1, <1>6 DEF MessageSeqs
<1>9. c \in PlainMessages
  BY <1>7, <1>8 DEF PlainMessages
<1>10. BuildContext = c
  BY DEF BuildContext, c, h, s
<1>11. QED
  BY <1>6, <1>9, <1>10

LEMMA SameBacked ==
  ASSUME NEW s \in Seq(Stored), NEW t \in Seq(Stored), Len(s) <= Len(t),
         \A k \in 1 .. Len(s) : t[k] = s[k],
         NEW n \in 0 .. Len(s), NEW S, CalledBefore(s, n, S)
  PROVE  CalledBefore(t, n, S)
<1>1. Len(s) \in Nat /\ Len(t) \in Nat
  OBVIOUS
<1>2. PICK a \in 1 .. n : /\ s[a].role = "assistant" /\ S \subseteq s[a].calls
                          /\ \A k \in a + 1 .. n : s[k].role # "assistant"
  BY DEF CalledBefore
<1>3. a \in 1 .. Len(s) /\ \A k \in a + 1 .. n : k \in 1 .. Len(s)
  BY <1>1
<1>4. t[a] = s[a] /\ \A k \in a + 1 .. n : t[k] = s[k]
  BY <1>3
<1>5. QED
  BY <1>2, <1>4 DEF CalledBefore

\* What is behind the newest calls does not take them away.
LEMMA StillCalled ==
  ASSUME NEW s, NEW n \in Nat, NEW S, NEW U, CalledBefore(s, n, S), U \subseteq S,
         s[n + 1].role # "assistant"
  PROVE  CalledBefore(s, n + 1, U)
<1>1. PICK a \in 1 .. n : /\ s[a].role = "assistant" /\ S \subseteq s[a].calls
                          /\ \A k \in a + 1 .. n : s[k].role # "assistant"
  BY DEF CalledBefore
<1>2. a \in 1 .. n + 1 /\ U \subseteq s[a].calls
  BY <1>1
<1>3. \A k \in a + 1 .. n + 1 : k \in a + 1 .. n \/ k = n + 1
  OBVIOUS
<1>4. \A k \in a + 1 .. n + 1 : s[k].role # "assistant"
  BY <1>1, <1>3
<1>5. QED
  BY <1>1, <1>2, <1>4 DEF CalledBefore

LEMMA FewerCalled ==
  ASSUME NEW s, NEW n, NEW S, NEW U, CalledBefore(s, n, S), U \subseteq S
  PROVE  CalledBefore(s, n, U)
BY DEF CalledBefore

\* A message that is appended to the file leaves the results before it backed.
LEMMA AppendBacked ==
  ASSUME NEW s \in Seq(Stored), NEW m \in Stored, NEW old, NEW skills, old \subseteq skills,
         \A f \in 1 .. Len(s) : Backed(s, old, f),
         IsResult(m) => Backed(Append(s, m), skills, Len(s) + 1)
  PROVE  \A f \in 1 .. Len(Append(s, m)) : Backed(Append(s, m), skills, f)
<1> DEFINE t == Append(s, m)
<1>1. /\ t \in Seq(Stored) /\ Len(s) \in Nat /\ Len(t) = Len(s) + 1
      /\ t[Len(s) + 1] = m /\ \A k \in 1 .. Len(s) : t[k] = s[k]
  OBVIOUS
<1>2. IsResult(m) => Backed(t, skills, Len(s) + 1)
  OBVIOUS
<1> HIDE DEF t
<1>3. ASSUME NEW f \in 1 .. Len(s) PROVE Backed(t, skills, f)
  <2> SUFFICES ASSUME IsResult(t[f])
               PROVE  /\ f > 1 /\ (ExpectsResult(t[f - 1]) \/ t[f - 1].text[1] \in skills)
                      /\ CalledBefore(t, f - 1, {t[f].result[1]})
    BY DEF Backed
  <2>1. t[f] = s[f]
    BY <1>1
  <2>2. /\ f > 1 /\ (ExpectsResult(s[f - 1]) \/ s[f - 1].text[1] \in old)
        /\ CalledBefore(s, f - 1, {s[f].result[1]})
    BY <2>1 DEF Backed
  <2>3. f - 1 \in 1 .. Len(s) /\ f - 1 \in 0 .. Len(s)
    BY <1>1, <2>2
  <2>4. t[f - 1] = s[f - 1]
    BY <1>1, <2>3
  <2>5. CalledBefore(t, f - 1, {t[f].result[1]})
    BY <1>1, <2>1, <2>2, <2>3, SameBacked
  <2>6. QED
    BY <2>2, <2>4, <2>5
<1>4. Backed(t, skills, Len(s) + 1)
  BY <1>1, <1>2 DEF Backed
<1>5. \A f \in 1 .. Len(t) : f \in 1 .. Len(s) \/ f = Len(s) + 1
  BY <1>1
<1>6. \A f \in 1 .. Len(t) : Backed(t, skills, f)
  BY <1>3, <1>4, <1>5
<1>7. QED
  BY <1>6 DEF t

LEMMA CallsAreDue ==
  ASSUME NEW s \in Seq(Stored), NEW m \in Stored, m.role = "assistant", m.calls # {}
  PROVE  Due(Append(s, m), m.calls)
<1> DEFINE t == Append(s, m)
<1>1. Len(s) \in Nat /\ Len(t) = Len(s) + 1 /\ t[Len(t)] = m
  OBVIOUS
<1> HIDE DEF t
<1>2. CalledBefore(t, Len(t), m.calls)
  <2>1. Len(t) \in 1 .. Len(t) /\ \A k \in Len(t) + 1 .. Len(t) : FALSE
    BY <1>1
  <2>2. QED
    BY <1>1, <2>1 DEF CalledBefore
<1>3. Due(t, m.calls)
  BY <1>1, <1>2 DEF Due, ExpectsResult
<1>4. QED
  BY <1>3 DEF t

LEMMA ResultIsBacked ==
  ASSUME NEW s \in Seq(Stored), NEW skills, NEW S, NEW m \in Stored,
         Len(s) > 0, ExpectsResult(s[Len(s)]) \/ s[Len(s)].text[1] \in skills,
         CalledBefore(s, Len(s), S),
         IsResult(m), m.role = "tool", m.result[1] \in S
  PROVE  Backed(Append(s, m), skills, Len(s) + 1) /\ Due(Append(s, m), S \ {m.result[1]})
<1> DEFINE t == Append(s, m)
           n == Len(s)
           c == m.result[1]
<1>1. /\ n \in Nat \ {0} /\ n \in 0 .. n /\ n \in 1 .. n /\ t \in Seq(Stored) /\ Len(t) = n + 1
      /\ t[n + 1] = m /\ \A k \in 1 .. n : t[k] = s[k]
  OBVIOUS
<1> HIDE DEF t
<1>2. CalledBefore(t, n, S)
  BY <1>1, SameBacked
<1>3. t[n] = s[n]
  BY <1>1
<1>4. Backed(t, skills, n + 1)
  <2>1. CalledBefore(t, n, {c})
    BY <1>2, FewerCalled
  <2>2. n + 1 > 1 /\ (n + 1) - 1 = n
    BY <1>1
  <2>3. QED
    BY <1>1, <1>3, <2>1, <2>2 DEF Backed
<1>5. CalledBefore(t, n + 1, S \ {c})
  BY <1>1, <1>2, StillCalled
<1>6. Due(t, S \ {c})
  BY <1>1, <1>5 DEF Due, ExpectsResult
<1>7. QED
  BY <1>4, <1>6 DEF t

\* A message with the next number is added to the file and to what was chosen of it.
LEMMA NumberedAppend ==
  ASSUME NEW s \in Seq(Stored), NEW m \in Stored, Numbered(s), m.text[1] = Len(s) + 1
  PROVE  Numbered(Append(s, m))
<1> DEFINE t == Append(s, m)
<1>1. /\ Len(s) \in Nat /\ Len(t) = Len(s) + 1 /\ t[Len(s) + 1] = m
      /\ \A k \in 1 .. Len(s) : t[k] = s[k]
  OBVIOUS
<1> HIDE DEF t
<1>2. \A k \in 1 .. Len(t) : k \in 1 .. Len(s) \/ k = Len(s) + 1
  BY <1>1
<1>3. Numbered(t)
  BY <1>1, <1>2 DEF Numbered
<1>4. QED
  BY <1>3 DEF t

LEMMA PickedAppend ==
  ASSUME NEW c \in MessageSeqs, NEW s \in Seq(Stored), NEW m \in Stored, Picked(c, s),
         m.text[1] = Len(s) + 1
  PROVE  Picked(Append(c, m), Append(s, m))
<1> DEFINE d == Append(c, m)
           t == Append(s, m)
<1>1. Len(c) \in Nat \ {0} /\ Len(s) \in Nat
  BY DEF MessageSeqs
<1>2. Len(d) = Len(c) + 1 /\ d[Len(c) + 1] = m /\ \A k \in 1 .. Len(c) : d[k] = c[k]
  BY DEF MessageSeqs
<1>3. Len(t) = Len(s) + 1 /\ t[Len(s) + 1] = m /\ \A k \in 1 .. Len(s) : t[k] = s[k]
  OBVIOUS
<1> HIDE DEF d, t
<1>4. \A k \in 2 .. Len(c) : /\ c[k].text[1] \in 1 .. Len(s) /\ s[c[k].text[1]] = c[k]
                             /\ \A q \in 2 .. k - 1 : c[q].text[1] < c[k].text[1]
  BY DEF Picked
<1>5. ASSUME NEW k \in 2 .. Len(d)
      PROVE  /\ d[k].text[1] \in 1 .. Len(t) /\ t[d[k].text[1]] = d[k]
             /\ \A q \in 2 .. k - 1 : d[q].text[1] < d[k].text[1]
  <2>1. CASE k = Len(c) + 1
    <3>1. d[k] = m /\ d[k].text[1] = Len(s) + 1 /\ t[d[k].text[1]] = d[k]
      BY <1>2, <1>3, <2>1
    <3>2. ASSUME NEW q \in 2 .. k - 1 PROVE d[q].text[1] < d[k].text[1]
      <4>1. q \in 2 .. Len(c) /\ d[q] = c[q]
        BY <1>1, <1>2, <2>1
      <4>2. c[q].text[1] \in 1 .. Len(s)
        BY <1>4, <4>1
      <4>3. QED
        BY <1>1, <3>1, <4>1, <4>2
    <3>3. QED
      BY <1>1, <1>3, <3>1, <3>2
  <2>2. CASE k # Len(c) + 1
    <3>1. k \in 2 .. Len(c) /\ d[k] = c[k]
      BY <1>1, <1>2, <2>2
    <3>2. c[k].text[1] \in 1 .. Len(s) /\ t[c[k].text[1]] = c[k]
      BY <1>3, <1>4, <3>1
    <3>3. \A q \in 2 .. k - 1 : d[q] = c[q] /\ c[q].text[1] < c[k].text[1]
      BY <1>1, <1>2, <1>4, <3>1
    <3>4. QED
      BY <1>1, <1>3, <3>1, <3>2, <3>3
  <2>3. QED
    BY <2>1, <2>2
<1>6. Picked(d, t)
  BY <1>5 DEF Picked
<1>7. QED
  BY <1>6 DEF d, t

LEMMA AppendBehind ==
  ASSUME NEW X, NEW a \in Seq(X), NEW b \in Seq(X), NEW m \in X
  PROVE  a \o Append(b, m) = Append(a \o b, m)
OBVIOUS

LEMMA TwoBehind ==
  ASSUME NEW X, NEW s \in Seq(X), NEW a \in X, NEW b \in X
  PROVE  s \o <<a, b>> = Append(Append(s, a), b)
OBVIOUS

\* A message that is stored goes to the end of the file and of the context.
LEMMA StoredAtTheEnd ==
  ASSUME TypeInv, PickedInv, NEW m \in Stored, m.text[1] = Len(file) + 1, Store(m),
         history' = history
  PROVE  file' = Append(file, m) /\ PickedInv'
<1>1. file' = Append(file, m) /\ memory' = Append(memory, m)
  BY DEF Store, AppendToFile
<1>2. BuildContext \in MessageSeqs /\ m \in Message
  BY ContextShape DEF PlainMessages, Stored
<1>3. BuildContext' = Append(BuildContext, m)
  <2> DEFINE h == <<SystemMsg>> \o history
  <2>1. memory \in Seq(Message) /\ h \in Seq(Message)
    <3>1. history \in Seq(Stored) /\ memory \in Seq(Stored) /\ Stored \subseteq Message
      BY DEF TypeInv, Stored
    <3>2. <<SystemMsg>> \in Seq(Message) /\ history \in Seq(Message) /\ memory \in Seq(Message)
      BY <3>1, PlainSystemMsg
    <3>3. QED
      BY <3>2, Joined
  <2>2. h \o Append(memory, m) = Append(h \o memory, m)
    BY <1>2, <2>1, AppendBehind
  <2>3. BuildContext = h \o memory /\ BuildContext' = h \o Append(memory, m)
    BY <1>1 DEF BuildContext
  <2>4. QED
    BY <2>2, <2>3
<1>4. Picked(Append(BuildContext, m), Append(file, m))
  BY <1>2, PickedAppend DEF TypeInv, PickedInv
<1>5. QED
  BY <1>1, <1>3, <1>4 DEF PickedInv

\* Two messages that are stored together.
LEMMA TwoStored ==
  ASSUME TypeInv, NEW a \in Stored, NEW b \in Stored,
         memory' = memory \o <<a, b>>, history' = history
  PROVE  BuildContext' = Append(Append(BuildContext, a), b)
<1> DEFINE h == <<SystemMsg>> \o history
<1>1. memory \in Seq(Message) /\ h \in Seq(Message) /\ a \in Message /\ b \in Message
  <2>1. history \in Seq(Stored) /\ memory \in Seq(Stored) /\ Stored \subseteq Message
    BY DEF TypeInv, Stored
  <2>2. <<SystemMsg>> \in Seq(Message) /\ history \in Seq(Message) /\ memory \in Seq(Message)
    BY <2>1, PlainSystemMsg
  <2>3. QED
    BY <2>1, <2>2, Joined
<1>2. BuildContext = h \o memory /\ BuildContext' = h \o (memory \o <<a, b>>)
  BY DEF BuildContext
<1> HIDE DEF h
<1>3. memory \o <<a, b>> = Append(Append(memory, a), b)
  BY <1>1, TwoBehind
<1> DEFINE q == Append(memory, a)
<1>4. h \o q = Append(h \o memory, a)
  BY <1>1, AppendBehind
<1>5. memory \o <<a, b>> = Append(q, b)
  BY <1>3
<1>6. q \in Seq(Message)
  BY <1>1
<1> HIDE DEF q
<1>7. h \o Append(q, b) = Append(h \o q, b)
  BY <1>1, <1>6, AppendBehind
<1>8. QED
  BY <1>2, <1>4, <1>5, <1>7

\* A context of the system message alone is chosen from any file.
Emptied == history = <<>> /\ memory = <<>>

LEMMA EmptyContext == TypeInv /\ Emptied => PickedInv
<1> SUFFICES ASSUME TypeInv, Emptied PROVE PickedInv
  OBVIOUS
<1> USE DEF Emptied
<1>1. Len(BuildContext) = 1 + Len(history) + Len(memory)
  BY ContextShape
<1>2. Len(BuildContext) = 1
  BY <1>1
<1>3. QED
  BY <1>2 DEF PickedInv, Picked

\* The history is chosen from the file.
Loaded == memory = <<>> /\ Chosen(history, file)

LEMMA LoadedContext == TypeInv /\ Loaded => PickedInv
<1> SUFFICES ASSUME TypeInv, Loaded PROVE PickedInv
  OBVIOUS
<1> DEFINE c == BuildContext
<1>1. /\ Len(history) \in Nat /\ Len(memory) = 0 /\ Len(c) = 1 + Len(history) + Len(memory)
      /\ \A k \in 1 .. Len(history) : c[k + 1] = history[k]
  BY ContextShape DEF TypeInv, Loaded
<1> HIDE DEF c
<1>2. \A k \in 1 .. Len(history) :
        /\ history[k].text[1] \in 1 .. Len(file) /\ file[history[k].text[1]] = history[k]
        /\ \A q \in 1 .. k - 1 : history[q].text[1] < history[k].text[1]
  BY DEF Loaded, Chosen
<1>3. ASSUME NEW k \in 2 .. Len(c) PROVE k - 1 \in 1 .. Len(history) /\ c[k] = history[k - 1]
  <2>1. k - 1 \in 1 .. Len(history) /\ (k - 1) + 1 = k
    BY <1>1
  <2>2. QED
    BY <1>1, <2>1
<1>4. ASSUME NEW k \in 2 .. Len(c), NEW q \in 2 .. k - 1 PROVE c[q].text[1] < c[k].text[1]
  <2>1. q \in 2 .. Len(c) /\ q - 1 \in 1 .. (k - 1) - 1
    BY <1>1
  <2>2. c[q] = history[q - 1] /\ c[k] = history[k - 1] /\ k - 1 \in 1 .. Len(history)
    BY <1>3, <2>1
  <2>3. QED
    BY <1>2, <2>1, <2>2
<1>5. Picked(c, file)
  BY <1>2, <1>3, <1>4 DEF Picked
<1>6. QED
  BY <1>5 DEF PickedInv, c

LEMMA EmptyContextNext == TypeInv' /\ Emptied' => PickedInv'
BY EmptyContext, PTL

LEMMA LoadedContextNext == TypeInv' /\ Loaded' => PickedInv'
BY LoadedContext, PTL

\* Storing a message that is no result.
LEMMA StoredBehind ==
  ASSUME TypeInv, FileInv, NEW m \in Stored, ~IsResult(m), m.text[1] = Len(file) + 1,
         file' = Append(file, m), skillMsgs' = skillMsgs
  PROVE  FileInv'
<1>1. \A f \in 1 .. Len(Append(file, m)) : Backed(Append(file, m), skillMsgs, f)
  BY AppendBacked DEF TypeInv, FileInv
<1>2. Numbered(Append(file, m))
  BY NumberedAppend DEF TypeInv, FileInv
<1>3. QED
  BY <1>1, <1>2 DEF FileInv

LEMMA FailuresGrow ==
  ASSUME [Next]_vars
  PROVE  failures' = failures \/ failures' = failures + 1
<1>1. CASE UNCHANGED vars
  BY <1>1 DEF vars, notes
<1>2. CASE StartRun \/ GenerateChat \/ RequestFails \/ Cancel \/ ToolsDone
  BY <1>2 DEF StartRun, GenerateChat, RequestFails, Cancel, ToolsDone, notes
<1>3. CASE AddPrompt \/ Answer
  BY <1>3 DEF AddPrompt, Answer, Store, AppendToFile, StoreFails
<1>4. ASSUME NEW S, MakeCalls(S) \/ Decide(S) PROVE failures' = failures \/ failures' = failures + 1
  BY <1>4 DEF MakeCalls, Decide, Store, AppendToFile, StoreFails, notes
<1>5. ASSUME NEW c, ToolResult(c) \/ SkillResult(c) \/ SkillFails(c)
      PROVE  failures' = failures \/ failures' = failures + 1
  BY <1>5 DEF ToolResult, SkillResult, SkillFails, Store, AppendToFile, StoreFails
<1>6. QED
  BY <1>1, <1>2, <1>3, <1>4, <1>5 DEF Next

LEMMA ContextInvStep ==
  ASSUME TypeInv, TypeInv', ContextInv, [Next]_vars
  PROVE  ContextInv'
<1> SUFFICES ASSUME failures' = 0 PROVE FileInv' /\ TurnInv' /\ PickedInv'
  BY DEF ContextInv
<1>1. failures \in Nat /\ failures = 0
  BY FailuresGrow DEF TypeInv
<1>2. FileInv /\ TurnInv /\ PickedInv
  BY <1>1 DEF ContextInv
<1>3. /\ file \in Seq(Stored) /\ Len(file) \in Nat /\ NextNumber \in Nat
      /\ todo \in SUBSET Calls /\ NextNumber = Len(file) + 1
  BY DEF TypeInv, NextNumber
<1>4. \A m : ~StoreFails(m)
  BY <1>1 DEF StoreFails
<1>5. ASSUME UNCHANGED <<file, skillMsgs>> PROVE FileInv'
  BY <1>2, <1>5 DEF FileInv
<1>6. ASSUME EndRun PROVE TurnInv' /\ PickedInv'
  <2>1. Emptied' /\ pc' = "idle"
    BY <1>6 DEF EndRun, Emptied
  <2>2. QED
    BY <2>1, EmptyContextNext DEF TurnInv
<1>7. ASSUME UNCHANGED <<file, history, memory>> PROVE PickedInv'
  BY <1>2, <1>7 DEF PickedInv, BuildContext
<1>8. CASE UNCHANGED vars
  <2>1. UNCHANGED <<file, history, memory, skillMsgs, pc, todo>>
    BY <1>8 DEF vars, notes, stored
  <2>2. TurnInv'
    BY <1>2, <2>1 DEF TurnInv
  <2>3. QED
    BY <1>5, <1>7, <2>1, <2>2
<1>9. CASE StartRun
  <2>1. UNCHANGED <<file, skillMsgs>> /\ pc' = "prompt" /\ memory' = <<>>
    BY <1>9 DEF StartRun, notes, stored
  <2>2. Loaded'
    <3>1. CASE history' = <<>>
      BY <2>1, <3>1 DEF Loaded, Chosen
    <3>2. ASSUME NEW b \in Budgets, NEW seams, history' = LoadTail(b, seams) PROVE Loaded'
      <4>1. b \in Nat
        BY BoundsAssumption
      <4>2. Chosen(LoadTail(b, seams), file)
        BY <1>2, <1>3, <4>1, LoadIsChosen DEF FileInv
      <4>3. QED
        BY <2>1, <3>2, <4>2 DEF Loaded
    <3>3. QED
      BY <1>9, <3>1, <3>2 DEF StartRun
  <2>3. TurnInv'
    BY <2>1 DEF TurnInv
  <2>4. QED
    BY <1>5, <2>1, <2>2, <2>3, LoadedContextNext
<1>10. CASE AddPrompt
  <2>1. pc' = "ask" /\ skillMsgs' = skillMsgs /\ history' = history
    BY <1>10 DEF AddPrompt
  <2>2. TurnInv'
    BY <2>1 DEF TurnInv
  <2> DEFINE m == Msg("user", NextNumber, {})
  <2>3. m \in Stored /\ ~IsResult(m) /\ m.text[1] = Len(file) + 1
    BY <1>3, StoredMsg
  <2>4. Store(m) \/ UNCHANGED <<file, memory>>
    BY <1>4, <1>10 DEF AddPrompt, stored
  <2> HIDE DEF m
  <2>5. CASE Store(m)
    <3>1. file' = Append(file, m) /\ PickedInv'
      BY <1>2, <2>1, <2>3, <2>5, StoredAtTheEnd
    <3>2. QED
      BY <1>2, <2>1, <2>2, <2>3, <3>1, StoredBehind
  <2>6. CASE UNCHANGED <<file, memory>>
    BY <1>5, <1>7, <2>1, <2>2, <2>6
  <2>7. QED
    BY <2>4, <2>5, <2>6
<1>11. CASE GenerateChat
  <2>1. UNCHANGED <<file, history, memory, skillMsgs>> /\ pc' \in {"asked", "refused"}
    BY <1>11 DEF GenerateChat, notes, stored
  <2>2. TurnInv'
    BY <2>1 DEF TurnInv
  <2>3. QED
    BY <1>5, <1>7, <2>1, <2>2
<1>12. CASE RequestFails
  <2>1. EndRun /\ UNCHANGED <<file, skillMsgs>>
    BY <1>12 DEF RequestFails, notes, stored
  <2>2. QED
    BY <1>5, <1>6, <2>1
<1>13. CASE Answer
  <2> DEFINE m == Msg("assistant", NextNumber, {})
  <2>1. m \in Stored /\ ~IsResult(m) /\ m.text[1] = Len(file) + 1
    BY <1>3, StoredMsg
  <2>2. file' = Append(file, m) /\ skillMsgs' = skillMsgs /\ EndRun
    BY <1>4, <1>13 DEF Answer, AppendToFile
  <2> HIDE DEF m
  <2>3. FileInv'
    BY <1>2, <2>1, <2>2, StoredBehind
  <2>4. QED
    BY <1>6, <2>2, <2>3
<1>14. ASSUME NEW S \in SUBSET Calls, MakeCalls(S) PROVE FileInv' /\ TurnInv' /\ PickedInv'
  <2> DEFINE m == Msg("assistant", NextNumber, S)
  <2>1. /\ m \in Stored /\ ~IsResult(m) /\ m.role = "assistant" /\ m.calls = S
        /\ m.text[1] = Len(file) + 1
    BY <1>3, StoredMsg
  <2>2. /\ Store(m) /\ skillMsgs' = skillMsgs /\ history' = history
        /\ S # {} /\ todo' = S
    BY <1>4, <1>14 DEF MakeCalls
  <2> HIDE DEF m
  <2>3. file' = Append(file, m) /\ PickedInv'
    BY <1>2, <2>1, <2>2, StoredAtTheEnd
  <2>4. FileInv'
    BY <1>2, <2>1, <2>2, <2>3, StoredBehind
  <2>5. Due(Append(file, m), S)
    BY <1>3, <2>1, <2>2, CallsAreDue
  <2>6. TurnInv'
    BY <2>2, <2>3, <2>5 DEF TurnInv
  <2>7. QED
    BY <2>3, <2>4, <2>6
<1>15. ASSUME NEW S \in SUBSET Calls, Decide(S) PROVE FileInv' /\ TurnInv' /\ PickedInv'
  <2>1. UNCHANGED <<file, history, memory, skillMsgs, todo>> /\ pc = "collect"
    BY <1>15 DEF Decide, notes, stored
  <2>2. TurnInv'
    BY <1>2, <2>1 DEF TurnInv
  <2>3. QED
    BY <1>5, <1>7, <2>1, <2>2
<1>16. CASE Cancel
  <2>1. EndRun /\ UNCHANGED <<file, skillMsgs>>
    BY <1>16 DEF Cancel, notes, stored
  <2>2. QED
    BY <1>5, <1>6, <2>1
<1>17. ASSUME NEW c \in Calls, ToolResult(c) PROVE FileInv' /\ TurnInv' /\ PickedInv'
  <2> DEFINE m == ToolMsg(c, NextNumber)
  <2>1. /\ m \in Stored /\ IsResult(m) /\ m.role = "tool" /\ m.result[1] = c
        /\ m.text[1] = Len(file) + 1
    BY <1>3, StoredToolMsg
  <2>2. /\ Store(m) /\ todo' = todo \ {c} /\ history' = history /\ skillMsgs' = skillMsgs
        /\ pc = "tools" /\ c \in todo
    BY <1>4, <1>17 DEF ToolResult
  <2> HIDE DEF m
  <2>3. file' = Append(file, m) /\ PickedInv'
    BY <1>2, <2>1, <2>2, StoredAtTheEnd
  <2>4. Len(file) > 0 /\ ExpectsResult(file[Len(file)]) /\ CalledBefore(file, Len(file), todo)
    BY <1>2, <2>2 DEF TurnInv, Due
  <2>5. /\ Backed(Append(file, m), skillMsgs, Len(file) + 1)
        /\ Due(Append(file, m), todo \ {c})
    BY <1>3, <2>1, <2>2, <2>4, ResultIsBacked
  <2>6. \A f \in 1 .. Len(Append(file, m)) : Backed(Append(file, m), skillMsgs, f)
    BY <1>2, <1>3, <2>1, <2>5, AppendBacked DEF FileInv
  <2>7. FileInv'
    <3>1. Numbered(Append(file, m))
      BY <1>2, <1>3, <2>1, NumberedAppend DEF FileInv
    <3>2. QED
      BY <2>2, <2>3, <2>6, <3>1 DEF FileInv
  <2>8. TurnInv'
    BY <2>2, <2>3, <2>5 DEF TurnInv
  <2>9. QED
    BY <2>3, <2>7, <2>8

<1>18. ASSUME NEW c \in Calls, SkillResult(c) PROVE FileInv' /\ TurnInv' /\ PickedInv'
  <2> DEFINE u == Msg("user", NextNumber, {})
             m == ToolMsg(c, NextNumber + 1)
             f1 == Append(file, u)
             f2 == Append(f1, m)
             skills == skillMsgs \cup {NextNumber}
  <2>1. /\ u \in Stored /\ ~IsResult(u) /\ u.role = "user" /\ u.text[1] = NextNumber
        /\ m \in Stored /\ IsResult(m) /\ m.role = "tool" /\ m.result[1] = c
        /\ m.text[1] = NextNumber + 1
    <3>1. NextNumber + 1 \in Nat /\ {} \in SUBSET Calls
      BY <1>3
    <3>2. QED
      BY <1>3, <3>1, StoredMsg, StoredToolMsg
  <2>2. /\ file' = file \o <<u, m>> /\ memory' = memory \o <<u, m>> /\ history' = history
        /\ todo' = todo \ {c} /\ skillMsgs' = skills /\ pc = "tools" /\ c \in todo
    BY <1>18 DEF SkillResult
  <2> HIDE DEF u, m
  <2>3. file' = f2
    BY <1>3, <2>1, <2>2, TwoBehind
  <2>4. BuildContext' = Append(Append(BuildContext, u), m)
    BY <2>1, <2>2, TwoStored
  <2>5. /\ f1 \in Seq(Stored) /\ Len(f1) = Len(file) + 1 /\ f1[Len(file) + 1] = u
        /\ \A k \in 1 .. Len(file) : f1[k] = file[k]
    BY <1>3, <2>1
  <2> HIDE DEF f1
  <2>6. PickedInv'
    <3>1. BuildContext \in MessageSeqs /\ u \in Message
      BY <2>1, ContextShape DEF PlainMessages, Stored
    <3>2. Picked(Append(BuildContext, u), f1)
      BY <1>2, <1>3, <2>1, <3>1, PickedAppend DEF PickedInv, f1
    <3>3. Append(BuildContext, u) \in MessageSeqs
      BY <3>1 DEF MessageSeqs
    <3>4. Picked(Append(Append(BuildContext, u), m), f2)
      BY <1>3, <2>1, <2>5, <3>2, <3>3, PickedAppend
    <3> HIDE DEF f2
    <3>5. QED
      BY <2>3, <2>4, <3>4 DEF PickedInv
  <2>7. CalledBefore(f1, Len(f1), todo)
    <3>1. CalledBefore(file, Len(file), todo)
      BY <1>2, <2>2 DEF TurnInv, Due
    <3>2. CalledBefore(f1, Len(file), todo)
      <4>1. Len(file) \in 0 .. Len(file) /\ Len(file) <= Len(f1)
        BY <1>3, <2>5
      <4>2. QED
        BY <1>3, <2>5, <3>1, <4>1, SameBacked
    <3>3. f1[Len(file) + 1].role # "assistant"
      BY <2>1, <2>5
    <3>4. CalledBefore(f1, Len(file) + 1, todo)
      BY <1>3, <3>2, <3>3, StillCalled
    <3>5. QED
      BY <2>5, <3>4
  <2>8. /\ Backed(f2, skills, Len(f1) + 1)
        /\ Due(f2, todo \ {c})
    <3>1. Len(f1) > 0 /\ f1[Len(f1)].text[1] \in skills
      BY <1>3, <2>1, <2>5
    <3> HIDE DEF skills
    <3>2. QED
      BY <2>1, <2>2, <2>5, <2>7, <3>1, ResultIsBacked
  <2>9. \A f \in 1 .. Len(f1) : Backed(f1, skillMsgs, f)
    BY <1>2, <1>3, <2>1, AppendBacked DEF FileInv, f1
  <2>10. \A f \in 1 .. Len(f2) : Backed(f2, skills, f)
    <3>1. skillMsgs \subseteq skills
      OBVIOUS
    <3> HIDE DEF skills
    <3>2. QED
      BY <2>1, <2>5, <2>8, <2>9, <3>1, AppendBacked
  <2>n. Numbered(f2)
    <3>1. Numbered(f1)
      BY <1>2, <1>3, <2>1, NumberedAppend DEF FileInv, f1
    <3>2. QED
      BY <1>3, <2>1, <2>5, <3>1, NumberedAppend
  <2> HIDE DEF f2, skills
  <2>11. FileInv' /\ TurnInv'
    BY <2>2, <2>3, <2>8, <2>10, <2>n DEF FileInv, TurnInv
  <2>12. QED
    BY <2>6, <2>11
<1>19. ASSUME NEW c \in Calls PROVE ~SkillFails(c)
  BY <1>1 DEF SkillFails
<1>20. CASE ToolsDone
  <2>1. UNCHANGED <<file, skillMsgs>>
    BY <1>20 DEF ToolsDone, notes, stored
  <2>2. CASE EndRun
    BY <1>5, <1>6, <2>1, <2>2
  <2>3. CASE pc' = "ask" /\ UNCHANGED <<history, memory>>
    <3>1. TurnInv'
      BY <2>3 DEF TurnInv
    <3>2. QED
      BY <1>5, <1>7, <2>1, <2>3, <3>1
  <2>4. QED
    BY <1>20, <2>2, <2>3 DEF ToolsDone
<1>21. QED
  BY <1>8, <1>9, <1>10, <1>11, <1>12, <1>13, <1>14, <1>15, <1>16, <1>17, <1>18, <1>19, <1>20
     DEF Next

LEMMA ContextInvInit == Init => ContextInv
<1> SUFFICES ASSUME Init PROVE FileInv /\ TurnInv /\ PickedInv
  BY DEF ContextInv
<1>1. FileInv /\ TurnInv
  BY DEF Init, FileInv, TurnInv, Numbered
<1>2. PickedInv
  BY TypeInvInit, EmptyContext DEF Init, Emptied
<1>3. QED
  BY <1>1, <1>2

LEMMA ContextIsChosen == Spec => []ContextInv
<1>1. TypeInv /\ TypeInv' /\ ContextInv /\ [Next]_vars => ContextInv'
  BY ContextInvStep
<1>2. QED
  BY <1>1, ContextInvInit, ContextTypes, PTL DEF Spec

-----------------------------------------------------------------------------
(* What a request holds, and why one is refused. *)

LEMMA ContextArranged ==
  ASSUME TypeInv
  PROVE  \E place : Arranged(place, Normalized, BuildContext, toolRole)
BY ContextShape, NormalizeArranges DEF TypeInv, PlainMessages, Normalized

LEMMA SentIsInPayload ==
  ASSUME NEW out \in MessageSeqs, payload = Payload(out, toolRole), NEW p \in 1 .. Len(out),
         NEW m, Sent(out[p], m, toolRole)
  PROVE  InPayload(m) /\ CallsInPayload(m)
<1>1. p \in DOMAIN payload /\ payload[p] = Entry(out[p], toolRole)
  BY DEF Payload
<1>2. QED
  BY <1>1 DEF Sent, InPayload, CallsInPayload

LEMMA RequestHolds == TypeInv /\ RequestInv => LostOnlyBehindResult
<1> SUFFICES ASSUME TypeInv, RequestInv, pc = "asked", NEW j \in DOMAIN BuildContext
             PROVE  \/ InPayload(BuildContext[j]) /\ CallsInPayload(BuildContext[j])
                    \/ \E i \in 1 .. j - 1 : IsResult(BuildContext[i]) /\ OneUserEntry(i, j)
  BY DEF LostOnlyBehindResult
<1>1. PICK place : Arranged(place, Normalized, BuildContext, toolRole)
  BY ContextArranged
<1> DEFINE msgs == BuildContext
           out == Normalized
           u == toolRole
<1>2. msgs \in PlainMessages /\ u \in BOOLEAN /\ j \in 1 .. Len(msgs)
  BY ContextShape DEF TypeInv, PlainMessages, MessageSeqs
<1>3. payload = Payload(out, u)
  BY DEF RequestInv
<1>4. place[j] \in 1 .. Len(out) /\ out \in MessageSeqs
  BY <1>1, <1>2 DEF Arranged
<1> HIDE DEF msgs, out, u
<1>5. \/ Sent(out[place[j]], msgs[j], u)
      \/ \E i \in 1 .. j - 1 :
           IsResult(msgs[i]) /\ \A k \in i .. j : EffectiveRole(msgs[k], u) = "user"
  BY <1>1, <1>2, LostBehind DEF msgs, out, u
<1>6. CASE Sent(out[place[j]], msgs[j], u)
  BY <1>3, <1>4, <1>6, SentIsInPayload DEF msgs, out, u
<1>7. CASE \E i \in 1 .. j - 1 :
             IsResult(msgs[i]) /\ \A k \in i .. j : EffectiveRole(msgs[k], u) = "user"
  BY <1>7 DEF OneUserEntry, msgs, u
<1>8. QED
  BY <1>5, <1>6, <1>7

LEMMA ToolRoleHolds == TypeInv /\ LostOnlyBehindResult => EverythingSent
<1> SUFFICES ASSUME TypeInv, LostOnlyBehindResult, pc = "asked", toolRole,
                    NEW j \in DOMAIN BuildContext
             PROVE  InPayload(BuildContext[j]) /\ CallsInPayload(BuildContext[j])
  BY DEF EverythingSent
<1> SUFFICES ASSUME NEW i \in 1 .. j - 1, IsResult(BuildContext[i]), OneUserEntry(i, j)
             PROVE  FALSE
  BY DEF LostOnlyBehindResult
<1>1. /\ BuildContext \in PlainMessages /\ DOMAIN BuildContext = 1 .. Len(BuildContext)
      /\ Len(BuildContext) \in Nat
  BY ContextShape DEF PlainMessages, MessageSeqs
<1>2. i \in 1 .. Len(BuildContext) /\ i \in i .. j
  BY <1>1
<1>3. BuildContext[i].role = "tool"
  BY <1>1, <1>2 DEF PlainMessages, Plain
<1>4. EffectiveRole(BuildContext[i], toolRole) = "tool"
  BY <1>3 DEF EffectiveRole
<1>5. QED
  BY <1>2, <1>4 DEF OneUserEntry

\* With tool_role every prompt, answer, call and result of the context reaches the model,
\* for any calls and sessions of any length: GenerateChat merges nothing away.
THEOREM ToolRoleSendsAll == Spec => []EverythingSent
BY ContextTypes, RequestsAreNormalized, RequestHolds, ToolRoleHolds, PTL

\* Without tool_role a message the model does not get was merged behind a tool result,
\* with no assistant message between them.
THEOREM LostBehindResults == Spec => []LostOnlyBehindResult
BY ContextTypes, RequestsAreNormalized, RequestHolds, PTL

\* The message before one whose number is n + 1 is n, if that is in the context.
LEMMA Neighbours ==
  ASSUME TypeInv, PickedInv, NEW k \in 2 .. Len(BuildContext),
         ~LeftOut(BuildContext[k].text[1] - 1)
  PROVE  /\ k - 1 \in 2 .. Len(BuildContext)
         /\ BuildContext[k - 1].text[1] = BuildContext[k].text[1] - 1
<1> DEFINE c == BuildContext
           N(i) == c[i].text[1]
<1>1. Len(c) \in Nat
  BY ContextShape DEF PlainMessages, MessageSeqs
<1>2. \A i \in 2 .. Len(c) : N(i) \in Nat /\ \A q \in 2 .. i - 1 : N(q) < N(i)
  BY DEF PickedInv, Picked
<1>3. PICK q \in 2 .. Len(c) : N(q) = N(k) - 1
  BY DEF LeftOut
<1> HIDE DEF c
<1>4. ~(k < q)
  <2> SUFFICES ASSUME k < q PROVE FALSE
    OBVIOUS
  <2>1. k \in 2 .. q - 1 /\ k \in 2 .. Len(c)
    BY <1>1 DEF c
  <2>2. N(k) < N(q) /\ N(k) \in Nat
    BY <1>2, <2>1
  <2>3. QED
    BY <1>3, <2>2
<1>5. ~(q < k - 1)
  <2> SUFFICES ASSUME q < k - 1 PROVE FALSE
    OBVIOUS
  <2>1. k - 1 \in 2 .. k - 1 /\ k - 1 \in 2 .. Len(c) /\ q \in 2 .. (k - 1) - 1 /\ k \in 2 .. Len(c)
    BY <1>1 DEF c
  <2>2. N(q) < N(k - 1) /\ N(k - 1) < N(k) /\ N(q) \in Nat /\ N(k - 1) \in Nat /\ N(k) \in Nat
    BY <1>2, <2>1
  <2>3. QED
    BY <1>3, <2>2
<1>6. q # k
  <2>1. N(k) \in Nat
    BY <1>2 DEF c
  <2>2. QED
    BY <1>3, <2>1
<1>7. q = k - 1
  BY <1>1, <1>4, <1>5, <1>6 DEF c
<1>8. QED
  BY <1>3, <1>7 DEF c

\* In the context each result is for one of the newest calls before it, unless the message
\* before it or before one of those between them is left out.
LEMMA ContextAnswers ==
  ASSUME TypeInv, FileInv, PickedInv,
         NEW f \in 2 .. Len(BuildContext), IsResult(BuildContext[f]),
         NEW x \in 1 .. f - 1, NewestBefore(BuildContext, x, f),
         \A k \in x + 1 .. f : ~LeftOut(BuildContext[k].text[1] - 1)
  PROVE  BuildContext[f].result[1] \in BuildContext[x].calls
<1> DEFINE c == BuildContext
           N(i) == c[i].text[1]
<1>1. /\ Len(c) \in Nat /\ Len(file) \in Nat
      /\ \A k \in 2 .. Len(c) : /\ N(k) \in 1 .. Len(file) /\ file[N(k)] = c[k]
                                /\ \A q \in 2 .. k - 1 : N(q) < N(k)
  BY ContextShape DEF TypeInv, PickedInv, Picked, PlainMessages, MessageSeqs
<1>2. c[1].role = "system"
  BY ContextShape, PlainSystemMsg
<1>3. /\ c[x].role = "assistant" /\ \A k \in x + 1 .. f - 1 : c[k].role # "assistant"
      /\ f \in 2 .. Len(c) /\ IsResult(c[f]) /\ x \in 1 .. f - 1
  BY DEF NewestBefore
<1>n. ASSUME NEW k \in x + 1 .. f, k \in 2 .. Len(c)
      PROVE  k - 1 \in 2 .. Len(c) /\ N(k - 1) = N(k) - 1
  <2>1. k \in 2 .. Len(BuildContext) /\ ~LeftOut(BuildContext[k].text[1] - 1)
    BY <1>n
  <2>2. QED
    BY <2>1, Neighbours
<1> HIDE DEF c
<1>4. x \in 2 .. Len(c) /\ f \in Int /\ x \in Int /\ x \in 2 .. f - 1
  <2>1. x # 1
    BY <1>2, <1>3
  <2>2. QED
    BY <1>1, <1>3, <2>1
<1>5. /\ N(f) \in 1 .. Len(file) /\ IsResult(file[N(f)]) /\ c[f] = file[N(f)]
      /\ N(x) \in 1 .. Len(file) /\ c[x] = file[N(x)] /\ N(x) < N(f)
  BY <1>1, <1>3, <1>4
<1>6. CalledBefore(file, N(f) - 1, {file[N(f)].result[1]})
  <2>1. Backed(file, skillMsgs, N(f))
    BY <1>5 DEF FileInv
  <2>2. QED
    BY <1>5, <2>1 DEF Backed
<1>7. PICK a \in 1 .. N(f) - 1 :
        /\ file[a].role = "assistant" /\ file[N(f)].result[1] \in file[a].calls
        /\ \A k \in a + 1 .. N(f) - 1 : file[k].role # "assistant"
  BY <1>6 DEF CalledBefore
<1>8. ~(a < N(x))
  <2> SUFFICES ASSUME a < N(x) PROVE FALSE
    OBVIOUS
  <2>1. N(x) \in a + 1 .. N(f) - 1
    BY <1>1, <1>5
  <2>2. QED
    BY <1>3, <1>5, <1>7, <2>1
<1>9. ~(N(x) < a)
  <2> SUFFICES ASSUME N(x) < a PROVE FALSE
    OBVIOUS
  <2> DEFINE T == {k \in x + 1 .. f : a <= N(k)}
  <2>1. f \in T
    BY <1>1, <1>4, <1>5
  <2>2. T \in SUBSET Nat
    BY <1>4
  <2>3. PICK k \in T : \A y \in T : k <= y
    BY <2>1, <2>2, HasLeast
  <2>4. k \in x + 1 .. f /\ k \in 2 .. Len(c) /\ a <= N(k) /\ N(k) \in Nat
    BY <1>1, <1>3, <1>4
  <2>5. N(k) # a
    <3> SUFFICES ASSUME N(k) = a PROVE FALSE
      OBVIOUS
    <3>1. k # f
      BY <1>5
    <3>2. k \in x + 1 .. f - 1 /\ c[k] = file[a]
      BY <1>1, <1>4, <2>4, <3>1
    <3>3. QED
      BY <1>3, <1>7, <3>2
  <2>6. N(k - 1) = N(k) - 1
    BY <1>n, <2>4
  <2>7. a <= N(k - 1)
    BY <2>4, <2>5, <2>6
  <2>8. CASE k - 1 = x
    BY <1>5, <2>7, <2>8
  <2>9. CASE k - 1 # x
    <3>1. k - 1 \in x + 1 .. f
      BY <1>4, <2>4, <2>9
    <3>2. k - 1 \in T
      BY <2>7, <3>1
    <3>3. QED
      BY <2>3, <2>4, <3>2
  <2>10. QED
    BY <2>8, <2>9
<1>10. a = N(x)
  BY <1>5, <1>8, <1>9
<1>11. c[f].result[1] \in c[x].calls
  BY <1>5, <1>7, <1>10
<1>12. QED
  BY <1>11 DEF c

LEMMA EntryFields ==
  ASSUME NEW e, NEW u \in BOOLEAN
  PROVE  /\ Entry(e, u).calls = e.calls
         /\ ~IsResult(e) => Entry(e, u).role = e.role
         /\ Entry(e, u).answers # {} => IsResult(e) /\ u
         /\ IsResult(e) => Entry(e, u).text[1] = e.result[2]
         /\ IsResult(e) /\ u => /\ Entry(e, u).answers = {e.result[1]}
                                /\ Entry(e, u).answers # {}
<1> DEFINE r == IF IsResult(e) /\ ~u THEN "user" ELSE e.role
           t == IF IsResult(e) THEN <<e.result[2]>> ELSE e.text
           s == IF IsResult(e) /\ u THEN {e.result[1]} ELSE {}
<1>1. Entry(e, u) = [role |-> r, text |-> t, calls |-> e.calls, answers |-> s]
  BY DEF Entry
<1>2. /\ ~IsResult(e) => r = e.role
      /\ s # {} => IsResult(e) /\ u
      /\ IsResult(e) => t[1] = e.result[2]
      /\ IsResult(e) /\ u => s = {e.result[1]} /\ s # {}
  OBVIOUS
<1> HIDE DEF r, t, s
<1>3. /\ Entry(e, u).calls = e.calls /\ Entry(e, u).role = r /\ Entry(e, u).answers = s
      /\ Entry(e, u).text = t
  BY <1>1
<1>4. QED
  BY <1>2, <1>3

LEMMA ResultsArePaired ==
  ASSUME TypeInv, RequestInv, ContextInv, ValidateRoles
  PROVE  SentResultsPaired
<1> SUFFICES ASSUME pc = "asked", failures = 0, NEW j \in DOMAIN payload, payload[j].answers # {}
             PROVE  \E i \in 1 .. j - 1 :
                      /\ payload[i].role = "assistant"
                      /\ \/ payload[j].answers \subseteq payload[i].calls
                         \/ \E k \in i + 1 .. j : LeftOut(payload[k].text[1] - 1)
                      /\ \A k \in i + 1 .. j : payload[k].answers # {}
  BY DEF SentResultsPaired
<1> DEFINE msgs == BuildContext
           out == Normalized
           gaps == {n \in Nat : LeftOut(n - 1)}
<1>1. PICK place : Arranged(place, out, msgs, toolRole)
  BY ContextArranged
<1>2. /\ payload = Payload(out, toolRole) /\ Valid(out, toolRole)
      /\ msgs \in PlainMessages /\ FileInv /\ PickedInv /\ toolRole \in BOOLEAN
  BY ContextShape DEF RequestInv, ContextInv, TypeInv
<1>3. ASSUME NEW f \in 2 .. Len(msgs), IsResult(msgs[f]), NEW x \in 1 .. f - 1,
             NewestBefore(msgs, x, f), \A k \in x + 1 .. f : msgs[k].text[1] \notin gaps
      PROVE  msgs[f].result[1] \in msgs[x].calls
  <2>1. Len(msgs) \in Nat /\ \A k \in 2 .. Len(msgs) : msgs[k].text[1] \in Nat
    BY <1>2 DEF PickedInv, Picked, PlainMessages, MessageSeqs
  <2>2. \A k \in x + 1 .. f : ~LeftOut(msgs[k].text[1] - 1)
    <3>1. ASSUME NEW k \in x + 1 .. f PROVE ~LeftOut(msgs[k].text[1] - 1)
      <4>1. k \in 2 .. Len(msgs)
        BY <2>1
      <4>2. QED
        BY <1>3, <2>1, <4>1
    <3>2. QED
      BY <3>1
  <2> HIDE DEF gaps
  <2>3. QED
    BY <1>2, <1>3, <2>2, ContextAnswers
<1>g. \A n \in gaps : LeftOut(n - 1)
  OBVIOUS
<1> HIDE DEF msgs, out, gaps
<1>4. Len(out) \in Nat
  BY <1>1, <1>2, ArrangedTypes
<1>5. /\ j \in 1 .. Len(out)
      /\ \A k \in 1 .. Len(out) : payload[k] = Entry(out[k], toolRole)
  BY <1>2 DEF Payload
<1>6. IsResult(out[j]) /\ toolRole
  BY <1>2, <1>5, EntryFields
<1>7. KeepsRoles(toolRole)
  BY <1>2, <1>6, ToolRoleKeepsRoles
<1>8. PICK i \in 1 .. j - 1 :
        /\ out[i].role = "assistant" /\ ~IsResult(out[i])
        /\ \/ out[j].result[1] \in out[i].calls
           \/ \E k \in i + 1 .. j : out[k].result[2] \in gaps
        /\ \A k \in i + 1 .. j : IsResult(out[k])
  BY <1>1, <1>2, <1>3, <1>5, <1>6, <1>7, ResultBehindCalls
<1>9. i \in 1 .. Len(out) /\ \A k \in i + 1 .. j : k \in 1 .. Len(out)
  BY <1>4, <1>5
<1>10. payload[i].role = "assistant" /\ payload[i].calls = out[i].calls
  BY <1>2, <1>5, <1>8, <1>9, EntryFields
<1>11. \A k \in i + 1 .. j : payload[k].answers # {} /\ payload[k].text[1] = out[k].result[2]
  <2>1. ASSUME NEW k \in i + 1 .. j
        PROVE  payload[k].answers # {} /\ payload[k].text[1] = out[k].result[2]
    <3>1. payload[k] = Entry(out[k], toolRole) /\ IsResult(out[k])
      BY <1>5, <1>8, <1>9
    <3>2. QED
      BY <1>2, <1>6, <3>1, EntryFields
  <2>2. QED
    BY <2>1
<1>12. payload[j].answers = {out[j].result[1]}
  BY <1>2, <1>5, <1>6, EntryFields
<1>13. \/ payload[j].answers \subseteq payload[i].calls
       \/ \E k \in i + 1 .. j : LeftOut(payload[k].text[1] - 1)
  BY <1>8, <1>10, <1>11, <1>12, <1>g
<1>14. QED
  BY <1>10, <1>11, <1>13

\* With validate_roles, the default, every result of a request follows the calls it is for,
\* with only results between them, unless the load left out the message right before it or
\* before one of those: whatever else is cut off or cannot be read, for any calls, budgets
\* and sessions of any length.
THEOREM ResultsFollowCalls == ValidateRoles => (Spec => []SentResultsPaired)
<1> SUFFICES ASSUME ValidateRoles PROVE Spec => []SentResultsPaired
  OBVIOUS
<1>1. TypeInv /\ RequestInv /\ ContextInv => SentResultsPaired
  BY ResultsArePaired
<1>2. QED
  BY <1>1, ContextTypes, RequestsAreNormalized, ContextIsChosen, PTL

LEMMA UnpartedIsValid ==
  ASSUME TypeInv, FileInv, PickedInv, ~PartedResult, ~SkillInContext
  PROVE  Valid(Normalized, toolRole)
<1> DEFINE c == BuildContext
           N(i) == c[i].text[1]
<1>1. PICK place : Arranged(place, Normalized, c, toolRole)
  BY ContextArranged
<1>2. /\ c \in PlainMessages /\ toolRole \in BOOLEAN /\ c[1].role = "system"
  BY ContextShape, PlainSystemMsg DEF TypeInv
<1>3. Len(c) \in Nat /\ DOMAIN c = 1 .. Len(c)
  BY <1>2 DEF PlainMessages, MessageSeqs
<1>4. \A k \in 2 .. Len(c) : N(k) \in 1 .. Len(file) /\ file[N(k)] = c[k]
  BY DEF PickedInv, Picked
<1>5. \A k \in 2 .. Len(c) : N(k) \notin skillMsgs
  BY <1>3 DEF SkillInContext
<1>6. ASSUME NEW i \in 2 .. Len(c), IsResult(c[i])
      PROVE  i - 1 \in 2 .. Len(c) /\ N(i - 1) = N(i) - 1
  <2>1. i \in 2 .. Len(BuildContext) /\ ~LeftOut(BuildContext[i].text[1] - 1)
    BY <1>6 DEF PartedResult
  <2>2. QED
    BY <2>1, Neighbours
<1> HIDE DEF c
<1>7. ASSUME NEW i \in 2 .. Len(c), IsResult(c[i]) PROVE ExpectsResult(c[i - 1])
  <2>1. /\ N(i) \in 1 .. Len(file) /\ c[i] = file[N(i)]
        /\ i - 1 \in 2 .. Len(c) /\ c[i - 1] = file[N(i) - 1] /\ N(i) - 1 \notin skillMsgs
        /\ N(i) - 1 = c[i - 1].text[1]
    <3>1. i - 1 \in 2 .. Len(c) /\ N(i - 1) = N(i) - 1
      BY <1>6, <1>7
    <3>2. QED
      BY <1>4, <1>5, <3>1
  <2>2. Backed(file, skillMsgs, N(i)) /\ IsResult(file[N(i)])
    BY <1>7, <2>1 DEF FileInv
  <2>3. ExpectsResult(file[N(i) - 1]) \/ file[N(i) - 1].text[1] \in skillMsgs
    BY <2>2 DEF Backed
  <2>4. file[N(i) - 1].text[1] \notin skillMsgs
    BY <2>1
  <2>5. QED
    BY <2>1, <2>3, <2>4
<1>8. QED
  BY <1>1, <1>2, <1>7, ArrangedIsValid DEF c

\* As long as every message is stored, a request is refused only when the load left out the
\* message before a result or a skill put its message before its own result: merging,
\* cancels, denials, failed requests, empty prompts and all else the load leaves out never
\* bring the roles out of order.
THEOREM RefusalHasCause == Spec => []RefusedHasCause
<1>1. TypeInv /\ RequestInv /\ ContextInv => RefusedHasCause
  <2> SUFFICES ASSUME TypeInv, RequestInv, ContextInv, pc = "refused", failures = 0,
                      ~PartedResult, ~SkillInContext
               PROVE  FALSE
    BY DEF RefusedHasCause, TypeInv
  <2>1. FileInv /\ PickedInv /\ ~Valid(Normalized, toolRole)
    BY DEF RequestInv, ContextInv
  <2>2. QED
    BY <2>1, UnpartedIsValid
<1>2. QED
  BY <1>1, ContextTypes, RequestsAreNormalized, ContextIsChosen, PTL

-----------------------------------------------------------------------------
(* The session file.  Its loops are folds; what they make of two parts of a     *)
(* sequence is what they make of the second from where the first has left off. *)

LEMMA SeqInduction ==
  ASSUME NEW A, NEW P \in SUBSET Seq(A), <<>> \in P,
         \A s \in P : \A a \in A : Append(s, a) \in P
  PROVE  P = Seq(A)
<1> DEFINE Q == {n \in Nat : \A s \in Seq(A) : Len(s) = n => s \in P}
<1>1. 0 \in Q
  BY EmptySeq
<1>2. ASSUME NEW n \in Q PROVE n + 1 \in Q
  <2> SUFFICES ASSUME NEW s \in Seq(A), Len(s) = n + 1 PROVE s \in P
    OBVIOUS
  <2>1. s # <<>>
    BY EmptySeq
  <2>2. PICK t \in Seq(A), a \in A : s = Append(t, a)
    BY <2>1, SequenceEmptyOrAppend
  <2>3. Len(t) = n
    BY <2>2, AppendProperties, LenProperties
  <2>4. QED
    BY <2>2, <2>3
<1> HIDE DEF Q
<1>3. Q \in SUBSET Nat
  BY DEF Q
<1>4. Q = Nat
  BY <1>1, <1>2, <1>3, Induction
<1>5. QED
  BY <1>4, LenProperties DEF Q

\* The states a loop over s goes through from b, when F[x][a] is what a makes of x, and
\* the last of them.
IsRun(g, F, b, s) == g[0] = b /\ \A n \in 1 .. Len(s) : g[n] = F[g[n - 1]][s[n]]
Fold(F, b, s) == (CHOOSE g \in [0 .. Len(s) -> DOMAIN F] : IsRun(g, F, b, s))[Len(s)]

Steps(S, A) == [S -> [A -> S]]

LEMMA FoldRuns ==
  ASSUME NEW S, NEW A, NEW F \in Steps(S, A), NEW b \in S, NEW s \in Seq(A)
  PROVE  \E g \in [0 .. Len(s) -> S] : IsRun(g, F, b, s) /\ Fold(F, b, s) = g[Len(s)]
<1> USE DEF Steps
<1> DEFINE N == Len(s)
           R == [n \in Nat |-> [x \in S |-> IF n + 1 <= N THEN F[x][s[n + 1]] ELSE x]]
<1>1. N \in Nat /\ \A n \in 1 .. N : s[n] \in A
  BY LenProperties, ElementOfSeq
<1>2. \A n \in Nat : R[n] \in [S -> S]
  BY <1>1
<1>3. \A n \in Nat, x \in S : n + 1 <= N => R[n][x] = F[x][s[n + 1]]
  OBVIOUS
<1>4. R \in Loops(S)
  BY <1>2 DEF Loops
<1> HIDE DEF R
<1>5. PICK h \in [Nat -> S] : Computes(h, R, b)
  BY <1>4, Iteration
<1> DEFINE g == [n \in 0 .. N |-> h[n]]
<1>6. g \in [0 .. N -> S]
  BY <1>1, <1>5
<1>7. ASSUME NEW n \in 1 .. N PROVE g[n] = F[g[n - 1]][s[n]]
  <2>1. n - 1 \in Nat /\ n - 1 + 1 = n /\ n - 1 + 1 <= N /\ n - 1 \in 0 .. N /\ n \in 0 .. N
    BY <1>1
  <2>2. h[n] = R[n - 1][h[n - 1]]
    BY <1>5, <2>1 DEF Computes
  <2>3. R[n - 1][h[n - 1]] = F[h[n - 1]][s[n]]
    BY <1>3, <1>5, <2>1
  <2>4. QED
    BY <2>1, <2>2, <2>3
<1>8. g[0] = b
  BY <1>1, <1>5 DEF Computes
<1> HIDE DEF g
<1>9. IsRun(g, F, b, s)
  BY <1>7, <1>8 DEF IsRun
<1> DEFINE G == [0 .. N -> S]
           c == CHOOSE k \in [0 .. N -> DOMAIN F] : IsRun(k, F, b, s)
<1>10. DOMAIN F = S
  OBVIOUS
<1>11. c \in [0 .. N -> S] /\ IsRun(c, F, b, s)
  BY <1>6, <1>9, <1>10
<1>12. Fold(F, b, s) = c[N]
  BY DEF Fold
<1>13. QED
  BY <1>11, <1>12

\* The states depend on what was read only.
LEMMA RunsAgree ==
  ASSUME NEW S, NEW A, NEW F \in Steps(S, A), NEW b, NEW s \in Seq(A), NEW t \in Seq(A),
         NEW g, IsRun(g, F, b, s), NEW h, IsRun(h, F, b, t),
         NEW n \in Nat, n <= Len(s), n <= Len(t), \A i \in 1 .. n : s[i] = t[i]
  PROVE  g[n] = h[n]
<1> DEFINE P == {k \in Nat : k <= n => g[k] = h[k]}
<1>1. Len(s) \in Nat /\ Len(t) \in Nat
  BY LenProperties
<1>2. 0 \in P
  BY DEF IsRun
<1>3. ASSUME NEW k \in P PROVE k + 1 \in P
  <2> SUFFICES ASSUME k + 1 <= n PROVE g[k + 1] = h[k + 1]
    OBVIOUS
  <2>1. k + 1 \in 1 .. Len(s) /\ k + 1 \in 1 .. Len(t) /\ k + 1 \in 1 .. n /\ k + 1 - 1 = k
    BY <1>1
  <2>2. g[k + 1] = F[g[k]][s[k + 1]] /\ h[k + 1] = F[h[k]][t[k + 1]]
    BY <2>1 DEF IsRun
  <2>3. QED
    BY <2>1, <2>2
<1> HIDE DEF P
<1>4. P \in SUBSET Nat
  BY DEF P
<1>5. P = Nat
  BY <1>2, <1>3, <1>4, Induction
<1>6. QED
  BY <1>5 DEF P

LEMMA FoldEmpty ==
  ASSUME NEW S, NEW A, NEW F \in Steps(S, A), NEW b \in S
  PROVE  Fold(F, b, <<>>) = b
<1>1. ASSUME NEW e \in Seq(A), Len(e) = 0 PROVE Fold(F, b, e) = b
  <2>1. PICK g \in [0 .. Len(e) -> S] : IsRun(g, F, b, e) /\ Fold(F, b, e) = g[Len(e)]
    BY FoldRuns
  <2>2. QED
    BY <1>1, <2>1 DEF IsRun
<1>2. <<>> \in Seq(A) /\ Len(<<>>) = 0
  BY EmptySeq
<1>3. QED
  BY <1>1, <1>2

LEMMA FoldType ==
  ASSUME NEW S, NEW A, NEW F \in Steps(S, A), NEW b \in S, NEW s \in Seq(A)
  PROVE  Fold(F, b, s) \in S
<1>1. Len(s) \in 0 .. Len(s)
  BY LenProperties
<1>2. QED
  BY <1>1, FoldRuns

LEMMA FoldAppend ==
  ASSUME NEW S, NEW A, NEW F \in Steps(S, A), NEW b \in S, NEW s \in Seq(A), NEW a \in A
  PROVE  Fold(F, b, Append(s, a)) = F[Fold(F, b, s)][a]
<1> DEFINE t == Append(s, a)
           N == Len(s)
<1>1. N \in Nat /\ t \in Seq(A) /\ Len(t) = N + 1 /\ (\A i \in 1 .. N : t[i] = s[i]) /\ t[N + 1] = a
  BY LenProperties, AppendProperties
<1> HIDE DEF t
<1>2. PICK g \in [0 .. Len(s) -> S] : IsRun(g, F, b, s) /\ Fold(F, b, s) = g[N]
  BY FoldRuns
<1>3. PICK h \in [0 .. Len(t) -> S] : IsRun(h, F, b, t) /\ Fold(F, b, t) = h[N + 1]
  BY <1>1, FoldRuns
<1>4. g[N] = h[N]
  <2>1. N <= Len(s) /\ N <= Len(t) /\ \A i \in 1 .. N : s[i] = t[i]
    BY <1>1
  <2>2. IsRun(g, F, b, s) /\ IsRun(h, F, b, t)
    BY <1>2, <1>3
  <2>3. QED
    BY <1>1, <2>1, <2>2, RunsAgree
<1>5. h[N + 1] = F[h[N]][a]
  BY <1>1, <1>3 DEF IsRun
<1>6. QED
  BY <1>2, <1>3, <1>4, <1>5 DEF t

LEMMA FoldOne ==
  ASSUME NEW S, NEW A, NEW F \in Steps(S, A), NEW b \in S, NEW a \in A
  PROVE  Fold(F, b, <<a>>) = F[b][a]
<1>1. ASSUME NEW e \in Seq(A), e = <<>> PROVE Fold(F, b, Append(e, a)) = F[b][a]
  <2>1. Fold(F, b, e) = b
    BY <1>1, FoldEmpty
  <2>2. QED
    BY <2>1, FoldAppend
<1>2. <<>> \in Seq(A) /\ Append(<<>>, a) = <<a>>
  BY EmptySeq
<1>3. QED
  BY <1>1, <1>2

LEMMA FoldConcat ==
  ASSUME NEW S, NEW A, NEW F \in Steps(S, A), NEW b \in S, NEW s \in Seq(A), NEW t \in Seq(A)
  PROVE  Fold(F, b, s \o t) = Fold(F, Fold(F, b, s), t)
<1> DEFINE c == Fold(F, b, s)
           P == {u \in Seq(A) : Fold(F, b, s \o u) = Fold(F, c, u)}
<1>1. c \in S
  BY FoldType
<1> HIDE DEF c
<1>2. <<>> \in P
  <2>1. <<>> \in Seq(A) /\ s \o <<>> = s
    BY EmptySeq, ConcatEmptySeq
  <2>2. QED
    BY <1>1, <2>1, FoldEmpty DEF c
<1>3. ASSUME NEW u \in P, NEW a \in A PROVE Append(u, a) \in P
  <2>1. /\ Append(u, a) \in Seq(A) /\ s \o u \in Seq(A)
        /\ s \o Append(u, a) = Append(s \o u, a)
    OBVIOUS
  <2>2. Fold(F, b, Append(s \o u, a)) = F[Fold(F, b, s \o u)][a]
    <3> DEFINE v == s \o u
    <3> HIDE DEF v
    <3>1. v \in Seq(A)
      BY <2>1 DEF v
    <3>2. Fold(F, b, Append(v, a)) = F[Fold(F, b, v)][a]
      BY <3>1, FoldAppend
    <3>3. QED
      BY <3>2 DEF v
  <2>3. Fold(F, c, Append(u, a)) = F[Fold(F, c, u)][a]
    BY <1>1, FoldAppend
  <2>4. QED
    BY <2>1, <2>2, <2>3
<1> HIDE DEF P
<1>4. P \in SUBSET Seq(A)
  BY DEF P
<1>5. P = Seq(A)
  BY <1>2, <1>3, <1>4, SeqInduction
<1>6. QED
  BY <1>5 DEF P, c

-----------------------------------------------------------------------------
(* The loops of the session file. *)

Text == Messages \X (Nat \ {0})
Byte == Text \cup {NL}

\* splitLines: the lines that have ended, and the one in progress.
Splits == [split : Seq(Seq(Text)), line : Seq(Text)]
Cutting == [s \in Splits |-> [x \in Byte |-> Cut(s, x)]]
NoLine == [split |-> <<>>, line |-> <<>>]
Closed(s) == AddLine(s.split, s.line)

NothingRead == <<>>
Reading == [r \in Seq(Messages) |-> [l \in Seq(Text) |-> ReadLine(r, l)]]
NoTokens == 0
Sums == Nat
Adding == [n \in Sums |-> [m \in Messages |-> n + Tokens[m]]]

LEMMA ConcatBytes ==
  \A x, y, z \in Seq(Byte) : (x \o y) \o z = x \o (y \o z)
BY ConcatAssociative

LEMMA ConcatMessages ==
  \A x, y, z \in Seq(Messages) : (x \o y) \o z = x \o (y \o z)
BY ConcatAssociative

LEMMA LoopTypes ==
  /\ Cutting \in Steps(Splits, Byte) /\ NoLine \in Splits
  /\ Reading \in Steps(Seq(Messages), Seq(Text)) /\ NothingRead \in Seq(Messages)
  /\ Adding \in Steps(Sums, Messages) /\ NoTokens \in Sums
<1>1. ASSUME NEW s \in Splits, NEW x \in Byte PROVE Cut(s, x) \in Splits
  <2>1. s.split \in Seq(Seq(Text)) /\ s.line \in Seq(Text)
    BY DEF Splits
  <2>2. AddLine(s.split, s.line) \in Seq(Seq(Text))
    BY <2>1 DEF AddLine
  <2>3. x # NL => Append(s.line, x) \in Seq(Text)
    BY <2>1 DEF Byte
  <2>4. <<>> \in Seq(Text)
    BY EmptySeq
  <2>5. QED
    BY <2>1, <2>2, <2>3, <2>4 DEF Cut, Splits
<1>2. Cutting \in [Splits -> [Byte -> Splits]]
  BY <1>1 DEF Cutting
<1>3. ASSUME NEW r \in Seq(Messages), NEW l \in Seq(Text) PROVE ReadLine(r, l) \in Seq(Messages)
  BY DEF ReadLine, Parses, Parse
<1>4. Reading \in [Seq(Messages) -> [Seq(Text) -> Seq(Messages)]]
  BY <1>3 DEF Reading
<1>5. Adding \in [Sums -> [Messages -> Sums]]
  BY SizeAssumption DEF Adding, Sums
<1>6. NoLine \in Splits
  BY EmptySeq DEF NoLine, Splits
<1>7. QED
  BY <1>2, <1>4, <1>5, <1>6, EmptySeq DEF Steps, NothingRead, NoTokens, Sums

\* The functions the model's loops are defined by exist, and are runs.
LEMMA SplitIsFold ==
  ASSUME NEW data \in Seq(Byte)
  PROVE  SplitLines(data) = Closed(Fold(Cutting, NoLine, data))
<1> DEFINE N == Len(data)
           Round(f) == [i \in 0 .. N |-> IF i = 0 THEN NoLine ELSE Cut(f[i - 1], data[i])]
           h == CHOOSE f : f = Round(f)
<1>1. N \in Nat /\ \A i \in 1 .. N : data[i] \in Byte
  BY LenProperties, ElementOfSeq
<1>2. PICK g \in [0 .. N -> Splits] : IsRun(g, Cutting, NoLine, data)
                                      /\ Fold(Cutting, NoLine, data) = g[N]
  BY LoopTypes, FoldRuns
<1>3. \A s \in Splits, x \in Byte : Cutting[s][x] = Cut(s, x)
  BY DEF Cutting
<1>4. \A i \in 1 .. N : g[i] = Cut(g[i - 1], data[i]) /\ g[i - 1] \in Splits
  BY <1>1, <1>2, <1>3 DEF IsRun
<1>5. g = Round(g)
  <2>1. \A i \in 0 .. N : g[i] = Round(g)[i]
    BY <1>1, <1>2, <1>4 DEF IsRun
  <2>2. QED
    BY <2>1
<1>6. h = Round(h)
  BY <1>5
<1>7. SplitLines(data) = Closed(h[N])
  BY DEF SplitLines, Closed, NoLine
<1> HIDE DEF h
<1>8. h[0] = NoLine /\ \A i \in 1 .. N : h[i] = Cut(h[i - 1], data[i])
  BY <1>1, <1>6
<1> DEFINE P == {n \in Nat : n <= N => h[n] = g[n]}
<1>9. 0 \in P
  BY <1>2, <1>8 DEF IsRun
<1>10. \A n \in P : n + 1 \in P
  BY <1>1, <1>4, <1>8
<1> HIDE DEF P
<1>11. P = Nat
  <2>1. P \in SUBSET Nat
    BY DEF P
  <2>2. QED
    BY <1>9, <1>10, <2>1, Induction
<1>12. QED
  BY <1>1, <1>2, <1>7, <1>11 DEF P

LEMMA MessagesIsFold ==
  ASSUME NEW split \in Seq(Seq(Text))
  PROVE  MessagesOf(split) = Fold(Reading, NothingRead, split)
<1> DEFINE N == Len(split)
           Read(f) == [n \in 0 .. N |-> IF n = 0 THEN NothingRead ELSE ReadLine(f[n - 1], split[n])]
           h == CHOOSE f : f = Read(f)
<1>1. N \in Nat /\ \A i \in 1 .. N : split[i] \in Seq(Text)
  BY LenProperties, ElementOfSeq
<1>2. PICK g \in [0 .. N -> Seq(Messages)] : IsRun(g, Reading, NothingRead, split)
                                             /\ Fold(Reading, NothingRead, split) = g[N]
  BY LoopTypes, FoldRuns
<1>3. \A r \in Seq(Messages), l \in Seq(Text) : Reading[r][l] = ReadLine(r, l)
  BY DEF Reading
<1>4. ASSUME NEW i \in 1 .. N PROVE g[i] = ReadLine(g[i - 1], split[i]) /\ g[i - 1] \in Seq(Messages)
  <2>1. i - 1 \in 0 .. N /\ split[i] \in Seq(Text)
    BY <1>1
  <2>2. g[i - 1] \in Seq(Messages)
    BY <1>2, <2>1
  <2>3. g[i] = Reading[g[i - 1]][split[i]]
    BY <1>2 DEF IsRun
  <2>4. QED
    BY <1>3, <2>1, <2>2, <2>3
<1>5. g = Read(g)
  <2>1. \A i \in 0 .. N : g[i] = Read(g)[i]
    BY <1>1, <1>2, <1>4 DEF IsRun
  <2>2. QED
    BY <2>1
<1>6. h = Read(h)
  BY <1>5
<1>7. MessagesOf(split) = h[N]
  BY DEF MessagesOf, NothingRead
<1> HIDE DEF h
<1>8. h[0] = NothingRead /\ \A i \in 1 .. N : h[i] = ReadLine(h[i - 1], split[i])
  BY <1>1, <1>6
<1> DEFINE P == {n \in Nat : n <= N => h[n] = g[n]}
<1>9. 0 \in P
  BY <1>2, <1>8 DEF IsRun
<1>10. \A n \in P : n + 1 \in P
  BY <1>1, <1>4, <1>8
<1> HIDE DEF P
<1>11. P = Nat
  <2>1. P \in SUBSET Nat
    BY DEF P
  <2>2. QED
    BY <1>9, <1>10, <2>1, Induction
<1>12. QED
  BY <1>1, <1>2, <1>7, <1>11 DEF P

LEMMA TokensIsFold ==
  ASSUME NEW s \in Seq(Messages)
  PROVE  TokensOf(s) = Fold(Adding, NoTokens, s)
<1> DEFINE N == Len(s)
           Sum(f) == [n \in 0 .. N |-> IF n = 0 THEN NoTokens ELSE f[n - 1] + Tokens[s[n]]]
           h == CHOOSE f : f = Sum(f)
<1>1. N \in Nat /\ \A i \in 1 .. N : s[i] \in Messages
  BY LenProperties, ElementOfSeq
<1>2. PICK g \in [0 .. N -> Sums] : IsRun(g, Adding, NoTokens, s) /\ Fold(Adding, NoTokens, s) = g[N]
  BY LoopTypes, FoldRuns
<1>3. \A n \in Sums, m \in Messages : Adding[n][m] = n + Tokens[m]
  BY DEF Adding
<1>4. ASSUME NEW i \in 1 .. N PROVE g[i] = g[i - 1] + Tokens[s[i]] /\ g[i - 1] \in Sums
  <2>1. i - 1 \in 0 .. N /\ s[i] \in Messages
    BY <1>1
  <2>2. g[i - 1] \in Sums
    BY <1>2, <2>1
  <2>3. g[i] = Adding[g[i - 1]][s[i]]
    BY <1>2 DEF IsRun
  <2>4. QED
    BY <1>3, <2>1, <2>2, <2>3
<1>5. g = Sum(g)
  <2>1. \A i \in 0 .. N : g[i] = Sum(g)[i]
    BY <1>1, <1>2, <1>4 DEF IsRun
  <2>2. QED
    BY <2>1
<1>6. h = Sum(h)
  BY <1>5
<1>7. TokensOf(s) = h[N]
  BY DEF TokensOf, NoTokens
<1> HIDE DEF h
<1>8. h[0] = NoTokens /\ \A i \in 1 .. N : h[i] = h[i - 1] + Tokens[s[i]]
  BY <1>1, <1>6
<1> DEFINE P == {n \in Nat : n <= N => h[n] = g[n]}
<1>9. 0 \in P
  BY <1>2, <1>8 DEF IsRun
<1>10. \A n \in P : n + 1 \in P
  BY <1>1, <1>4, <1>8
<1> HIDE DEF P
<1>11. P = Nat
  <2>1. P \in SUBSET Nat
    BY DEF P
  <2>2. QED
    BY <1>9, <1>10, <2>1, Induction
<1>12. QED
  BY <1>1, <1>2, <1>7, <1>11 DEF P

SplitOf(data) == Fold(Cutting, NoLine, data)

LEMMA CutType ==
  ASSUME NEW s \in Splits, NEW x \in Byte
  PROVE  /\ Cutting[s][x] = Cut(s, x) /\ Cut(s, x) \in Splits
         /\ s.split \in Seq(Seq(Text)) /\ s.line \in Seq(Text)
         /\ Closed(s) \in Seq(Seq(Text))
<1>1. Cutting[s][x] = Cut(s, x)
  BY DEF Cutting
<1>2. Cutting[s][x] \in Splits
  BY LoopTypes DEF Steps
<1>3. s.split \in Seq(Seq(Text)) /\ s.line \in Seq(Text)
  BY DEF Splits
<1>4. QED
  BY <1>1, <1>2, <1>3 DEF Closed, AddLine

LEMMA SplitLinesTypes ==
  ASSUME NEW data \in Seq(Byte)
  PROVE  /\ SplitOf(data) \in Splits
         /\ SplitLines(data) = Closed(SplitOf(data)) /\ SplitLines(data) \in Seq(Seq(Text))
<1>1. SplitOf(data) \in Splits
  BY LoopTypes, FoldType DEF SplitOf
<1>2. NL \in Byte
  BY DEF Byte
<1>3. Closed(SplitOf(data)) \in Seq(Seq(Text))
  BY <1>1, <1>2, CutType
<1>4. QED
  BY <1>1, <1>3, SplitIsFold DEF SplitOf

\* What has been split stays in front of what is split later.
Behind(L, s) == [split |-> L \o s.split, line |-> s.line]

LEMMA CutBehind ==
  ASSUME NEW L \in Seq(Seq(Text)), NEW s \in Splits, NEW x \in Byte
  PROVE  /\ Behind(L, s) \in Splits
         /\ Cut(Behind(L, s), x) = Behind(L, Cut(s, x))
         /\ Closed(Behind(L, s)) = L \o Closed(s)
<1>1. s.split \in Seq(Seq(Text)) /\ s.line \in Seq(Text)
  BY CutType
<1>2. L \o s.split \in Seq(Seq(Text))
  BY <1>1, ConcatProperties
<1>3. Append(L \o s.split, s.line) = L \o Append(s.split, s.line)
  <2>1. ASSUME NEW p \in Seq(Seq(Text)), NEW l \in Seq(Text)
        PROVE  Append(L \o p, l) = L \o Append(p, l)
    <3> DEFINE A == Seq(Text)
    <3> HIDE DEF A
    <3>1. L \in Seq(A) /\ p \in Seq(A) /\ l \in A
      BY DEF A
    <3>2. L \o Append(p, l) = Append(L \o p, l)
      BY <3>1, AppendBehind
    <3>3. QED
      BY <3>2
  <2>2. QED
    BY <1>1, <2>1
<1>4. AddLine(L \o s.split, s.line) = L \o AddLine(s.split, s.line)
  BY <1>3 DEF AddLine
<1>5. QED
  BY <1>1, <1>2, <1>4 DEF Behind, Cut, Closed, Splits

LEMMA FoldBehind ==
  ASSUME NEW L \in Seq(Seq(Text)), NEW s \in Splits, NEW t \in Seq(Byte)
  PROVE  Fold(Cutting, Behind(L, s), t) = Behind(L, Fold(Cutting, s, t))
<1> DEFINE b == Behind(L, s)
           P == {u \in Seq(Byte) : Fold(Cutting, b, u) = Behind(L, Fold(Cutting, s, u))}
<1>1. NL \in Byte
  BY DEF Byte
<1>2. b \in Splits
  BY <1>1, CutBehind
<1> HIDE DEF b
<1>3. <<>> \in P
  <2>1. Fold(Cutting, b, <<>>) = b /\ Fold(Cutting, s, <<>>) = s
    BY <1>2, LoopTypes, FoldEmpty
  <2>2. QED
    BY <2>1, EmptySeq DEF b
<1>4. ASSUME NEW u \in P, NEW x \in Byte PROVE Append(u, x) \in P
  <2> DEFINE r == Fold(Cutting, s, u)
             q == Fold(Cutting, b, u)
  <2>1. r \in Splits /\ q \in Splits /\ q = Behind(L, r)
    BY <1>2, LoopTypes, FoldType
  <2>2. Fold(Cutting, s, Append(u, x)) = Cutting[r][x]
    BY LoopTypes, FoldAppend
  <2>3. Fold(Cutting, b, Append(u, x)) = Cutting[q][x]
    BY <1>2, LoopTypes, FoldAppend
  <2> HIDE DEF r, q
  <2>4. Cutting[r][x] = Cut(r, x) /\ Cutting[q][x] = Cut(q, x)
    BY <2>1, CutType
  <2>5. Cut(q, x) = Behind(L, Cut(r, x))
    BY <2>1, CutBehind
  <2>6. Append(u, x) \in Seq(Byte)
    BY AppendProperties
  <2>7. QED
    BY <2>2, <2>3, <2>4, <2>5, <2>6
<1> HIDE DEF P
<1>5. P \in SUBSET Seq(Byte)
  BY DEF P
<1>6. P = Seq(Byte)
  BY <1>3, <1>4, <1>5, SeqInduction
<1>7. QED
  BY <1>6 DEF P, b

\* Lines split apart at a newline.
LEMMA SplitAtNewline ==
  ASSUME NEW x \in Seq(Byte), NEW y \in Seq(Byte), y = <<>> \/ y[1] = NL
  PROVE  SplitLines(x \o y) = SplitLines(x) \o SplitLines(y)
<1>1. NL \in Byte /\ <<>> \in Seq(Byte)
  BY EmptySeq DEF Byte
<1>2. CASE y = <<>>
  <2>1. SplitOf(<<>>) = NoLine
    BY LoopTypes, FoldEmpty DEF SplitOf
  <2>2. ASSUME NEW e \in Seq(Byte), e = <<>> PROVE SplitLines(e) = <<>>
    <3>1. SplitLines(e) = Closed(NoLine)
      BY <2>1, <2>2, SplitLinesTypes
    <3>2. QED
      BY <3>1 DEF NoLine, Closed, AddLine
  <2>3. x \o <<>> = x /\ SplitLines(x) \o <<>> = SplitLines(x)
    BY SplitLinesTypes, ConcatEmptySeq
  <2>4. QED
    BY <1>1, <1>2, <2>2, <2>3
<1>3. CASE y # <<>>
  <2> DEFINE z == Tail(y)
             n == Append(x, NL)
             L == SplitLines(x)
             e == <<NL>>
  <2>1. z \in Seq(Byte) /\ y = e \o z /\ x \o y = n \o z
        /\ n \in Seq(Byte) /\ e \in Seq(Byte)
    BY <1>1, <1>3
  <2>2. SplitOf(x) \in Splits /\ L = Closed(SplitOf(x)) /\ L \in Seq(Seq(Text))
    BY SplitLinesTypes
  <2>3. SplitOf(n) = Cut(SplitOf(x), NL)
    <3>1. SplitOf(n) = Cutting[SplitOf(x)][NL]
      BY <1>1, LoopTypes, FoldAppend DEF SplitOf
    <3>2. QED
      BY <1>1, <2>2, <3>1, CutType
  <2>4. SplitOf(e) = Cut(NoLine, NL)
    <3>1. SplitOf(e) = Cutting[NoLine][NL]
      BY <1>1, LoopTypes, FoldOne DEF SplitOf
    <3>2. QED
      BY <1>1, <3>1, LoopTypes, CutType
  <2>5. SplitOf(e) = NoLine
    BY <2>4 DEF Cut, NoLine, AddLine
  <2>6. SplitOf(n) = Behind(L, NoLine)
    BY <2>2, <2>3, ConcatEmptySeq DEF Cut, Closed, Behind, NoLine
  <2> HIDE DEF z, n, L, e
  <2>7. SplitOf(n \o z) = Fold(Cutting, SplitOf(n), z) /\ SplitOf(e \o z) = Fold(Cutting, SplitOf(e), z)
    BY <2>1, LoopTypes, FoldConcat DEF SplitOf
  <2>8. SplitOf(n \o z) = Behind(L, SplitOf(z)) /\ SplitOf(e \o z) = SplitOf(z)
    BY <2>1, <2>2, <2>5, <2>6, <2>7, LoopTypes, FoldBehind DEF SplitOf
  <2>9. SplitOf(z) \in Splits
    BY <2>1, SplitLinesTypes
  <2>10. Closed(Behind(L, SplitOf(z))) = L \o Closed(SplitOf(z))
    BY <1>1, <2>2, <2>9, CutBehind
  <2>11. SplitLines(n \o z) = Closed(SplitOf(n \o z)) /\ SplitLines(e \o z) = Closed(SplitOf(e \o z))
    <3>1. n \o z \in Seq(Byte) /\ e \o z \in Seq(Byte)
      BY <2>1, ConcatProperties
    <3>2. QED
      BY <3>1, SplitLinesTypes
  <2>12. QED
    BY <2>1, <2>8, <2>10, <2>11 DEF L
<1>4. QED
  BY <1>2, <1>3

LEMMA SplitEmpty ==
  ASSUME NEW e \in Seq(Byte), e = <<>>
  PROVE  SplitOf(e) = NoLine /\ SplitLines(e) = <<>>
<1>1. SplitOf(<<>>) = NoLine
  BY LoopTypes, FoldEmpty DEF SplitOf
<1>2. SplitLines(e) = Closed(NoLine)
  BY <1>1, SplitLinesTypes
<1>3. QED
  BY <1>1, <1>2 DEF NoLine, Closed, AddLine

\* Bytes of a message go on with the line in progress.
LEMMA TextJoins ==
  ASSUME NEW s \in Splits, NEW t \in Seq(Text)
  PROVE  /\ t \in Seq(Byte)
         /\ Fold(Cutting, s, t) = [split |-> s.split, line |-> s.line \o t]
<1> DEFINE P == {u \in Seq(Text) : Fold(Cutting, s, u) = [split |-> s.split, line |-> s.line \o u]}
<1>1. \A u \in Seq(Text) : u \in Seq(Byte)
  BY SeqMonotonic DEF Byte
<1>2. s.split \in Seq(Seq(Text)) /\ s.line \in Seq(Text)
  BY DEF Splits
<1>3. <<>> \in P
  <2>1. Fold(Cutting, s, <<>>) = s
    BY LoopTypes, FoldEmpty
  <2>2. s = [split |-> s.split, line |-> s.line] /\ s.line \o <<>> = s.line
    BY <1>2, ConcatEmptySeq DEF Splits
  <2>3. QED
    BY <2>1, <2>2, EmptySeq
<1>4. ASSUME NEW u \in P, NEW x \in Text PROVE Append(u, x) \in P
  <2> DEFINE r == Fold(Cutting, s, u)
  <2>1. u \in Seq(Byte) /\ x \in Byte /\ x # NL
    BY <1>1, NLAssumption DEF Byte, Text
  <2>2. r \in Splits /\ r = [split |-> s.split, line |-> s.line \o u]
    BY <2>1, LoopTypes, FoldType
  <2>3. Fold(Cutting, s, Append(u, x)) = Cutting[r][x]
    BY <2>1, LoopTypes, FoldAppend
  <2> HIDE DEF r
  <2>4. Cutting[r][x] = Cut(r, x)
    BY <2>1, <2>2, CutType
  <2>5. Cut(r, x) = [split |-> r.split, line |-> Append(r.line, x)]
    BY <2>1 DEF Cut
  <2>6. r.split = s.split /\ r.line = s.line \o u
    BY <2>2
  <2>7. Append(s.line \o u, x) = s.line \o Append(u, x)
    <3>1. ASSUME NEW l \in Seq(Text) PROVE l \o Append(u, x) = Append(l \o u, x)
      BY AppendBehind
    <3>2. QED
      BY <1>2, <3>1
  <2>8. Append(u, x) \in Seq(Text)
    BY AppendProperties
  <2>9. QED
    BY <2>3, <2>4, <2>5, <2>6, <2>7, <2>8
<1> HIDE DEF P
<1>5. P \in SUBSET Seq(Text)
  BY DEF P
<1>6. P = Seq(Text)
  BY <1>3, <1>4, <1>5, SeqInduction
<1>7. QED
  BY <1>1, <1>6 DEF P

LEMMA NewlinesOnly ==
  ASSUME NEW n \in Seq({NL})
  PROVE  n \in Seq(Byte) /\ SplitOf(n) = NoLine
<1> DEFINE P == {u \in Seq({NL}) : SplitOf(u) = NoLine}
<1>1. \A u \in Seq({NL}) : u \in Seq(Byte)
  BY SeqMonotonic DEF Byte
<1>2. <<>> \in P
  BY LoopTypes, FoldEmpty, EmptySeq DEF SplitOf
<1>3. ASSUME NEW u \in P, NEW x \in {NL} PROVE Append(u, x) \in P
  <2>1. u \in Seq(Byte) /\ NL \in Byte /\ x = NL
    BY <1>1 DEF Byte
  <2>2. SplitOf(Append(u, x)) = Cutting[SplitOf(u)][x]
    BY <2>1, LoopTypes, FoldAppend DEF SplitOf
  <2>3. Cutting[NoLine][NL] = Cut(NoLine, NL)
    BY <2>1, LoopTypes, CutType
  <2>4. Cut(NoLine, NL) = NoLine
    BY DEF Cut, NoLine, AddLine
  <2>5. Append(u, x) \in Seq({NL})
    BY AppendProperties
  <2>6. QED
    BY <2>1, <2>2, <2>3, <2>4, <2>5
<1> HIDE DEF P
<1>4. P \in SUBSET Seq({NL})
  BY DEF P
<1>5. P = Seq({NL})
  BY <1>2, <1>3, <1>4, SeqInduction
<1>6. QED
  BY <1>1, <1>5 DEF P

\* Newlines, the first line, and the rest.
FirstLine(data, n, t, y) ==
    /\ n \in Seq({NL}) /\ t \in Seq(Text) /\ y \in Seq(Byte)
    /\ data = (n \o t) \o y
    /\ y = <<>> \/ (y[1] = NL /\ t # <<>>)

LEMMA FirstLineExists ==
  ASSUME NEW data \in Seq(Byte)
  PROVE  \E n, t, y : FirstLine(data, n, t, y)
<1> DEFINE P == {d \in Seq(Byte) : \E n, t, y : FirstLine(d, n, t, y)}
<1>1. \A u \in Seq({NL}) : u \in Seq(Byte)
  BY NewlinesOnly
<1>2. \A u \in Seq(Text) : u \in Seq(Byte)
  BY SeqMonotonic DEF Byte
<1>3. <<>> \in P
  <2>1. FirstLine(<<>>, <<>>, <<>>, <<>>)
    BY DEF FirstLine
  <2>2. QED
    BY <2>1
<1>4. ASSUME NEW d \in P, NEW x \in Byte PROVE Append(d, x) \in P
  <2>1. PICK n, t, y : FirstLine(d, n, t, y)
    OBVIOUS
  <2>2. n \in Seq({NL}) /\ t \in Seq(Text) /\ y \in Seq(Byte) /\ d = (n \o t) \o y
        /\ (y = <<>> \/ (y[1] = NL /\ t # <<>>)) /\ d \in Seq(Byte)
    BY <2>1 DEF FirstLine
  <2>3. n \in Seq(Byte) /\ t \in Seq(Byte) /\ n \o t \in Seq(Byte)
    BY <1>1, <1>2, <2>2, ConcatProperties
  <2>4. Append(d, x) = (n \o t) \o Append(y, x) /\ Append(d, x) \in Seq(Byte) /\ Append(y, x) \in Seq(Byte)
    <3>1. ASSUME NEW v \in Seq(Byte) PROVE v \o Append(y, x) = Append(v \o y, x)
      BY <2>2, AppendBehind
    <3>2. QED
      BY <2>2, <2>3, <3>1, AppendProperties
  <2>5. CASE y # <<>>
    <3>1. Append(y, x)[1] = NL
      BY <2>2, <2>5
    <3>2. FirstLine(Append(d, x), n, t, Append(y, x))
      BY <2>2, <2>4, <2>5, <3>1 DEF FirstLine
    <3>3. QED
      BY <2>4, <3>2
  <2>6. CASE y = <<>> /\ t # <<>> /\ x = NL
    <3>1. Append(y, x)[1] = NL
      BY <2>2, <2>6
    <3>2. FirstLine(Append(d, x), n, t, Append(y, x))
      BY <2>2, <2>4, <2>6, <3>1 DEF FirstLine
    <3>3. QED
      BY <2>4, <3>2
  <2>7. d = n \o t \/ y # <<>>
    BY <2>2, <2>3, ConcatEmptySeq
  <2>8. CASE y = <<>> /\ x # NL
    <3>1. x \in Text /\ Append(t, x) \in Seq(Text)
      BY <2>2, <2>8 DEF Byte
    <3>2. Append(d, x) = n \o Append(t, x)
      BY <2>3, <2>7, <2>8, AppendBehind
    <3>3. n \o Append(t, x) = (n \o Append(t, x)) \o <<>>
      BY <1>2, <2>3, <3>1, ConcatProperties, ConcatEmptySeq
    <3>4. FirstLine(Append(d, x), n, Append(t, x), <<>>)
      BY <2>2, <3>1, <3>2, <3>3, EmptySeq DEF FirstLine
    <3>5. QED
      BY <2>4, <3>4
  <2>9. CASE y = <<>> /\ t = <<>> /\ x = NL
    <3>1. Append(n, x) \in Seq({NL}) /\ Append(n, x) \in Seq(Byte)
      BY <1>1, <2>2, <2>9, AppendProperties
    <3>2. Append(d, x) = Append(n, x)
      BY <2>3, <2>7, <2>9, ConcatEmptySeq
    <3>3. Append(n, x) = (Append(n, x) \o <<>>) \o <<>>
      BY <3>1, ConcatEmptySeq
    <3>4. FirstLine(Append(d, x), Append(n, x), <<>>, <<>>)
      BY <3>1, <3>2, <3>3, EmptySeq DEF FirstLine
    <3>5. QED
      BY <2>4, <3>4
  <2>10. QED
    BY <2>5, <2>6, <2>8, <2>9
<1> HIDE DEF P
<1>5. P \in SUBSET Seq(Byte)
  BY DEF P
<1>6. P = Seq(Byte)
  BY <1>3, <1>4, <1>5, SeqInduction
<1>7. QED
  BY <1>6 DEF P

LEMMA LinesOf ==
  ASSUME NEW a \in Seq(Byte), NEW t \in Seq(Text), t # <<>>
  PROVE  /\ a \o t \in Seq(Byte) /\ SplitOf(a).split \in Seq(Seq(Text))
         /\ SplitOf(a).line \in Seq(Text)
         /\ SplitLines(a) = AddLine(SplitOf(a).split, SplitOf(a).line)
         /\ SplitLines(a \o t) = Append(SplitOf(a).split, SplitOf(a).line \o t)
<1> DEFINE s == SplitOf(a)
<1>1. t \in Seq(Byte) /\ s \in Splits /\ SplitLines(a) = Closed(s)
  BY LoopTypes, TextJoins, SplitLinesTypes
<1>2. a \o t \in Seq(Byte)
  BY <1>1, ConcatProperties
<1>3. SplitOf(a \o t) = Fold(Cutting, s, t)
  BY <1>1, LoopTypes, FoldConcat DEF SplitOf
<1> HIDE DEF s
<1>4. Fold(Cutting, s, t) = [split |-> s.split, line |-> s.line \o t]
  BY <1>1, TextJoins
<1>5. s.split \in Seq(Seq(Text)) /\ s.line \in Seq(Text)
  BY <1>1 DEF Splits
<1>6. s.line \o t # <<>>
  BY <1>5
<1>7. SplitLines(a \o t) = Closed(SplitOf(a \o t))
  BY <1>2, SplitLinesTypes
<1>8. SplitLines(a \o t) = Append(s.split, s.line \o t)
  BY <1>3, <1>4, <1>6, <1>7 DEF Closed, AddLine
<1>9. QED
  BY <1>1, <1>2, <1>5, <1>8 DEF s, Closed

OneLine(t) == <<t>>

\* How the lines of a \o b come of those of a and those of b.
LEMMA LinesOfTwo ==
  ASSUME NEW a \in Seq(Byte), NEW b \in Seq(Byte), NEW n, NEW t, NEW y, FirstLine(b, n, t, y)
  PROVE  /\ SplitLines(y) \in Seq(Seq(Text))
         /\ t = <<>> => SplitLines(b) = <<>>
         /\ t # <<>> => SplitLines(b) = OneLine(t) \o SplitLines(y)
         /\ n = <<>> => SplitLines(a \o b) = SplitLines(a \o t) \o SplitLines(y)
         /\ n # <<>> => b[1] = NL /\ SplitLines(a \o b) = SplitLines(a) \o SplitLines(b)
<1>1. /\ n \in Seq({NL}) /\ t \in Seq(Text) /\ y \in Seq(Byte) /\ b = (n \o t) \o y
      /\ y = <<>> \/ (y[1] = NL /\ t # <<>>)
  BY DEF FirstLine
<1>2. n \in Seq(Byte) /\ t \in Seq(Byte) /\ SplitOf(n) = NoLine
  BY <1>1, NewlinesOnly, TextJoins, LoopTypes
<1>3. n \o t \in Seq(Byte) /\ a \o t \in Seq(Byte)
  BY <1>2, ConcatProperties
<1>4. SplitLines(b) = SplitLines(n \o t) \o SplitLines(y)
  BY <1>1, <1>3, SplitAtNewline
<1>5. SplitLines(n) = <<>>
  <2>1. SplitLines(n) = Closed(NoLine)
    BY <1>2, SplitLinesTypes
  <2>2. QED
    BY <2>1 DEF Closed, NoLine, AddLine
<1>6. ASSUME t = <<>> PROVE SplitLines(b) = <<>>
  <2>1. y = <<>> /\ n \o t = n
    BY <1>1, <1>2, <1>6, ConcatEmptySeq
  <2>2. SplitLines(y) = <<>>
    BY <1>1, <2>1, SplitEmpty
  <2>3. \A s \in Seq(Seq(Text)) : s = <<>> => s \o s = <<>>
    OBVIOUS
  <2>4. QED
    BY <1>1, <1>4, <1>5, <1>6, <2>1, <2>2, <2>3, SplitLinesTypes
<1>7. ASSUME t # <<>> PROVE SplitLines(n \o t) = OneLine(t)
  <2>1. SplitLines(n \o t) = Append(SplitOf(n).split, SplitOf(n).line \o t)
    BY <1>1, <1>2, <1>7, LinesOf
  <2>2. SplitOf(n).split = <<>> /\ SplitOf(n).line = <<>>
    BY <1>2 DEF NoLine
  <2>3. <<>> \o t = t /\ Append(<<>>, t) = <<t>>
    BY <1>1, ConcatEmptySeq
  <2>4. QED
    BY <2>1, <2>2, <2>3 DEF OneLine
<1>8. ASSUME n = <<>> PROVE SplitLines(a \o b) = SplitLines(a \o t) \o SplitLines(y)
  <2>1. n \o t = t
    BY <1>2, <1>8, ConcatEmptySeq
  <2>2. a \o b = (a \o t) \o y
    <3>1. b = t \o y
      BY <1>1, <2>1
    <3>2. a \o (t \o y) = (a \o t) \o y
      BY <1>1, <1>2, ConcatBytes
    <3>3. QED
      BY <3>1, <3>2
  <2>3. QED
    BY <1>1, <1>3, <2>2, SplitAtNewline
<1>9. ASSUME n # <<>> PROVE b[1] = NL
  <2>1. n[1] = NL /\ Len(n) \in Nat \ {0}
    BY <1>1, <1>9, EmptySeq, LenProperties, ElementOfSeq
  <2>2. ((n \o t) \o y)[1] = (n \o t)[1]
    BY <1>1, <1>2, <1>3, <2>1
  <2>3. (n \o t)[1] = n[1]
    BY <1>1, <1>2, <2>1
  <2>4. QED
    BY <1>1, <2>1, <2>2, <2>3
<1>10. n # <<>> => SplitLines(a \o b) = SplitLines(a) \o SplitLines(b)
  BY <1>9, SplitAtNewline
<1>11. SplitLines(y) \in Seq(Seq(Text))
  BY <1>1, SplitLinesTypes
<1>12. QED
  BY <1>4, <1>6, <1>7, <1>8, <1>9, <1>10, <1>11

LEMMA MessagesAppend ==
  ASSUME NEW x \in Seq(Seq(Text)), NEW l \in Seq(Text)
  PROVE  /\ MessagesOf(x) \in Seq(Messages)
         /\ MessagesOf(Append(x, l)) = ReadLine(MessagesOf(x), l)
<1>1. Append(x, l) \in Seq(Seq(Text))
  BY AppendProperties
<1>2. MessagesOf(x) = Fold(Reading, NothingRead, x)
      /\ MessagesOf(Append(x, l)) = Fold(Reading, NothingRead, Append(x, l))
  BY <1>1, MessagesIsFold
<1>3. MessagesOf(x) \in Seq(Messages)
  BY <1>2, LoopTypes, FoldType
<1>4. Fold(Reading, NothingRead, Append(x, l)) = Reading[Fold(Reading, NothingRead, x)][l]
  <2> DEFINE A == Seq(Text)
  <2> HIDE DEF A
  <2>1. Reading \in Steps(Seq(Messages), A) /\ x \in Seq(A) /\ l \in A
    BY LoopTypes DEF A
  <2>2. QED
    BY <2>1, LoopTypes, FoldAppend
<1>5. QED
  BY <1>2, <1>3, <1>4 DEF Reading

LEMMA MessagesNone ==
  ASSUME NEW x \in Seq(Seq(Text)), x = <<>>
  PROVE  MessagesOf(x) = <<>>
<1>1. MessagesOf(x) = Fold(Reading, NothingRead, <<>>)
  BY MessagesIsFold
<1>2. Fold(Reading, NothingRead, <<>>) = NothingRead
  BY LoopTypes, FoldEmpty
<1>3. QED
  BY <1>1, <1>2 DEF NothingRead

LEMMA MessagesConcat ==
  ASSUME NEW x \in Seq(Seq(Text)), NEW z \in Seq(Seq(Text))
  PROVE  /\ x \o z \in Seq(Seq(Text))
         /\ MessagesOf(x) \in Seq(Messages) /\ MessagesOf(z) \in Seq(Messages)
         /\ MessagesOf(x \o z) = MessagesOf(x) \o MessagesOf(z)
<1> DEFINE A == Seq(Text)
           P == {u \in Seq(A) : MessagesOf(x \o u) = MessagesOf(x) \o MessagesOf(u)}
<1>1. \A u \in Seq(A) : MessagesOf(u) \in Seq(Messages)
  BY MessagesIsFold, LoopTypes, FoldType
<1>2. <<>> \in P
  <2>1. <<>> \in Seq(A) /\ x \o <<>> = x
    BY EmptySeq, ConcatEmptySeq
  <2>2. MessagesOf(<<>>) = <<>>
    BY <2>1, MessagesNone
  <2>3. MessagesOf(x) \o <<>> = MessagesOf(x)
    BY <1>1, ConcatEmptySeq
  <2>4. QED
    BY <2>1, <2>2, <2>3
<1>3. ASSUME NEW u \in P, NEW l \in A PROVE Append(u, l) \in P
  <2>1. Append(u, l) \in Seq(A) /\ x \o u \in Seq(A) /\ x \o Append(u, l) = Append(x \o u, l)
    <3> HIDE DEF A
    <3>1. x \in Seq(A) /\ u \in Seq(A)
      BY DEF A
    <3>2. QED
      BY <3>1, AppendBehind, AppendProperties, ConcatProperties
  <2>2. MessagesOf(Append(x \o u, l)) = ReadLine(MessagesOf(x \o u), l)
    BY <2>1, MessagesAppend
  <2>3. MessagesOf(Append(u, l)) = ReadLine(MessagesOf(u), l)
    BY MessagesAppend
  <2>4. ASSUME NEW p \in Seq(Messages), NEW q \in Seq(Messages)
        PROVE  ReadLine(p \o q, l) = p \o ReadLine(q, l)
    <3>1. Parses(l) => Parse(l) \in Messages
      BY DEF Parses, Parse
    <3>2. ASSUME NEW m \in Messages PROVE p \o Append(q, m) = Append(p \o q, m)
      BY AppendBehind
    <3>3. QED
      BY <3>1, <3>2 DEF ReadLine
  <2>5. ReadLine(MessagesOf(x) \o MessagesOf(u), l) = MessagesOf(x) \o ReadLine(MessagesOf(u), l)
    BY <1>1, <2>4
  <2>6. QED
    BY <2>1, <2>2, <2>3, <2>5
<1> HIDE DEF P
<1>4. P \in SUBSET Seq(A)
  BY DEF P
<1>5. P = Seq(A)
  <2> HIDE DEF A
  <2>1. QED
    BY <1>2, <1>3, <1>4, SeqInduction
<1>6. x \o z \in Seq(A)
  BY ConcatProperties
<1>7. QED
  BY <1>1, <1>5, <1>6 DEF P

LEMMA TokensAppend ==
  ASSUME NEW s \in Seq(Messages), NEW m \in Messages
  PROVE  /\ TokensOf(s) \in Nat /\ Tokens[m] \in Nat
         /\ TokensOf(Append(s, m)) = TokensOf(s) + Tokens[m]
<1>1. Append(s, m) \in Seq(Messages)
  BY AppendProperties
<1>2. TokensOf(s) = Fold(Adding, NoTokens, s) /\ TokensOf(Append(s, m)) = Fold(Adding, NoTokens, Append(s, m))
  BY <1>1, TokensIsFold
<1>3. TokensOf(s) \in Sums
  BY <1>2, LoopTypes, FoldType
<1>4. Fold(Adding, NoTokens, Append(s, m)) = Adding[Fold(Adding, NoTokens, s)][m]
  BY LoopTypes, FoldAppend
<1>5. Tokens[m] \in Nat
  BY SizeAssumption
<1>6. QED
  BY <1>2, <1>3, <1>4, <1>5 DEF Adding, Sums

LEMMA TokensNone ==
  ASSUME NEW s \in Seq(Messages), s = <<>>
  PROVE  TokensOf(s) = 0
<1>1. TokensOf(s) = Fold(Adding, NoTokens, <<>>)
  BY TokensIsFold
<1>2. Fold(Adding, NoTokens, <<>>) = NoTokens
  BY LoopTypes, FoldEmpty
<1>3. QED
  BY <1>1, <1>2 DEF NoTokens

LEMMA TokensConcat ==
  ASSUME NEW s \in Seq(Messages), NEW t \in Seq(Messages)
  PROVE  /\ TokensOf(s) \in Nat /\ TokensOf(t) \in Nat
         /\ TokensOf(s \o t) = TokensOf(s) + TokensOf(t)
<1> DEFINE P == {u \in Seq(Messages) : TokensOf(s \o u) = TokensOf(s) + TokensOf(u)}
<1>1. ASSUME NEW u \in Seq(Messages) PROVE TokensOf(u) \in Nat
  <2>1. Fold(Adding, NoTokens, u) \in Sums
    BY LoopTypes, FoldType
  <2>2. QED
    BY <2>1, TokensIsFold DEF Sums
<1>2. <<>> \in P
  <2>1. <<>> \in Seq(Messages) /\ s \o <<>> = s
    BY EmptySeq, ConcatEmptySeq
  <2>2. TokensOf(<<>>) = 0
    BY <2>1, TokensNone
  <2>3. QED
    BY <1>1, <2>1, <2>2
<1>3. ASSUME NEW u \in P, NEW m \in Messages PROVE Append(u, m) \in P
  <2>1. Append(u, m) \in Seq(Messages) /\ s \o u \in Seq(Messages)
    BY AppendProperties, ConcatProperties
  <2>0. s \o Append(u, m) = Append(s \o u, m)
    BY AppendBehind
  <2>2. TokensOf(Append(s \o u, m)) = TokensOf(s \o u) + Tokens[m] /\ TokensOf(s \o u) \in Nat
    BY <2>1, TokensAppend
  <2>3. TokensOf(Append(u, m)) = TokensOf(u) + Tokens[m] /\ Tokens[m] \in Nat
    BY TokensAppend
  <2>4. TokensOf(s \o u) = TokensOf(s) + TokensOf(u) /\ TokensOf(s) \in Nat /\ TokensOf(u) \in Nat
    BY <1>1
  <2>5. TokensOf(s \o Append(u, m)) = TokensOf(s) + TokensOf(Append(u, m))
    BY <2>0, <2>2, <2>3, <2>4
  <2>6. QED
    BY <2>1, <2>5
<1> HIDE DEF P
<1>4. P \in SUBSET Seq(Messages)
  BY DEF P
<1>5. P = Seq(Messages)
  BY <1>2, <1>3, <1>4, SeqInduction
<1>6. QED
  BY <1>1, <1>5 DEF P

\* A line of a file begins with the first byte of a message.
Begins(data) ==
    \A i \in 1 .. Len(data) :
        data[i] \in Text /\ (i = 1 \/ data[i - 1] = NL) => data[i][2] = 1

\* So a line that is put behind another one by mistake makes no message of it.
LEMMA GluedLine ==
  ASSUME NEW l \in Seq(Text), l # <<>>, NEW t \in Seq(Text), t # <<>>, t[1][2] = 1
  PROVE  ~Parses(l \o t)
<1> SUFFICES ASSUME NEW m \in Messages, l \o t = Bytes(m) PROVE FALSE
  BY DEF Parses
<1> DEFINE k == Len(l) + 1
<1>1. Len(l) \in Nat \ {0} /\ Len(t) \in Nat \ {0}
  BY EmptySeq, LenProperties
<1>2. k \in 1 .. Len(l \o t) /\ (l \o t)[k] = t[1] /\ DOMAIN (l \o t) = 1 .. Len(l \o t)
  BY <1>1
<1>3. DOMAIN Bytes(m) = 1 .. Size[m] /\ \A i \in 1 .. Size[m] : Bytes(m)[i] = <<m, i>>
  BY DEF Bytes
<1>4. Bytes(m)[k] = <<m, k>>
  BY <1>2, <1>3
<1>5. t[1] = <<m, k>>
  BY <1>2, <1>4
<1>6. <<m, k>>[2] = k
  OBVIOUS
<1>7. QED
  BY <1>1, <1>5, <1>6

\* w with some messages taken out at one place.
Drops(v, w) == v = w \/ \E x, y, z \in Seq(Messages) : w = (x \o y) \o z /\ v = x \o z

\* The line that is carried over, and those that are left.
Carry(split) == IF split # <<>> THEN Head(split) ELSE <<>>
Left(split) == IF split # <<>> THEN Tail(split) ELSE <<>>

\* The bytes a and the chunk b behind them: the first line of b is carried over to a.
LEMMA CarryOver ==
  ASSUME NEW a \in Seq(Byte), NEW b \in Seq(Byte), NEW n, NEW t, NEW y, FirstLine(b, n, t, y)
  PROVE  /\ Carry(SplitLines(b)) = t
         /\ t # <<>> => Left(SplitLines(b)) = SplitLines(y)
         /\ t = <<>> => Left(SplitLines(b)) = <<>>
<1>1. /\ SplitLines(y) \in Seq(Seq(Text)) /\ t \in Seq(Text)
      /\ t = <<>> => SplitLines(b) = <<>>
      /\ t # <<>> => SplitLines(b) = OneLine(t) \o SplitLines(y)
  <2>1. t \in Seq(Text)
    BY DEF FirstLine
  <2>2. QED
    BY <2>1, LinesOfTwo
<1>2. CASE t = <<>>
  BY <1>1, <1>2 DEF Carry, Left
<1>3. CASE t # <<>>
  <2>1. /\ OneLine(t) \o SplitLines(y) # <<>>
        /\ Head(OneLine(t) \o SplitLines(y)) = t /\ Tail(OneLine(t) \o SplitLines(y)) = SplitLines(y)
    BY <1>1, <1>3 DEF OneLine
  <2>2. QED
    BY <1>1, <1>3, <2>1 DEF Carry, Left
<1>4. QED
  BY <1>2, <1>3

LEMMA CarryBegins ==
  ASSUME NEW a \in Seq(Byte), NEW b \in Seq(Byte), NEW n, NEW t, NEW y, FirstLine(b, n, t, y),
         Begins(a \o b)
  PROVE  /\ n # <<>> /\ t # <<>> => t[1][2] = 1
         /\ Begins(a \o t)
<1>1. /\ n \in Seq({NL}) /\ t \in Seq(Text) /\ y \in Seq(Byte) /\ b = (n \o t) \o y
  BY DEF FirstLine
<1>2. n \in Seq(Byte) /\ t \in Seq(Byte)
  BY <1>1, NewlinesOnly, TextJoins, LoopTypes
<1>3. /\ Len(a) \in Nat /\ Len(n) \in Nat /\ Len(t) \in Nat /\ Len(y) \in Nat
      /\ n \o t \in Seq(Byte) /\ Len(n \o t) = Len(n) + Len(t)
      /\ Len(b) = Len(n) + Len(t) + Len(y)
  BY <1>1, <1>2
<1> DEFINE d == a \o b
<1>4. d \in Seq(Byte) /\ Len(d) = Len(a) + Len(n) + Len(t) + Len(y)
  BY <1>3
<1>5. \A i \in 1 .. Len(a) : d[i] = a[i]
  BY <1>3
<1>6. \A i \in 1 .. Len(b) : d[Len(a) + i] = b[i]
  BY <1>3
<1>7. \A i \in 1 .. Len(n) : b[i] = n[i] /\ n[i] = NL
  BY <1>1, <1>2, <1>3
<1>8. \A i \in 1 .. Len(t) : b[Len(n) + i] = t[i] /\ t[i] \in Text /\ t[i] # NL
  <2>1. ASSUME NEW i \in 1 .. Len(t) PROVE (n \o t)[Len(n) + i] = t[i] /\ t[i] \in Text
    BY <1>1, <1>2, <1>3
  <2>2. \A i \in 1 .. Len(n) + Len(t) : b[i] = (n \o t)[i]
    BY <1>1, <1>3
  <2>3. \A x \in Text : x # NL
    BY NLAssumption DEF Text
  <2>4. ASSUME NEW i \in 1 .. Len(t) PROVE b[Len(n) + i] = (n \o t)[Len(n) + i]
    <3>1. Len(n) + i \in 1 .. Len(n) + Len(t)
      BY <1>3
    <3>2. QED
      BY <2>2, <3>1
  <2>5. QED
    BY <2>1, <2>3, <2>4
<1>9. Begins(d)
  OBVIOUS
<1> HIDE DEF d
<1>10. n # <<>> /\ t # <<>> => t[1][2] = 1
  <2> SUFFICES ASSUME n # <<>>, t # <<>> PROVE t[1][2] = 1
    OBVIOUS
  <2> DEFINE p == Len(a) + (Len(n) + 1)
  <2>1. Len(n) \in Nat \ {0} /\ Len(t) \in Nat \ {0}
    BY <1>1, <1>2, EmptySeq, LenProperties
  <2>2. d[p] = t[1] /\ t[1] \in Text
    <3>1. Len(n) + 1 \in 1 .. Len(b) /\ 1 \in 1 .. Len(t)
      BY <1>3, <2>1
    <3>2. QED
      BY <1>6, <1>8, <3>1
  <2>3. d[Len(a) + Len(n)] = NL
    <3>1. Len(n) \in 1 .. Len(b) /\ Len(n) \in 1 .. Len(n)
      BY <1>3, <2>1
    <3>2. QED
      BY <1>6, <1>7, <3>1
  <2>4. p \in 1 .. Len(d) /\ p - 1 = Len(a) + Len(n)
    BY <1>3, <1>4, <2>1
  <2> HIDE DEF p
  <2>5. QED
    BY <1>9, <2>2, <2>3, <2>4 DEF Begins
<1> DEFINE e == a \o t
<1>11. Len(e) = Len(a) + Len(t) /\ \A i \in 1 .. Len(a) : e[i] = a[i]
  BY <1>2, <1>3
<1>12. \A i \in 1 .. Len(t) : e[Len(a) + i] = t[i]
  BY <1>2, <1>3
<1> HIDE DEF e
<1>13. ASSUME NEW i \in 1 .. Len(e), e[i] \in Text, i = 1 \/ e[i - 1] = NL PROVE e[i][2] = 1
  <2>1. CASE i <= Len(a)
    <3>0. i \in 1 .. Len(d) /\ i \in 1 .. Len(a) /\ (i # 1 => i - 1 \in 1 .. Len(a))
      BY <1>3, <1>4, <1>11, <2>1
    <3>1. i \in 1 .. Len(d) /\ d[i] = e[i] /\ (i # 1 => d[i - 1] = e[i - 1])
      BY <1>5, <1>11, <3>0
    <3>2. QED
      BY <1>9, <1>13, <3>1 DEF Begins
  <2>2. CASE i = Len(a) + 1
    <3>1. t # <<>> /\ e[i] = t[1] /\ 1 \in 1 .. Len(t)
      BY <1>3, <1>11, <1>12, <2>2, EmptySeq
    <3>2. CASE n # <<>>
      BY <1>10, <3>1, <3>2
    <3>3. CASE n = <<>>
      <4>1. Len(n) = 0
        BY <3>3
      <4>2. d[i] = t[1] /\ i \in 1 .. Len(d)
        <5>1. 1 \in 1 .. Len(b) /\ i \in 1 .. Len(d) /\ Len(n) + 1 = 1
          BY <1>3, <1>4, <2>2, <3>1, <4>1
        <5>2. b[1] = t[1]
          BY <1>8, <3>1, <5>1
        <5>3. d[Len(a) + 1] = b[1]
          BY <1>6, <5>1
        <5>4. d[i] = d[Len(a) + 1]
          BY <2>2
        <5>5. QED
          BY <5>1, <5>2, <5>3, <5>4
      <4>3. i # 1 => d[i - 1] = e[i - 1]
        <5>1. i # 1 => i - 1 \in 1 .. Len(a)
          BY <1>3, <2>2
        <5>2. QED
          BY <1>5, <1>11, <5>1
      <4>4. QED
        BY <1>9, <1>13, <3>1, <4>2, <4>3 DEF Begins
    <3>4. QED
      BY <3>2, <3>3
  <2>3. CASE i > Len(a) + 1
    <3> DEFINE j == i - 1 - Len(a)
    <3>1. j \in 1 .. Len(t) /\ Len(a) + j = i - 1 /\ i # 1
      BY <1>3, <1>11, <2>3
    <3>2. e[i - 1] = t[j]
      BY <1>12, <3>1
    <3>3. QED
      BY <1>8, <1>13, <3>1, <3>2
  <2>4. QED
    BY <1>3, <2>1, <2>2, <2>3
<1>14. Begins(e)
  BY <1>13 DEF Begins
<1>15. QED
  BY <1>10, <1>14 DEF e

LEMMA DropsNothing ==
  ASSUME NEW v, NEW w, v = w
  PROVE  Drops(v, w)
BY DEF Drops

LEMMA DropsSome ==
  ASSUME NEW x \in Seq(Messages), NEW y \in Seq(Messages), NEW z \in Seq(Messages),
         NEW w, w = (x \o y) \o z, NEW v, v = x \o z
  PROVE  Drops(v, w)
BY DEF Drops

LEMMA ConcatThree ==
  ASSUME NEW S, NEW x \in Seq(S), NEW y \in Seq(S), NEW z \in Seq(S)
  PROVE  (x \o y) \o z = x \o (y \o z)
BY ConcatAssociative

LEMMA DropsTwo ==
  ASSUME NEW x \in Seq(Messages), NEW u \in Seq(Messages), NEW v \in Seq(Messages),
         NEW z \in Seq(Messages)
  PROVE  Drops(x \o z, (x \o u) \o (v \o z))
<1> DEFINE xu == x \o u
           uv == u \o v
<1>1. xu \in Seq(Messages) /\ uv \in Seq(Messages) /\ (x \o u) \o v = x \o (u \o v)
  BY ConcatProperties, ConcatThree
<1>2. xu \o (v \o z) = (xu \o v) \o z
  <2> HIDE DEF xu
  <2>1. ASSUME NEW p \in Seq(Messages) PROVE p \o (v \o z) = (p \o v) \o z
    <3>1. (p \o v) \o z = p \o (v \o z)
      BY ConcatThree
    <3>2. QED
      BY <3>1
  <2>2. QED
    BY <1>1, <2>1
<1>3. Drops(x \o z, (x \o uv) \o z)
  <2> DEFINE w == (x \o uv) \o z
             d == x \o z
  <2>1. w = (x \o uv) \o z /\ d = x \o z
    OBVIOUS
  <2> HIDE DEF w, d, uv
  <2>2. Drops(d, w)
    BY <1>1, <2>1, DropsSome
  <2>3. QED
    BY <2>1, <2>2, Zenon
<1>4. xu \o (v \o z) = (x \o uv) \o z
  BY <1>1, <1>2
<1> HIDE DEF uv
<1>5. QED
  BY <1>3, <1>4

LEMMA OneMessage ==
  ASSUME NEW t \in Seq(Text)
  PROVE  OneLine(t) \in Seq(Seq(Text)) /\ MessagesOf(OneLine(t)) \in Seq(Messages)
<1>1. OneLine(t) \in Seq(Seq(Text))
  BY DEF OneLine
<1>2. QED
  BY <1>1, MessagesConcat

\* Carrying over: nothing is lost but where the chunk begins with a newline.
LEMMA ChunkStep ==
  ASSUME NEW a \in Seq(Byte), NEW b \in Seq(Byte), b # <<>>, Begins(a \o b)
  PROVE  LET split == SplitLines(b)
             read == MessagesOf(SplitLines(a \o b))
             left == MessagesOf(SplitLines(a \o Carry(split)) \o Left(split))
         IN /\ Carry(split) \in Seq(Text) /\ Left(split) \in Seq(Seq(Text))
            /\ Begins(a \o Carry(split))
            /\ Drops(left, read)
            /\ b[1] # NL => left = read
<1>1. PICK n, t, y : FirstLine(b, n, t, y)
  BY FirstLineExists
<1> DEFINE Y == SplitLines(y)
           read == MessagesOf(SplitLines(a \o b))
           left == MessagesOf(SplitLines(a \o t) \o Left(SplitLines(b)))
<1>2. /\ n \in Seq({NL}) /\ t \in Seq(Text) /\ y \in Seq(Byte) /\ b = (n \o t) \o y
      /\ y = <<>> \/ (y[1] = NL /\ t # <<>>)
  BY <1>1 DEF FirstLine
<1>3. /\ Carry(SplitLines(b)) = t
      /\ t # <<>> => Left(SplitLines(b)) = Y
      /\ t = <<>> => Left(SplitLines(b)) = <<>>
  BY <1>1, CarryOver
<1>4. /\ Y \in Seq(Seq(Text))
      /\ t = <<>> => SplitLines(b) = <<>>
      /\ t # <<>> => SplitLines(b) = OneLine(t) \o Y
      /\ n = <<>> => SplitLines(a \o b) = SplitLines(a \o t) \o Y
      /\ n # <<>> => b[1] = NL /\ SplitLines(a \o b) = SplitLines(a) \o SplitLines(b)
  BY <1>1, LinesOfTwo
<1>5. (n # <<>> /\ t # <<>> => t[1][2] = 1) /\ Begins(a \o t)
  BY <1>1, CarryBegins
<1>6. t \in Seq(Byte) /\ n \in Seq(Byte)
  BY <1>2, TextJoins, NewlinesOnly, LoopTypes
<1>7. a \o t \in Seq(Byte) /\ SplitLines(a \o t) \in Seq(Seq(Text)) /\ SplitLines(a) \in Seq(Seq(Text))
  BY <1>6, ConcatProperties, SplitLinesTypes
<1>8. MessagesOf(SplitLines(a)) \in Seq(Messages) /\ MessagesOf(Y) \in Seq(Messages)
  BY <1>4, <1>7, MessagesConcat
<1>13. Left(SplitLines(b)) \in Seq(Seq(Text))
  BY <1>3, <1>4, EmptySeq
<1> SUFFICES Drops(left, read) /\ (b[1] # NL => left = read)
  BY <1>2, <1>3, <1>5, <1>13
<1>9. CASE t = <<>>
  <2>1. n # <<>>
    <3> SUFFICES ASSUME n = <<>> PROVE FALSE
      OBVIOUS
    <3>1. y = <<>>
      BY <1>2, <1>9
    <3>2. n \o t = <<>>
      BY <1>6, <1>9, ConcatEmptySeq
    <3>3. b = <<>>
      BY <1>2, <1>6, <3>1, <3>2, ConcatEmptySeq
    <3>4. QED
      BY <3>3
  <2>2. SplitLines(a \o b) = SplitLines(a)
    BY <1>4, <1>7, <1>9, <2>1, ConcatEmptySeq
  <2>3. a \o t = a
    BY <1>9, ConcatEmptySeq
  <2>4. SplitLines(a) \o <<>> = SplitLines(a)
    BY <1>7, ConcatEmptySeq
  <2>5. left = read
    BY <1>3, <1>9, <2>2, <2>3, <2>4
  <2>6. QED
    BY <2>5, DropsNothing
<1>10. CASE t # <<>> /\ n = <<>>
  <2>1. left = read
    BY <1>3, <1>4, <1>10
  <2>2. QED
    BY <2>1, DropsNothing
<1>11. CASE t # <<>> /\ n # <<>>
  <2> DEFINE S == SplitOf(a).split
             l == SplitOf(a).line
  <2>1. /\ S \in Seq(Seq(Text)) /\ l \in Seq(Text)
        /\ SplitLines(a) = AddLine(S, l) /\ SplitLines(a \o t) = Append(S, l \o t)
    BY <1>2, <1>11, LinesOf
  <2>2. OneLine(t) \in Seq(Seq(Text)) /\ MessagesOf(OneLine(t)) \in Seq(Messages)
    BY <1>2, OneMessage
  <2>3. read = MessagesOf(SplitLines(a)) \o (MessagesOf(OneLine(t)) \o MessagesOf(Y))
    <3>1. SplitLines(b) \in Seq(Seq(Text)) /\ read = MessagesOf(SplitLines(a)) \o MessagesOf(SplitLines(b))
      BY <1>4, <1>7, <1>11, SplitLinesTypes, MessagesConcat
    <3>2. MessagesOf(SplitLines(b)) = MessagesOf(OneLine(t)) \o MessagesOf(Y)
      BY <1>4, <1>11, <2>2, MessagesConcat
    <3>3. QED
      BY <3>1, <3>2
  <2>4. left = MessagesOf(SplitLines(a \o t)) \o MessagesOf(Y)
    <3>1. left = MessagesOf(SplitLines(a \o t) \o Y)
      BY <1>3, <1>11
    <3> HIDE DEF Y, left
    <3>2. QED
      BY <1>4, <1>7, <3>1, MessagesConcat
  <2>5. b[1] = NL
    BY <1>4, <1>11
  <2> HIDE DEF S, l, Y, read, left
  <2>6. CASE l = <<>>
    <3>1. SplitLines(a) = S /\ l \o t = t
      BY <1>2, <2>1, <2>6, ConcatEmptySeq DEF AddLine
    <3>2. MessagesOf(SplitLines(a \o t)) = ReadLine(MessagesOf(S), t)
      BY <1>2, <2>1, <3>1, MessagesAppend
    <3>3. MessagesOf(S) \o MessagesOf(OneLine(t)) = MessagesOf(Append(S, t))
      <4>1. S \o OneLine(t) = Append(S, t)
        BY <2>1, <1>2 DEF OneLine
      <4>2. QED
        BY <2>1, <2>2, <4>1, MessagesConcat
    <3>4. left = (MessagesOf(S) \o MessagesOf(OneLine(t))) \o MessagesOf(Y)
      BY <2>1, <2>4, <3>1, <3>3
    <3>5. read = (MessagesOf(S) \o MessagesOf(OneLine(t))) \o MessagesOf(Y)
      <4>1. MessagesOf(S) \in Seq(Messages)
        BY <1>8, <3>1
      <4>2. (MessagesOf(S) \o MessagesOf(OneLine(t))) \o MessagesOf(Y)
              = MessagesOf(S) \o (MessagesOf(OneLine(t)) \o MessagesOf(Y))
        BY <1>8, <2>2, <4>1, ConcatMessages
      <4>3. QED
        BY <2>3, <3>1, <4>2
    <3>6. QED
      BY <2>5, <3>4, <3>5, DropsNothing
  <2>7. CASE l # <<>>
    <3>1. ~Parses(l \o t)
      BY <1>2, <1>5, <1>11, <2>1, <2>7, GluedLine
    <3>2. MessagesOf(S) \in Seq(Messages) /\ l \o t \in Seq(Text)
      BY <1>2, <2>1, MessagesAppend, ConcatProperties
    <3>3. MessagesOf(SplitLines(a \o t)) = MessagesOf(S)
      BY <2>1, <3>1, <3>2, MessagesAppend DEF ReadLine
    <3>4. SplitLines(a) = S \o OneLine(l)
      BY <2>1, <2>7 DEF AddLine, OneLine
    <3>5. OneLine(l) \in Seq(Seq(Text)) /\ MessagesOf(OneLine(l)) \in Seq(Messages)
      BY <2>1, OneMessage
    <3>6. MessagesOf(SplitLines(a)) = MessagesOf(S) \o MessagesOf(OneLine(l))
      BY <2>1, <3>4, <3>5, MessagesConcat
    <3> DEFINE x == MessagesOf(S)
               u == MessagesOf(OneLine(l))
               v == MessagesOf(OneLine(t))
               z == MessagesOf(Y)
    <3>7. x \in Seq(Messages) /\ u \in Seq(Messages) /\ v \in Seq(Messages) /\ z \in Seq(Messages)
      BY <1>8, <2>2, <3>2, <3>5
    <3>8. read = (x \o u) \o (v \o z) /\ left = x \o z
      BY <2>3, <2>4, <3>3, <3>6
    <3> HIDE DEF x, u, v, z
    <3>10. Drops(left, read)
      <4>1. Drops(x \o z, (x \o u) \o (v \o z))
        BY <3>7, DropsTwo
      <4>2. QED
        BY <3>8, <4>1
    <3>11. QED
      BY <2>5, <3>10
  <2>8. Drops(left, read) /\ b[1] = NL
    BY <2>5, <2>6, <2>7
  <2>9. QED
    BY <2>8
<1>12. QED
  BY <1>9, <1>10, <1>11

-----------------------------------------------------------------------------
(* Selections of the messages of a file. *)

LEMMA WithinSelf ==
  ASSUME NEW s \in Seq(Messages), NEW t, s = t
  PROVE  Within(s, t)
<1> DEFINE place == [i \in DOMAIN s |-> i]
<1>1. place \in [DOMAIN s -> DOMAIN t]
  OBVIOUS
<1>2. \A i, j \in DOMAIN s : s[i] = t[place[i]] /\ (i < j => place[i] < place[j])
  OBVIOUS
<1> HIDE DEF place
<1>3. QED
  BY <1>1, <1>2 DEF Within

LEMMA WithinWithin ==
  ASSUME NEW s \in Seq(Messages), NEW t \in Seq(Messages), NEW u \in Seq(Messages),
         Within(s, t), Within(t, u)
  PROVE  Within(s, u)
<1>1. PICK f \in [DOMAIN s -> DOMAIN t] :
        \A i, j \in DOMAIN s : s[i] = t[f[i]] /\ (i < j => f[i] < f[j])
  BY DEF Within
<1>2. PICK g \in [DOMAIN t -> DOMAIN u] :
        \A i, j \in DOMAIN t : t[i] = u[g[i]] /\ (i < j => g[i] < g[j])
  BY DEF Within
<1> DEFINE place == [i \in DOMAIN s |-> g[f[i]]]
<1>3. place \in [DOMAIN s -> DOMAIN u]
  OBVIOUS
<1>4. ASSUME NEW i \in DOMAIN s, NEW j \in DOMAIN s
      PROVE  s[i] = u[place[i]] /\ (i < j => place[i] < place[j])
  <2>1. f[i] \in DOMAIN t /\ f[j] \in DOMAIN t /\ place[i] = g[f[i]] /\ place[j] = g[f[j]]
    OBVIOUS
  <2>2. s[i] = t[f[i]] /\ (i < j => f[i] < f[j])
    BY <1>1
  <2>3. t[f[i]] = u[g[f[i]]] /\ (f[i] < f[j] => g[f[i]] < g[f[j]])
    BY <1>2, <2>1
  <2>4. QED
    BY <2>1, <2>2, <2>3
<1> HIDE DEF place
<1>5. QED
  BY <1>3, <1>4 DEF Within

\* Messages are left out in the middle.
LEMMA WithinMiddle ==
  ASSUME NEW x \in Seq(Messages), NEW y \in Seq(Messages), NEW z \in Seq(Messages)
  PROVE  Within(x \o z, (x \o y) \o z)
<1> DEFINE s == x \o z
           t == (x \o y) \o z
           place == [i \in DOMAIN s |-> IF i <= Len(x) THEN i ELSE i + Len(y)]
<1>1. /\ Len(x) \in Nat /\ Len(y) \in Nat /\ Len(z) \in Nat
      /\ DOMAIN s = 1 .. Len(x) + Len(z)
      /\ DOMAIN t = 1 .. Len(x) + Len(y) + Len(z)
      /\ \A i \in 1 .. Len(x) : s[i] = x[i] /\ t[i] = x[i]
      /\ \A i \in Len(x) + 1 .. Len(x) + Len(z) : s[i] = z[i - Len(x)] /\ t[i + Len(y)] = z[i - Len(x)]
  OBVIOUS
<1> HIDE DEF s, t
<1>2. place \in [DOMAIN s -> DOMAIN t]
  BY <1>1
<1>3. ASSUME NEW i \in DOMAIN s, NEW j \in DOMAIN s
      PROVE  s[i] = t[place[i]] /\ (i < j => place[i] < place[j])
  <2>1. /\ place[i] = IF i <= Len(x) THEN i ELSE i + Len(y)
        /\ place[j] = IF j <= Len(x) THEN j ELSE j + Len(y)
    OBVIOUS
  <2> HIDE DEF place
  <2>2. i < j => place[i] < place[j]
    BY <1>1, <2>1
  <2>3. CASE i <= Len(x)
    <3>1. i \in 1 .. Len(x) /\ place[i] = i
      BY <1>1, <2>1, <2>3
    <3>2. QED
      BY <1>1, <2>2, <3>1
  <2>4. CASE ~(i <= Len(x))
    <3>1. i \in Len(x) + 1 .. Len(x) + Len(z) /\ place[i] = i + Len(y)
      BY <1>1, <2>1, <2>4
    <3>2. QED
      BY <1>1, <2>2, <3>1
  <2>5. QED
    BY <2>3, <2>4
<1> HIDE DEF place
<1>4. Within(s, t)
  BY <1>2, <1>3 DEF Within
<1>5. QED
  BY <1>4 DEF s, t

LEMMA WithinEnd ==
  ASSUME NEW y \in Seq(Messages), NEW z \in Seq(Messages)
  PROVE  Within(z, y \o z)
<1> DEFINE t == y \o z
           place == [i \in DOMAIN z |-> i + Len(y)]
<1>1. /\ Len(y) \in Nat /\ Len(z) \in Nat
      /\ DOMAIN z = 1 .. Len(z) /\ DOMAIN t = 1 .. Len(y) + Len(z)
      /\ \A i \in 1 .. Len(z) : t[i + Len(y)] = z[i]
  OBVIOUS
<1> HIDE DEF t
<1>2. place \in [DOMAIN z -> DOMAIN t]
  BY <1>1
<1>3. ASSUME NEW i \in DOMAIN z, NEW j \in DOMAIN z
      PROVE  z[i] = t[place[i]] /\ (i < j => place[i] < place[j])
  BY <1>1
<1> HIDE DEF place
<1>4. Within(z, t)
  BY <1>2, <1>3 DEF Within
<1>5. QED
  BY <1>4 DEF t

LEMMA WithinBefore ==
  ASSUME NEW x \in Seq(Messages), NEW y \in Seq(Messages), NEW q \in Seq(Messages),
         NEW z \in Seq(Messages)
  PROVE  Within((x \o q) \o z, ((x \o y) \o q) \o z)
<1> DEFINE xy == x \o y
           qz == q \o z
<1>1. xy \in Seq(Messages) /\ qz \in Seq(Messages)
  BY ConcatProperties
<1>2. Within(x \o qz, xy \o qz)
  BY <1>1, WithinMiddle
<1>3. ASSUME NEW p \in Seq(Messages) PROVE (p \o q) \o z = p \o qz
  BY ConcatMessages
<1> HIDE DEF qz
<1>4. (x \o q) \o z = x \o qz
  BY <1>3
<1> HIDE DEF xy
<1>5. (xy \o q) \o z = xy \o qz
  BY <1>1, <1>3
<1>6. Within((x \o q) \o z, (xy \o q) \o z)
  BY <1>2, <1>4, <1>5
<1>7. QED
  BY <1>6 DEF xy

LEMMA DropsWithin ==
  ASSUME NEW v \in Seq(Messages), NEW w \in Seq(Messages), NEW z \in Seq(Messages), Drops(v, w)
  PROVE  Within(v \o z, w \o z)
<1>1. CASE v = w
  <2>1. v \o z \in Seq(Messages) /\ v \o z = w \o z
    BY <1>1, ConcatProperties
  <2>2. QED
    BY <2>1, WithinSelf
<1>2. CASE \E x, y, q \in Seq(Messages) : w = (x \o y) \o q /\ v = x \o q
  <2>1. PICK x, y, q \in Seq(Messages) : w = (x \o y) \o q /\ v = x \o q
    BY <1>2
  <2>2. Within((x \o q) \o z, ((x \o y) \o q) \o z)
    BY WithinBefore
  <2>3. QED
    BY <2>1, <2>2
<1>3. QED
  BY <1>1, <1>2 DEF Drops

\* The messages collected, newest first, turned round.
LEMMA ReverseTypes ==
  ASSUME NEW s \in Seq(Messages)
  PROVE  Reverse(s) \in Seq(Messages) /\ Len(Reverse(s)) = Len(s) /\ (s = <<>> <=> Reverse(s) = <<>>)
<1>1. Len(s) \in Nat /\ \A i \in 1 .. Len(s) : Len(s) - i + 1 \in 1 .. Len(s) /\ s[Len(s) - i + 1] \in Messages
  BY LenProperties
<1>2. Reverse(s) \in Seq(Messages) /\ Len(Reverse(s)) = Len(s)
  BY <1>1 DEF Reverse
<1>3. QED
  BY <1>2, EmptySeq, LenProperties

LEMMA ReverseAppend ==
  ASSUME NEW s \in Seq(Messages), NEW m \in Messages
  PROVE  Reverse(Append(s, m)) = Cons(m, Reverse(s))
<1> DEFINE t == Append(s, m)
           l == Reverse(t)
           r == Cons(m, Reverse(s))
<1>1. Reverse(s) \in Seq(Messages) /\ Len(Reverse(s)) = Len(s) /\ Len(s) \in Nat
  BY ReverseTypes, LenProperties
<1>2. t \in Seq(Messages) /\ Len(t) = Len(s) + 1 /\ t[Len(s) + 1] = m
      /\ \A i \in 1 .. Len(s) : t[i] = s[i]
  OBVIOUS
<1>3. r \in Seq(Messages) /\ Len(r) = Len(s) + 1 /\ r[1] = m
      /\ \A i \in 2 .. Len(s) + 1 : r[i] = Reverse(s)[i - 1]
  BY <1>1 DEF Cons
<1>4. \A i \in 1 .. Len(s) : Reverse(s)[i] = s[Len(s) - i + 1]
  BY <1>1 DEF Reverse
<1> HIDE DEF t, r
<1>5. l \in Seq(Messages) /\ Len(l) = Len(s) + 1
  BY <1>2, ReverseTypes
<1>6. \A i \in 1 .. Len(s) + 1 : l[i] = t[(Len(s) + 1) - i + 1]
  BY <1>1, <1>2 DEF Reverse
<1>7. ASSUME NEW i \in 1 .. Len(s) + 1 PROVE l[i] = r[i]
  <2>1. CASE i = 1
    BY <1>1, <1>2, <1>3, <1>6, <2>1
  <2>2. CASE i # 1
    <3>1. i - 1 \in 1 .. Len(s) /\ i \in 2 .. Len(s) + 1 /\ (Len(s) + 1) - i + 1 \in 1 .. Len(s)
          /\ Len(s) - (i - 1) + 1 = (Len(s) + 1) - i + 1
      BY <1>1, <2>2
    <3>2. r[i] = s[Len(s) - (i - 1) + 1]
      BY <1>3, <1>4, <3>1
    <3>3. l[i] = s[(Len(s) + 1) - i + 1]
      BY <1>2, <1>6, <3>1
    <3>4. QED
      BY <3>1, <3>2, <3>3
  <2>3. QED
    BY <2>1, <2>2
<1> HIDE DEF l
<1>8. l = r
  BY <1>1, <1>3, <1>5, <1>7, SeqEqual
<1>9. QED
  BY <1>8 DEF l, r, t

LEMMA ConsProperties ==
  ASSUME NEW m \in Messages, NEW s \in Seq(Messages), NEW p \in Seq(Messages)
  PROVE  /\ Cons(m, s) \in Seq(Messages) /\ Cons(m, s) # <<>>
         /\ Append(p, m) \o s = p \o Cons(m, s)
         /\ TokensOf(Cons(m, s)) = TokensOf(s) + Tokens[m]
<1> DEFINE one == <<m>>
<1>1. one \in Seq(Messages) /\ Cons(m, s) = one \o s
  BY DEF Cons
<1>2. Append(p, m) = p \o one
  OBVIOUS
<1>3. TokensOf(one) = Tokens[m] /\ Tokens[m] \in Nat
  <2>1. ASSUME NEW e \in Seq(Messages), e = <<>> PROVE TokensOf(Append(e, m)) = Tokens[m]
    <3>1. TokensOf(Append(e, m)) = TokensOf(e) + Tokens[m] /\ Tokens[m] \in Nat
      BY TokensAppend
    <3>2. TokensOf(e) = 0
      BY <2>1, TokensNone
    <3>3. QED
      BY <3>1, <3>2
  <2>2. <<>> \in Seq(Messages) /\ Append(<<>>, m) = one
    OBVIOUS
  <2>3. Tokens[m] \in Nat
    BY SizeAssumption
  <2>4. QED
    BY <2>1, <2>2, <2>3
<1>4. one # <<>> /\ Len(one) = 1
  OBVIOUS
<1> HIDE DEF one
<1>5. one \o s \in Seq(Messages) /\ Len(one \o s) = 1 + Len(s) /\ Len(s) \in Nat
  <2>1. ASSUME NEW e \in Seq(Messages)
        PROVE  e \o s \in Seq(Messages) /\ Len(e \o s) = Len(e) + Len(s)
    BY ConcatProperties
  <2>2. QED
    BY <1>1, <1>4, <2>1, LenProperties
<1>6. one \o s # <<>>
  BY <1>5, EmptySeq
<1>7. (p \o one) \o s = p \o (one \o s)
  BY <1>1, ConcatThree
<1>8. TokensOf(one \o s) = TokensOf(s) + Tokens[m]
  BY <1>1, <1>3, TokensConcat
<1>9. QED
  BY <1>1, <1>2, <1>5, <1>6, <1>7, <1>8

LEMMA EndOfBoth ==
  ASSUME NEW p \in Seq(Messages), NEW q \in Seq(Messages), NEW j \in 1 .. Len(p) + 1
  PROVE  SubSeq(p \o q, j, Len(p) + Len(q)) = SubSeq(p, j, Len(p)) \o q
<1> DEFINE s == p \o q
           u == SubSeq(p, j, Len(p))
           l == SubSeq(s, j, Len(p) + Len(q))
           r == u \o q
<1>1. /\ Len(p) \in Nat /\ Len(q) \in Nat /\ s \in Seq(Messages) /\ Len(s) = Len(p) + Len(q)
      /\ \A i \in 1 .. Len(p) + Len(q) : s[i] = IF i <= Len(p) THEN p[i] ELSE q[i - Len(p)]
  BY ConcatProperties, LenProperties
<1>2. /\ u \in Seq(Messages) /\ Len(u) = Len(p) - j + 1
      /\ \A i \in 1 .. Len(p) - j + 1 : u[i] = p[j + i - 1]
  BY <1>1
<1> HIDE DEF s, u
<1>3. /\ l \in Seq(Messages) /\ Len(l) = Len(p) + Len(q) - j + 1
      /\ \A i \in 1 .. Len(p) + Len(q) - j + 1 : l[i] = s[j + i - 1]
  <2> DEFINE n == Len(p) + Len(q)
  <2>1. n \in Nat /\ j \in Int /\ 1 <= j /\ j <= n + 1 /\ Len(s) = n
    BY <1>1
  <2>2. \A i \in j .. n : s[i] \in Messages
    <3>1. \A i \in j .. n : i \in 1 .. Len(s)
      BY <2>1
    <3>2. \A i \in 1 .. Len(s) : s[i] \in Messages
      BY <1>1
    <3>3. QED
      BY <3>1, <3>2
  <2> HIDE DEF n
  <2>3. /\ SubSeq(s, j, n) \in Seq(Messages)
        /\ Len(SubSeq(s, j, n)) = IF j <= n THEN n - j + 1 ELSE 0
        /\ \A i \in 1 .. n - j + 1 : SubSeq(s, j, n)[i] = s[j + i - 1]
    BY <2>1, <2>2, SubSeqProperties
  <2>4. (IF j <= n THEN n - j + 1 ELSE 0) = n - j + 1
    BY <2>1
  <2>5. QED
    BY <2>3, <2>4 DEF n
<1>4. /\ r \in Seq(Messages) /\ Len(r) = Len(p) - j + 1 + Len(q)
      /\ \A i \in 1 .. Len(p) - j + 1 + Len(q) :
            r[i] = IF i <= Len(p) - j + 1 THEN u[i] ELSE q[i - (Len(p) - j + 1)]
  <2>1. ASSUME NEW e \in Seq(Messages)
        PROVE  /\ e \o q \in Seq(Messages) /\ Len(e \o q) = Len(e) + Len(q)
               /\ \A i \in 1 .. Len(e) + Len(q) :
                     (e \o q)[i] = IF i <= Len(e) THEN e[i] ELSE q[i - Len(e)]
    BY ConcatProperties
  <2>2. /\ r \in Seq(Messages) /\ Len(r) = Len(u) + Len(q)
        /\ \A i \in 1 .. Len(u) + Len(q) : r[i] = IF i <= Len(u) THEN u[i] ELSE q[i - Len(u)]
    BY <1>2, <2>1
  <2> HIDE DEF r
  <2>3. Len(u) = Len(p) - j + 1
    BY <1>2
  <2>4. QED
    BY <2>2, <2>3
<1> HIDE DEF l, r
<1>5. ASSUME NEW i \in 1 .. Len(l) PROVE l[i] = r[i]
  <2>1. i \in 1 .. Len(p) + Len(q) - j + 1 /\ i \in 1 .. Len(p) - j + 1 + Len(q)
        /\ j + i - 1 \in 1 .. Len(p) + Len(q)
    BY <1>1, <1>3
  <2>2. l[i] = IF j + i - 1 <= Len(p) THEN p[j + i - 1] ELSE q[j + i - 1 - Len(p)]
    BY <1>1, <1>3, <2>1
  <2>3. CASE i <= Len(p) - j + 1
    <3>1. i \in 1 .. Len(p) - j + 1 /\ j + i - 1 <= Len(p)
      BY <1>1, <2>1, <2>3
    <3>2. r[i] = u[i] /\ u[i] = p[j + i - 1]
      BY <1>2, <1>4, <2>1, <3>1
    <3>3. QED
      BY <2>2, <3>1, <3>2
  <2>4. CASE ~(i <= Len(p) - j + 1)
    <3>1. ~(j + i - 1 <= Len(p)) /\ j + i - 1 - Len(p) = i - (Len(p) - j + 1)
      BY <1>1, <2>1, <2>4
    <3>2. r[i] = q[i - (Len(p) - j + 1)]
      BY <1>4, <2>1, <2>4
    <3>3. QED
      BY <2>2, <3>1, <3>2
  <2>5. QED
    BY <2>3, <2>4
<1>6. Len(l) = Len(r)
  BY <1>1, <1>3, <1>4
<1>7. l = r
  BY <1>3, <1>4, <1>5, <1>6, SeqEqual
<1>8. QED
  BY <1>7 DEF l, r, u, s

\* q is the newest messages of p \o q that fit the budget, when one more would not.
LEMMA TailIs ==
  ASSUME NEW p \in Seq(Messages), NEW q \in Seq(Messages), NEW b \in Nat,
         Len(q) <= 1 \/ TokensOf(q) <= b,
         p # <<>> => q # <<>> /\ TokensOf(q) + Tokens[p[Len(p)]] > b
  PROVE  TailWithin(p \o q, b) = q
<1> DEFINE s == p \o q
           newest(k) == SubSeq(s, Len(s) - k + 1, Len(s))
           fits == {k \in 0 .. Len(s) : k <= 1 \/ TokensOf(newest(k)) <= b}
           n == Len(q)
<1>1. s \in Seq(Messages) /\ Len(s) = Len(p) + n /\ Len(p) \in Nat /\ n \in Nat
  BY ConcatProperties, LenProperties
<1>2. ASSUME NEW k \in n .. Len(s)
      PROVE  newest(k) = SubSeq(p, Len(p) + n - k + 1, Len(p)) \o q
  <2> DEFINE j == Len(p) + n - k + 1
  <2>1. j \in 1 .. Len(p) + 1 /\ Len(s) - k + 1 = j
    BY <1>1
  <2> HIDE DEF j
  <2>2. SubSeq(p \o q, j, Len(p) + Len(q)) = SubSeq(p, j, Len(p)) \o q
    BY <2>1, EndOfBoth
  <2>3. newest(k) = SubSeq(p, j, Len(p)) \o q
    BY <1>1, <2>1, <2>2
  <2>4. QED
    BY <2>3 DEF j
<1>3. newest(n) = q
  <2>1. n \in n .. Len(s) /\ Len(p) + n - n + 1 = Len(p) + 1
    BY <1>1
  <2>2. newest(n) = SubSeq(p, Len(p) + 1, Len(p)) \o q
    BY <1>2, <2>1
  <2>3. ASSUME NEW e, e = SubSeq(p, Len(p) + 1, Len(p)) PROVE e = <<>>
    BY <1>1, <2>3
  <2>4. <<>> \o q = q
    BY ConcatEmptySeq
  <2>5. QED
    BY <2>2, <2>3, <2>4
<1> HIDE DEF newest
<1>4. n \in fits
  BY <1>1, <1>3
<1>5. ASSUME NEW k \in fits PROVE k <= n
  <2> SUFFICES ASSUME k > n PROVE FALSE
    BY <1>1
  <2> DEFINE j == Len(p) + n - k + 1
             front == SubSeq(p, j, Len(p) - 1)
             m == p[Len(p)]
  <2>1. k \in n .. Len(s) /\ j \in 1 .. Len(p) /\ Len(p) \in 1 .. Len(p) /\ Len(p) > 0
    BY <1>1
  <2>2. p # <<>>
    BY <2>1, EmptySeq
  <2>3. n > 0
    BY <1>1, <2>2, EmptySeq
  <2>4. front \in Seq(Messages) /\ m \in Messages
    BY <1>1, <2>1
  <2>5. SubSeq(p, j, Len(p)) = Append(front, m)
    <3>1. SubSeq(p, j, Len(p)) = front \o <<m>>
      <4> HIDE DEF j
      <4>1. j \in 1 .. Len(p) /\ Len(p) \in j .. Len(p)
        BY <2>1
      <4>2. QED
        BY <4>1, SubSeqRecursiveSecond
    <3>2. front \o <<m>> = Append(front, m)
      <4> HIDE DEF front, m
      <4>1. QED
        BY <2>4
    <3>3. QED
      BY <3>1, <3>2
  <2>6. newest(k) = Append(front, m) \o q
    BY <1>2, <2>1, <2>5
  <2> HIDE DEF front, j, m
  <2>7. Append(front, m) \in Seq(Messages) /\ TokensOf(Append(front, m)) = TokensOf(front) + Tokens[m]
        /\ TokensOf(front) \in Nat /\ Tokens[m] \in Nat
    BY <2>4, TokensAppend, AppendProperties
  <2>8. TokensOf(newest(k)) = TokensOf(Append(front, m)) + TokensOf(q) /\ TokensOf(q) \in Nat
    BY <2>6, <2>7, TokensConcat
  <2>9. TokensOf(newest(k)) > b
    BY <2>2, <2>7, <2>8 DEF m
  <2>10. k > 1 /\ TokensOf(newest(k)) <= b
    <3>1. k > 1
      BY <1>1, <2>1, <2>3
    <3>2. QED
      BY <1>1, <3>1
  <2>11. QED
    BY <2>7, <2>8, <2>9, <2>10
<1>6. (CHOOSE k \in fits : \A o \in fits : o <= k) = n
  <2> HIDE DEF fits
  <2>1. \A k \in fits : (\A o \in fits : o <= k) => k = n
    <3>1. fits \subseteq Int
      BY <1>1 DEF fits
    <3>2. QED
      BY <1>1, <1>4, <1>5, <3>1
  <2>2. \A o \in fits : o <= n
    BY <1>5
  <2>3. QED
    BY <1>4, <2>1, <2>2
<1>7. TailWithin(s, b) = newest(CHOOSE k \in fits : \A o \in fits : o <= k)
  BY DEF TailWithin, newest
<1>8. QED
  BY <1>3, <1>6, <1>7

-----------------------------------------------------------------------------
(* What LoadTail has still to read: the bytes before the last chunk, and behind *)
(* them the line carried over.                                                  *)

Ahead(s, r, c) == SubSeq(s, 1, r) \o c

LEMMA TextIsBytes ==
  ASSUME NEW c \in Seq(Text)
  PROVE  c \in Seq(Byte)
BY LoopTypes, TextJoins

LEMMA AheadTypes ==
  ASSUME NEW s \in Seq(Byte), NEW r \in 0 .. Len(s), NEW c \in Seq(Text)
  PROVE  Ahead(s, r, c) \in Seq(Byte) /\ SplitLines(Ahead(s, r, c)) \in Seq(Seq(Text))
<1>1. c \in Seq(Byte) /\ SubSeq(s, 1, r) \in Seq(Byte)
  <2>1. SubSeq(s, 1, r) \in Seq(Byte)
    <3> HIDE DEF Byte
    <3>1. QED
      OBVIOUS
  <2>2. QED
    BY <2>1, TextIsBytes
<1>2. Ahead(s, r, c) \in Seq(Byte)
  BY <1>1, ConcatProperties DEF Ahead
<1>3. QED
  BY <1>2, SplitLinesTypes

\* Nothing is carried over where nothing is left to read.
LEMMA AheadNone ==
  ASSUME NEW s \in Seq(Byte), NEW e \in Seq(Text), e = <<>>
  PROVE  Ahead(s, 0, e) = <<>> /\ SplitLines(Ahead(s, 0, e)) = <<>> /\ Begins(Ahead(s, 0, e))
<1>1. Ahead(s, 0, e) = <<>>
  BY ConcatEmptySeq DEF Ahead
<1>2. <<>> \in Seq(Byte)
  BY EmptySeq
<1> DEFINE d == Ahead(s, 0, e)
<1>3. d = <<>> /\ d \in Seq(Byte)
  BY <1>1, <1>2
<1> HIDE DEF d
<1>4. SplitLines(d) = <<>>
  BY <1>3, SplitEmpty
<1>5. Begins(d)
  BY <1>3 DEF Begins
<1>6. QED
  BY <1>3, <1>4, <1>5 DEF d

\* At the start of a load all of the file is ahead.
LEMMA AheadAll ==
  ASSUME NEW s \in Seq(Byte), NEW e \in Seq(Text), e = <<>>
  PROVE  Ahead(s, Len(s), e) = s
<1>1. SubSeq(s, 1, Len(s)) = s
  BY SubSeqFull
<1>2. s \o <<>> = s
  BY ConcatEmptySeq
<1>3. QED
  BY <1>1, <1>2 DEF Ahead

\* A chunk that does not begin the file.
LEMMA ReadStep ==
  ASSUME NEW s \in Seq(Byte), NEW r \in 1 .. Len(s), NEW k \in 1 .. r - 1, NEW c \in Seq(Text),
         NEW split, split = SplitLines(SubSeq(s, k + 1, r) \o c), Begins(Ahead(s, r, c))
  PROVE  LET read == MessagesOf(SplitLines(Ahead(s, r, c)))
             left == MessagesOf(SplitLines(Ahead(s, k, Carry(split))) \o Left(split))
         IN /\ Carry(split) \in Seq(Text) /\ Left(split) \in Seq(Seq(Text))
            /\ Begins(Ahead(s, k, Carry(split)))
            /\ Drops(left, read)
            /\ s[k + 1] # NL => left = read
<1> DEFINE a == SubSeq(s, 1, k)
           u == SubSeq(s, k + 1, r)
           b == u \o c
<1>1. a \in Seq(Byte) /\ u \in Seq(Byte) /\ Len(u) = r - k /\ u[1] = s[k + 1] /\ c \in Seq(Byte)
  <2>1. a \in Seq(Byte) /\ u \in Seq(Byte) /\ Len(u) = r - k /\ u[1] = s[k + 1]
    <3> HIDE DEF Byte
    <3>1. QED
      OBVIOUS
  <2>2. QED
    BY <2>1, TextIsBytes
<1>2. a \o u = SubSeq(s, 1, r)
  <2>1. 1 \in 1 .. Len(s) + 1 /\ k \in 1 - 1 .. Len(s) /\ r \in k .. Len(s)
    BY LenProperties
  <2>2. QED
    BY <2>1, ConcatAdjacentSubSeq
<1>3. a \o b = Ahead(s, r, c)
  <2> HIDE DEF a, u
  <2>1. (a \o u) \o c = a \o (u \o c)
    BY <1>1, ConcatBytes
  <2>2. QED
    BY <1>2, <2>1 DEF Ahead
<1>4. b \in Seq(Byte) /\ b # <<>> /\ b[1] = s[k + 1]
  <2>1. r - k \in Nat \ {0}
    OBVIOUS
  <2> HIDE DEF a, u
  <2>2. b \in Seq(Byte) /\ Len(b) = Len(u) + Len(c) /\ Len(c) \in Nat
    BY <1>1, ConcatProperties, LenProperties
  <2>3. b[1] = u[1]
    BY <1>1, <2>1
  <2>4. QED
    BY <1>1, <2>1, <2>2, <2>3, EmptySeq
<1>5. split = SplitLines(b)
  OBVIOUS
<1>6. \A e : Ahead(s, k, e) = a \o e
  BY DEF Ahead
<1> HIDE DEF a, b
<1>7. Begins(a \o b)
  BY <1>3
<1>8. /\ Carry(split) \in Seq(Text) /\ Left(split) \in Seq(Seq(Text))
      /\ Begins(a \o Carry(split))
      /\ Drops(MessagesOf(SplitLines(a \o Carry(split)) \o Left(split)), MessagesOf(SplitLines(a \o b)))
      /\ b[1] # NL => MessagesOf(SplitLines(a \o Carry(split)) \o Left(split)) = MessagesOf(SplitLines(a \o b))
  BY <1>1, <1>4, <1>5, <1>7, ChunkStep
<1>9. QED
  BY <1>3, <1>4, <1>6, <1>8

\* The chunk that begins the file.
LEMMA ReadFirst ==
  ASSUME NEW s \in Seq(Byte), NEW r \in 1 .. Len(s), NEW c \in Seq(Text),
         NEW split, split = SplitLines(SubSeq(s, 0 + 1, r) \o c)
  PROVE  split = SplitLines(Ahead(s, r, c)) /\ split \in Seq(Seq(Text))
<1>1. split = SplitLines(Ahead(s, r, c))
  BY DEF Ahead
<1>2. r \in 0 .. Len(s)
  BY LenProperties
<1>3. QED
  BY <1>1, <1>2, AheadTypes

-----------------------------------------------------------------------------
(* The invariant. *)

\* The types of the file and of a load; a line on disk begins with the first byte of a
\* message, torn or not.
FileTypes ==
    /\ disk \in Seq(Byte) /\ Begins(disk) /\ seen \in Seq(Byte) /\ Begins(seen)
    /\ appends \in Nat /\ budget \in Nat /\ used \in Nat /\ remaining \in 0 .. Len(seen)
    /\ stage \in {"idle", "chunk", "lines", "done"}
    /\ carryover \in Seq(Text) /\ lines \in Seq(Seq(Text)) /\ messages \in Seq(Messages)

\* What is in use at each stage.
Stages ==
    /\ stage # "lines" => lines = <<>>
    /\ stage \in {"idle", "done"} \/ remaining = 0 => carryover = <<>>
    /\ stage = "idle" => messages = <<>> /\ used = 0

\* The messages of the bytes ahead and of the lines left, and those collected.
Whole(s, r, c, ls, ms) == MessagesOf(SplitLines(Ahead(s, r, c)) \o ls) \o Reverse(ms)

Unaligned == \A o \in ChunkStarts : seen[o + 1] # NL

\* While a load runs, what is ahead and what is collected make up the file: all of it
\* where no chunk began with a newline, else a selection of it.
Loading ==
    stage \in {"chunk", "lines"} =>
        /\ Begins(Ahead(seen, remaining, carryover))
        /\ Within(Whole(seen, remaining, carryover, lines, messages), Readable(seen))
        /\ Unaligned => Whole(seen, remaining, carryover, lines, messages) = Readable(seen)

\* The bytes ahead end where a chunk began, and what is collected is within the budget.
Counted ==
    stage \in {"chunk", "lines"} =>
        /\ \/ remaining = 0
           \/ \E n \in 0 .. Len(seen) :
                n <= Len(seen) - remaining /\ remaining = Len(seen) - n * ChunkSize
        /\ used = TokensOf(Reverse(messages))
        /\ Len(messages) <= 1 \/ used <= budget

LoadDone ==
    stage = "done" =>
        /\ Within(Reverse(messages), Readable(seen))
        /\ Unaligned => LoadedTail

LoadInv == FileTypes /\ Stages /\ Loading /\ Counted /\ LoadDone

LEMMA FileInitHolds ==
  FileInit => LoadInv
<1> SUFFICES ASSUME FileInit PROVE LoadInv
  OBVIOUS
<1>1. stage = "idle" /\ disk = <<>> /\ seen = <<>> /\ carryover = <<>> /\ lines = <<>>
      /\ messages = <<>> /\ appends = 0 /\ budget = 0 /\ used = 0 /\ remaining = 0
  BY DEF FileInit
<1>2. \A S : <<>> \in Seq(S)
  BY EmptySeq
<1>3. Begins(<<>>) /\ Len(<<>>) = 0
  BY DEF Begins
<1>4. FileTypes
  BY <1>1, <1>2, <1>3 DEF FileTypes
<1>5. Stages /\ Loading /\ Counted /\ LoadDone
  BY <1>1 DEF Stages, Loading, Counted, LoadDone
<1>6. QED
  BY <1>4, <1>5 DEF LoadInv

-----------------------------------------------------------------------------
(* Appends. *)

\* A line, or the torn beginning of one, begins with the first byte of its message, even
\* behind a torn line.
LEMMA GrowsBegins ==
  ASSUME NEW d \in Seq(Byte), Begins(d), NEW m \in Messages, NEW n \in 0 .. Size[m]
  PROVE  LET e == d \o SubSeq(Bytes(m), 1, n)
         IN e \in Seq(Byte) /\ Begins(e) /\ Append(e, NL) \in Seq(Byte) /\ Begins(Append(e, NL))
<1> DEFINE t == SubSeq(Bytes(m), 1, n)
           e == d \o t
           f == Append(e, NL)
<1>1. Size[m] \in Nat \ {0} /\ NL \notin Text
  BY SizeAssumption, NLAssumption DEF Text
<1>2. Bytes(m) \in Seq(Text) /\ Len(Bytes(m)) = Size[m] /\ \A i \in 1 .. Size[m] : Bytes(m)[i] = <<m, i>>
  BY <1>1 DEF Bytes, Text
<1>3. t \in Seq(Text) /\ Len(t) = n /\ \A i \in 1 .. n : t[i] = <<m, i>>
  <2> HIDE DEF Text
  <2>1. QED
    BY <1>1, <1>2
<1> HIDE DEF t
<1>4. t \in Seq(Byte) /\ NL \in Byte
  BY <1>3, TextIsBytes DEF Byte
<1>5. e \in Seq(Byte) /\ Len(e) = Len(d) + n /\ Len(d) \in Nat
      /\ \A i \in 1 .. Len(d) + n : e[i] = IF i <= Len(d) THEN d[i] ELSE t[i - Len(d)]
  BY <1>3, <1>4, ConcatProperties, LenProperties
<1> HIDE DEF e
<1>6. f \in Seq(Byte) /\ Len(f) = Len(d) + n + 1 /\ f[Len(d) + n + 1] = NL
      /\ \A i \in 1 .. Len(d) + n : f[i] = e[i]
  BY <1>4, <1>5, AppendProperties
<1> HIDE DEF f
<1>7. ASSUME NEW i \in 1 .. Len(d) + n, e[i] \in Text, i = 1 \/ e[i - 1] = NL
      PROVE  e[i][2] = 1
  <2>1. CASE i <= Len(d)
    <3>1. e[i] = d[i] /\ i \in 1 .. Len(d)
      BY <1>5, <2>1
    <3>2. i # 1 => e[i - 1] = d[i - 1]
      BY <1>5, <2>1
    <3>3. QED
      BY <1>7, <3>1, <3>2 DEF Begins
  <2>2. CASE i > Len(d)
    <3> DEFINE j == i - Len(d)
    <3>1. j \in 1 .. n /\ e[i] = <<m, j>>
      BY <1>3, <1>5, <2>2
    <3>2. j = 1
      <4> SUFFICES ASSUME j # 1 PROVE FALSE
        OBVIOUS
      <4>1. j - 1 \in 1 .. n /\ i - 1 \in 1 .. Len(d) + n /\ i # 1 /\ ~(i - 1 <= Len(d))
            /\ i - 1 - Len(d) = j - 1
        BY <1>5, <2>2, <3>1
      <4>2. e[i - 1] = <<m, j - 1>>
        BY <1>3, <1>5, <4>1
      <4>3. <<m, j - 1>> \in Text
        BY <3>1, <4>1 DEF Text
      <4>4. QED
        BY <1>1, <1>7, <4>1, <4>2, <4>3
    <3>3. QED
      BY <3>1, <3>2
  <2>3. QED
    BY <1>5, <2>1, <2>2
<1>8. Begins(e)
  BY <1>5, <1>7 DEF Begins
<1>9. Begins(f)
  <2> SUFFICES ASSUME NEW i \in 1 .. Len(f), f[i] \in Text, i = 1 \/ f[i - 1] = NL
               PROVE  f[i][2] = 1
    BY DEF Begins
  <2>1. i \in 1 .. Len(d) + n
    BY <1>1, <1>5, <1>6
  <2>2. f[i] = e[i] /\ (i # 1 => f[i - 1] = e[i - 1])
    BY <1>5, <1>6, <2>1
  <2>3. QED
    BY <1>7, <2>1, <2>2
<1>10. QED
  BY <1>5, <1>6, <1>8, <1>9 DEF e, f, t

\* The load that is under way does not see an append.
LEMMA LoadUnchanged ==
  ASSUME LoadInv, UNCHANGED loadVars, disk' \in Seq(Byte), Begins(disk'), appends' \in Nat
  PROVE  LoadInv'
<1>1. /\ stage' = stage /\ budget' = budget /\ seen' = seen /\ remaining' = remaining
      /\ carryover' = carryover /\ lines' = lines /\ messages' = messages /\ used' = used
  BY DEF loadVars
<1>2. FileTypes'
  BY <1>1 DEF LoadInv, FileTypes
<1>3. Stages'
  BY <1>1 DEF LoadInv, Stages
<1>4. Unaligned' = Unaligned
  BY <1>1 DEF Unaligned, ChunkStarts
<1>5. Loading'
  BY <1>1, <1>4 DEF LoadInv, Loading
<1>6. Counted'
  BY <1>1 DEF LoadInv, Counted
<1>7. LoadDone'
  BY <1>1, <1>4 DEF LoadInv, LoadDone, LoadedTail
<1>8. QED
  BY <1>2, <1>3, <1>5, <1>6, <1>7 DEF LoadInv

LEMMA AppendHolds ==
  ASSUME LoadInv, NEW m \in Messages, AppendMessage(m)
  PROVE  LoadInv'
<1>1. Size[m] \in Nat \ {0}
  BY SizeAssumption
<1>2. SubSeq(Bytes(m), 1, Size[m]) = Bytes(m)
  BY <1>1 DEF Bytes
<1>3. disk \in Seq(Byte) /\ Begins(disk) /\ Size[m] \in 0 .. Size[m] /\ appends \in Nat
  BY <1>1 DEF LoadInv, FileTypes
<1>4. disk' = Append(disk \o SubSeq(Bytes(m), 1, Size[m]), NL) /\ appends' \in Nat /\ UNCHANGED loadVars
  <2>1. disk' = Append(disk \o Bytes(m), NL) /\ appends' = appends + 1 /\ UNCHANGED loadVars
    BY DEF AppendMessage
  <2>2. disk' = Append(disk \o SubSeq(Bytes(m), 1, Size[m]), NL)
    BY <1>2, <2>1, Zenon
  <2>3. QED
    BY <1>3, <2>1, <2>2
<1>5. disk' \in Seq(Byte) /\ Begins(disk')
  BY <1>3, <1>4, GrowsBegins
<1>6. QED
  BY <1>4, <1>5, LoadUnchanged

LEMMA TornHolds ==
  ASSUME LoadInv, NEW m \in Messages, TornAppend(m)
  PROVE  LoadInv'
<1>1. PICK n \in 1 .. Size[m] : disk' = disk \o SubSeq(Bytes(m), 1, n)
  BY DEF TornAppend
<1>2. disk \in Seq(Byte) /\ Begins(disk) /\ n \in 0 .. Size[m] /\ appends \in Nat
  BY SizeAssumption DEF LoadInv, FileTypes
<1>3. disk' \in Seq(Byte) /\ Begins(disk')
  BY <1>1, <1>2, GrowsBegins
<1>4. appends' \in Nat /\ UNCHANGED loadVars
  BY <1>2 DEF TornAppend
<1>5. QED
  BY <1>3, <1>4, LoadUnchanged

-----------------------------------------------------------------------------
(* A load. *)

LEMMA WholeOf ==
  ASSUME NEW s \in Seq(Byte), NEW r \in 0 .. Len(s), NEW c \in Seq(Text),
         NEW ls \in Seq(Seq(Text)), NEW ms \in Seq(Messages)
  PROVE  /\ Whole(s, r, c, ls, ms) = MessagesOf(SplitLines(Ahead(s, r, c)) \o ls) \o Reverse(ms)
         /\ SplitLines(Ahead(s, r, c)) \in Seq(Seq(Text))
         /\ SplitLines(Ahead(s, r, c)) \o ls \in Seq(Seq(Text))
         /\ MessagesOf(SplitLines(Ahead(s, r, c)) \o ls) \in Seq(Messages)
         /\ Reverse(ms) \in Seq(Messages)
         /\ Whole(s, r, c, ls, ms) \in Seq(Messages)
<1>1. SplitLines(Ahead(s, r, c)) \in Seq(Seq(Text)) /\ Reverse(ms) \in Seq(Messages)
  BY AheadTypes, ReverseTypes
<1> DEFINE x == SplitLines(Ahead(s, r, c)) \o ls
<1>2. x \in Seq(Seq(Text))
  BY <1>1, MessagesConcat
<1> HIDE DEF x
<1>3. MessagesOf(x) \in Seq(Messages)
  BY <1>2, MessagesConcat
<1>4. MessagesOf(x) \o Reverse(ms) \in Seq(Messages)
  BY <1>1, <1>3, ConcatProperties
<1>5. QED
  BY <1>1, <1>2, <1>3, <1>4 DEF Whole, x

LEMMA ReadableTypes ==
  ASSUME NEW s \in Seq(Byte)
  PROVE  Readable(s) \in Seq(Messages)
BY SplitLinesTypes, MessagesConcat DEF Readable

LEMMA StartHolds ==
  ASSUME LoadInv, NEW b \in TokenBudgets, StartLoad(b)
  PROVE  LoadInv'
<1>1. /\ stage = "idle" /\ budget' = b /\ seen' = disk /\ remaining' = Len(disk) /\ stage' = "chunk"
      /\ disk' = disk /\ appends' = appends /\ carryover' = carryover /\ lines' = lines
      /\ messages' = messages /\ used' = used
  BY DEF StartLoad
<1>2. /\ disk \in Seq(Byte) /\ Begins(disk) /\ carryover = <<>> /\ lines = <<>> /\ messages = <<>>
      /\ carryover \in Seq(Text) /\ lines \in Seq(Seq(Text)) /\ messages \in Seq(Messages)
      /\ used = 0 /\ b \in Nat /\ Len(disk) \in Nat
  BY <1>1, FileBoundsAssumption, LenProperties DEF LoadInv, FileTypes, Stages
<1>3. FileTypes'
  BY <1>1, <1>2 DEF LoadInv, FileTypes
<1>4. Stages'
  BY <1>1, <1>2 DEF Stages
<1>5. Ahead(disk, Len(disk), carryover) = disk /\ Reverse(messages) = <<>>
  BY <1>2, AheadAll, ReverseTypes
<1>6. SplitLines(disk) \in Seq(Seq(Text)) /\ MessagesOf(SplitLines(disk)) \in Seq(Messages)
  BY <1>2, SplitLinesTypes, MessagesConcat
<1>7. Whole(disk, Len(disk), carryover, lines, messages) = Readable(disk)
  <2>1. SplitLines(disk) \o <<>> = SplitLines(disk)
    BY <1>6, ConcatEmptySeq
  <2>2. MessagesOf(SplitLines(disk)) \o <<>> = MessagesOf(SplitLines(disk))
    BY <1>6, ConcatEmptySeq
  <2>3. QED
    BY <1>2, <1>5, <2>1, <2>2 DEF Whole, Readable
<1>8. Readable(disk) \in Seq(Messages)
  BY <1>6 DEF Readable
<1>9. Loading'
  <2>1. Within(Whole(disk, Len(disk), carryover, lines, messages), Readable(disk))
    BY <1>7, <1>8, WithinSelf
  <2>2. Begins(Ahead(disk, Len(disk), carryover))
    BY <1>2, <1>5
  <2>3. QED
    BY <1>1, <1>7, <2>1, <2>2 DEF Loading
<1>10. Counted'
  <2>1. TokensOf(Reverse(messages)) = 0 /\ Len(messages) = 0
    BY <1>2, <1>5, TokensNone, ReverseTypes
  <2>2. 0 \in 0 .. Len(disk) /\ 0 <= Len(disk) - Len(disk) /\ Len(disk) = Len(disk) - 0 * ChunkSize
    BY <1>2, FileBoundsAssumption
  <2>3. QED
    BY <1>1, <1>2, <2>1, <2>2 DEF Counted
<1>11. LoadDone'
  BY <1>1 DEF LoadDone
<1>12. QED
  BY <1>3, <1>4, <1>9, <1>10, <1>11 DEF LoadInv

\* The next chunk begins a chunk further into the file.
LEMMA NextStart ==
  ASSUME NEW l \in Nat, NEW r \in 1 .. l, NEW n \in 0 .. l, n <= l - r, r = l - n * ChunkSize,
         ChunkSize < r
  PROVE  /\ n + 1 \in 0 .. l /\ n + 1 <= l - (r - ChunkSize)
         /\ r - ChunkSize = l - (n + 1) * ChunkSize
<1>1. ChunkSize \in Nat \ {0}
  BY FileBoundsAssumption
<1> DEFINE c == ChunkSize
<1>2. (n + 1) * c = n * c + c /\ n * c \in Int
  <2>1. c \in Nat
    BY <1>1
  <2> HIDE DEF c
  <2>2. QED
    BY <2>1
<1> DEFINE nc == n * c
           mc == (n + 1) * c
<1>3. nc \in Int /\ mc = nc + c /\ r = l - nc /\ c \in Nat \ {0} /\ c < r
  BY <1>1, <1>2
<1> HIDE DEF nc, mc, c
<1>4. r - c = l - mc /\ n + 1 \in 0 .. l /\ n + 1 <= l - (r - c)
  BY <1>3
<1>5. QED
  BY <1>4 DEF nc, mc, c

LEMMA ReadChunkHolds ==
  ASSUME LoadInv, ReadChunk
  PROVE  LoadInv'
<1> DEFINE k == remaining - LeastOf(ChunkSize, remaining)
           split == SplitLines(SubSeq(seen, k + 1, remaining) \o carryover)
           carry == k > 0 /\ split # <<>>
<1>1. /\ stage = "chunk" /\ remaining > 0 /\ stage' = "lines" /\ remaining' = k
      /\ carryover' = (IF carry THEN Head(split) ELSE <<>>)
      /\ lines' = (IF carry THEN Tail(split) ELSE split)
      /\ disk' = disk /\ appends' = appends /\ budget' = budget /\ seen' = seen
      /\ messages' = messages /\ used' = used
  BY DEF ReadChunk
<1>2. /\ seen \in Seq(Byte) /\ Len(seen) \in Nat /\ remaining \in 1 .. Len(seen)
      /\ carryover \in Seq(Text) /\ messages \in Seq(Messages) /\ lines = <<>>
      /\ lines \in Seq(Seq(Text))
      /\ disk \in Seq(Byte) /\ Begins(disk) /\ Begins(seen) /\ appends \in Nat /\ budget \in Nat
      /\ used \in Nat
  BY <1>1, LenProperties DEF LoadInv, FileTypes, Stages
<1>3. /\ k \in 0 .. remaining - 1
      /\ k > 0 => ChunkSize < remaining /\ k = remaining - ChunkSize
  BY <1>2, FileBoundsAssumption DEF LeastOf
<1>4. /\ Begins(Ahead(seen, remaining, carryover))
      /\ Within(Whole(seen, remaining, carryover, lines, messages), Readable(seen))
      /\ Unaligned => Whole(seen, remaining, carryover, lines, messages) = Readable(seen)
      /\ \E n \in 0 .. Len(seen) :
            n <= Len(seen) - remaining /\ remaining = Len(seen) - n * ChunkSize
      /\ used = TokensOf(Reverse(messages))
      /\ Len(messages) <= 1 \/ used <= budget
  BY <1>1, <1>2 DEF LoadInv, Loading, Counted
<1> HIDE DEF k, split
<1> DEFINE old == MessagesOf(SplitLines(Ahead(seen, remaining, carryover)))
           left == MessagesOf(SplitLines(Ahead(seen, k, carryover')) \o lines')
           rev == Reverse(messages)
<1>5. /\ old \in Seq(Messages) /\ rev \in Seq(Messages) /\ Readable(seen) \in Seq(Messages)
      /\ Whole(seen, remaining, carryover, lines, messages) = old \o rev
      /\ old \o rev \in Seq(Messages)
  <2> DEFINE x == SplitLines(Ahead(seen, remaining, carryover))
  <2>1. remaining \in 0 .. Len(seen)
    BY <1>2
  <2>2. x \in Seq(Seq(Text)) /\ rev \in Seq(Messages)
    BY <1>2, <2>1, AheadTypes, ReverseTypes
  <2>3. x \o lines = x
    BY <1>2, <2>2, ConcatEmptySeq
  <2>4. MessagesOf(x) \in Seq(Messages)
    BY <2>2, MessagesConcat
  <2>5. Whole(seen, remaining, carryover, lines, messages) = old \o rev
    BY <2>3 DEF Whole
  <2>6. MessagesOf(x) \o rev \in Seq(Messages)
    <3> HIDE DEF rev, x
    <3>1. QED
      BY <2>2, <2>4, ConcatProperties
  <2>7. QED
    BY <1>2, <2>2, <2>4, <2>5, <2>6, ReadableTypes
<1>6. /\ carryover' \in Seq(Text) /\ lines' \in Seq(Seq(Text))
      /\ Begins(Ahead(seen, k, carryover'))
      /\ Drops(left, old)
      /\ k > 0 /\ seen[k + 1] # NL => left = old
      /\ k = 0 => left = old /\ carryover' = <<>>
  <2>1. CASE k > 0
    <3>1. k \in 1 .. remaining - 1 /\ k # 0
      BY <1>2, <1>3, <2>1
    <3>2. /\ Carry(split) \in Seq(Text) /\ Left(split) \in Seq(Seq(Text))
          /\ Begins(Ahead(seen, k, Carry(split)))
          /\ Drops(MessagesOf(SplitLines(Ahead(seen, k, Carry(split))) \o Left(split)), old)
          /\ seen[k + 1] # NL
               => MessagesOf(SplitLines(Ahead(seen, k, Carry(split))) \o Left(split)) = old
      BY <1>2, <1>4, <3>1, ReadStep DEF split
    <3>3. carryover' = Carry(split) /\ lines' = Left(split)
      BY <1>1, <2>1 DEF Carry, Left
    <3>4. QED
      BY <3>1, <3>2, <3>3
  <2>2. CASE k = 0
    <3>1. split = SplitLines(Ahead(seen, remaining, carryover)) /\ split \in Seq(Seq(Text))
      BY <1>2, <2>2, ReadFirst DEF split
    <3>2. carryover' = <<>> /\ lines' = split
      BY <1>1, <2>2
    <3>3. carryover' \in Seq(Text)
      BY <3>2, EmptySeq
    <3>4. SplitLines(Ahead(seen, k, carryover')) = <<>> /\ Begins(Ahead(seen, k, carryover'))
      BY <1>2, <2>2, <3>2, <3>3, AheadNone
    <3>5. <<>> \o split = split
      BY <3>1, ConcatEmptySeq
    <3>6. left = old
      BY <3>1, <3>2, <3>4, <3>5
    <3>7. QED
      BY <2>2, <3>1, <3>2, <3>3, <3>4, <3>6, DropsNothing
  <2>3. QED
    BY <1>3, <2>1, <2>2
<1>7. k \in 0 .. Len(seen) /\ left \in Seq(Messages)
      /\ Whole(seen, k, carryover', lines', messages) = left \o rev
  <2>1. k \in 0 .. Len(seen)
    BY <1>2, <1>3
  <2>2. SplitLines(Ahead(seen, k, carryover')) \in Seq(Seq(Text))
    BY <1>2, <1>6, <2>1, AheadTypes
  <2>3. left \in Seq(Messages)
    <3> DEFINE x == SplitLines(Ahead(seen, k, carryover'))
    <3>1. \A y, z \in Seq(Seq(Text)) : MessagesOf(y \o z) \in Seq(Messages)
      <4>1. ASSUME NEW y \in Seq(Seq(Text)), NEW z \in Seq(Seq(Text))
            PROVE  MessagesOf(y \o z) \in Seq(Messages)
        <5>1. y \o z \in Seq(Seq(Text))
          BY MessagesConcat
        <5>2. QED
          BY <5>1, MessagesConcat
      <4>2. QED
        BY <4>1
    <3>2. x \in Seq(Seq(Text)) /\ lines' \in Seq(Seq(Text))
      BY <1>6, <2>2
    <3> HIDE DEF x
    <3>3. MessagesOf(x \o lines') \in Seq(Messages)
      BY <3>1, <3>2
    <3>4. QED
      BY <3>3 DEF x
  <2>4. Whole(seen, k, carryover', lines', messages) = left \o rev
    BY DEF Whole
  <2>5. QED
    BY <2>1, <2>3, <2>4
<1> HIDE DEF old, left, rev
<1>8. Within(left \o rev, Readable(seen))
  <2>1. left \o rev \in Seq(Messages)
    BY <1>5, <1>7, ConcatProperties
  <2>2. Within(left \o rev, old \o rev)
    BY <1>5, <1>6, <1>7, DropsWithin
  <2>3. QED
    BY <1>4, <1>5, <2>1, <2>2, WithinWithin
<1>9. k > 0 => \E n \in 0 .. Len(seen) : n <= Len(seen) - k /\ k = Len(seen) - n * ChunkSize
  <2> SUFFICES ASSUME k > 0 PROVE \E n \in 0 .. Len(seen) : n <= Len(seen) - k /\ k = Len(seen) - n * ChunkSize
    OBVIOUS
  <2>1. PICK n \in 0 .. Len(seen) :
          n <= Len(seen) - remaining /\ remaining = Len(seen) - n * ChunkSize
    BY <1>4
  <2>2. /\ n + 1 \in 0 .. Len(seen) /\ n + 1 <= Len(seen) - k
        /\ k = Len(seen) - (n + 1) * ChunkSize
    BY <1>2, <1>3, <2>1, NextStart
  <2>3. QED
    BY <2>2
<1>10. Unaligned => left = old
  <2> SUFFICES ASSUME Unaligned, k > 0 PROVE left = old
    BY <1>3, <1>6
  <2>1. PICK n \in 0 .. Len(seen) : k = Len(seen) - n * ChunkSize
    BY <1>9
  <2>2. k \in 1 .. Len(seen) - 1
    BY <1>2, <1>3
  <2>3. k \in ChunkStarts
    BY <2>1, <2>2 DEF ChunkStarts
  <2>4. QED
    BY <1>6, <2>3 DEF Unaligned
<1>11. Unaligned' = Unaligned
  BY <1>1 DEF Unaligned, ChunkStarts
<1>12. Loading'
  <2>1. Unaligned => left \o rev = Readable(seen)
    BY <1>4, <1>5, <1>10
  <2>2. QED
    BY <1>1, <1>6, <1>7, <1>8, <1>11, <2>1 DEF Loading
<1>13. Counted'
  <2>1. k = 0 \/ \E n \in 0 .. Len(seen) : n <= Len(seen) - k /\ k = Len(seen) - n * ChunkSize
    BY <1>3, <1>9
  <2>2. QED
    BY <1>1, <1>4, <2>1 DEF Counted
<1>14. FileTypes'
  BY <1>1, <1>2, <1>6, <1>7 DEF FileTypes
<1>15. Stages'
  BY <1>1, <1>3, <1>6 DEF Stages
<1>16. LoadDone'
  BY <1>1 DEF LoadDone
<1>17. QED
  BY <1>12, <1>13, <1>14, <1>15, <1>16 DEF LoadInv

LEMMA FrontAndLast ==
  ASSUME NEW A, NEW x \in Seq(A), NEW ls \in Seq(A), ls # <<>>
  PROVE  /\ Last(ls) \in A /\ Front(ls) \in Seq(A) /\ x \o Front(ls) \in Seq(A)
         /\ x \o ls = Append(x \o Front(ls), Last(ls))
<1> DEFINE f == SubSeq(ls, 1, Len(ls) - 1)
           a == ls[Len(ls)]
<1>1. Len(ls) \in Nat \ {0}
  BY EmptySeq, LenProperties
<1>2. f \in Seq(A) /\ a \in A
  BY <1>1
<1>3. ls = Append(f, a)
  BY <1>1
<1>4. Front(ls) = f /\ Last(ls) = a
  BY DEF Front, Last
<1> HIDE DEF f, a
<1>5. x \o Append(f, a) = Append(x \o f, a)
  BY <1>2, AppendBehind
<1>6. x \o f \in Seq(A)
  BY <1>2, ConcatProperties
<1>7. x \o ls = Append(x \o f, a)
  BY <1>3, <1>5, Zenon
<1>8. QED
  BY <1>2, <1>4, <1>6, <1>7, Zenon

\* The last of the lines left is the newest message that was not looked at.
LEMMA LastLine ==
  ASSUME NEW x \in Seq(Seq(Text)), NEW ls \in Seq(Seq(Text)), ls # <<>>
  PROVE  /\ Last(ls) \in Seq(Text) /\ Front(ls) \in Seq(Seq(Text))
         /\ MessagesOf(x \o Front(ls)) \in Seq(Messages)
         /\ MessagesOf(x \o ls) = ReadLine(MessagesOf(x \o Front(ls)), Last(ls))
<1> DEFINE A == Seq(Text)
           y == x \o Front(ls)
<1>1. /\ Last(ls) \in A /\ Front(ls) \in Seq(A) /\ y \in Seq(A)
      /\ x \o ls = Append(y, Last(ls))
  <2> HIDE DEF A
  <2>1. x \in Seq(A) /\ ls \in Seq(A)
    BY DEF A
  <2>2. QED
    BY <2>1, FrontAndLast
<1> HIDE DEF y
<1>2. MessagesOf(y) \in Seq(Messages) /\ MessagesOf(Append(y, Last(ls))) = ReadLine(MessagesOf(y), Last(ls))
  BY <1>1, MessagesAppend
<1>3. QED
  BY <1>1, <1>2 DEF y

LEMMA TakeLineHolds ==
  ASSUME LoadInv, TakeLine
  PROVE  LoadInv'
<1> DEFINE line == Last(lines)
           m == Parse(line)
           x == SplitLines(Ahead(seen, remaining, carryover))
           read == MessagesOf(x \o Front(lines))
           rev == Reverse(messages)
<1>1. /\ stage = "lines" /\ lines # <<>>
      /\ disk' = disk /\ appends' = appends /\ budget' = budget /\ seen' = seen
      /\ remaining' = remaining
  BY DEF TakeLine
<1>2. /\ seen \in Seq(Byte) /\ remaining \in 0 .. Len(seen)
      /\ carryover \in Seq(Text) /\ lines \in Seq(Seq(Text)) /\ messages \in Seq(Messages)
      /\ disk \in Seq(Byte) /\ Begins(disk) /\ Begins(seen) /\ appends \in Nat /\ budget \in Nat
      /\ used \in Nat
  BY DEF LoadInv, FileTypes
<1>3. /\ Begins(Ahead(seen, remaining, carryover))
      /\ Within(Whole(seen, remaining, carryover, lines, messages), Readable(seen))
      /\ Unaligned => Whole(seen, remaining, carryover, lines, messages) = Readable(seen)
      /\ \/ remaining = 0
         \/ \E n \in 0 .. Len(seen) :
              n <= Len(seen) - remaining /\ remaining = Len(seen) - n * ChunkSize
      /\ used = TokensOf(Reverse(messages))
      /\ Len(messages) <= 1 \/ used <= budget
      /\ remaining = 0 => carryover = <<>>
  BY <1>1 DEF LoadInv, Loading, Counted, Stages
<1>4. x \in Seq(Seq(Text)) /\ rev \in Seq(Messages) /\ Readable(seen) \in Seq(Messages)
      /\ Whole(seen, remaining, carryover, lines, messages) \in Seq(Messages)
  BY <1>2, AheadTypes, ReverseTypes, ReadableTypes, WholeOf
<1>5. /\ line \in Seq(Text) /\ Front(lines) \in Seq(Seq(Text)) /\ read \in Seq(Messages)
      /\ MessagesOf(x \o lines) = ReadLine(read, line)
  BY <1>1, <1>2, <1>4, LastLine
<1>6. Whole(seen, remaining, carryover, lines, messages) = ReadLine(read, line) \o rev
  BY <1>5 DEF Whole
<1>7. \A c, ms : Whole(seen, remaining, carryover, Front(lines), ms) = read \o Reverse(ms)
  BY DEF Whole
<1>8. Unaligned' = Unaligned
  BY <1>1 DEF Unaligned, ChunkStarts
<1>9. Parses(line) => m \in Messages
  BY DEF Parses, Parse
<1> HIDE DEF line, m, read, rev, x
<1>10. CASE ~Parses(line)
  <2>1. lines' = Front(lines) /\ stage' = stage /\ carryover' = carryover /\ messages' = messages
        /\ used' = used
    BY <1>10 DEF TakeLine, line
  <2>2. ReadLine(read, line) = read
    BY <1>10 DEF ReadLine
  <2>3. Whole(seen, remaining, carryover, Front(lines), messages)
          = Whole(seen, remaining, carryover, lines, messages)
    BY <1>6, <1>7, <2>2 DEF rev
  <2>4. FileTypes' /\ Stages'
    BY <1>1, <1>2, <1>3, <1>5, <2>1 DEF FileTypes, Stages
  <2>5. Loading' /\ Counted' /\ LoadDone'
    BY <1>1, <1>3, <1>8, <2>1, <2>3 DEF Loading, Counted, LoadDone
  <2>6. QED
    BY <2>4, <2>5 DEF LoadInv
<1>11. CASE Parses(line) /\ used + Tokens[m] > budget /\ messages # <<>>
  <2>1. stage' = "done" /\ carryover' = <<>> /\ lines' = <<>> /\ messages' = messages /\ used' = used
    BY <1>11 DEF TakeLine, line, m, Return
  <2> DEFINE p == Append(read, m)
  <2>2. p \in Seq(Messages) /\ p # <<>> /\ p[Len(p)] = m /\ m \in Messages /\ Tokens[m] \in Nat
    <3>1. ASSUME NEW q \in Seq(Messages), NEW a \in Messages
          PROVE  Append(q, a) \in Seq(Messages) /\ Append(q, a) # <<>>
                 /\ Append(q, a)[Len(Append(q, a))] = a
      OBVIOUS
    <3>2. m \in Messages /\ Tokens[m] \in Nat
      BY <1>9, <1>11, SizeAssumption
    <3>3. QED
      BY <1>5, <3>1, <3>2
  <2> HIDE DEF p
  <2>3. Whole(seen, remaining, carryover, lines, messages) = p \o rev
    BY <1>6, <1>11 DEF ReadLine, p, m
  <2>4. Within(rev, p \o rev)
    BY <1>4, <2>2, WithinEnd
  <2>5. Within(rev, Readable(seen))
    BY <1>3, <1>4, <2>3, <2>4, WithinWithin
  <2>6. rev # <<>> /\ Len(rev) = Len(messages) /\ used = TokensOf(rev)
    BY <1>2, <1>3, <1>11, ReverseTypes DEF rev
  <2>7. TailWithin(p \o rev, budget) = rev
    <3>1. Len(rev) <= 1 \/ TokensOf(rev) <= budget
      BY <1>3, <2>6
    <3>2. TokensOf(rev) + Tokens[p[Len(p)]] > budget
      BY <1>11, <2>2, <2>6
    <3>3. QED
      BY <1>2, <1>4, <2>2, <2>6, <3>1, <3>2, TailIs
  <2>8. Unaligned => rev = TailWithin(Readable(seen), budget)
    BY <1>3, <2>3, <2>7
  <2>9. FileTypes' /\ Stages'
    <3>1. \A S : <<>> \in Seq(S)
      BY EmptySeq
    <3>2. QED
      BY <1>1, <1>2, <2>1, <3>1 DEF FileTypes, Stages
  <2>10. LoadDone'
    BY <1>1, <1>8, <2>1, <2>5, <2>8 DEF LoadDone, LoadedTail, rev
  <2>11. Loading' /\ Counted'
    BY <2>1 DEF Loading, Counted
  <2>12. QED
    BY <2>9, <2>10, <2>11 DEF LoadInv
<1>12. CASE Parses(line) /\ ~(used + Tokens[m] > budget /\ messages # <<>>)
  <2>1. lines' = Front(lines) /\ messages' = Append(messages, m) /\ used' = used + Tokens[m]
        /\ stage' = stage /\ carryover' = carryover
    BY <1>12 DEF TakeLine, line, m
  <2>2. m \in Messages /\ Tokens[m] \in Nat /\ Append(messages, m) \in Seq(Messages)
        /\ Len(Append(messages, m)) = Len(messages) + 1
    BY <1>2, <1>9, <1>12, SizeAssumption
  <2>3. Reverse(Append(messages, m)) = Cons(m, rev)
    BY <1>2, <2>2, ReverseAppend DEF rev
  <2>4. Append(read, m) \o rev = read \o Cons(m, rev) /\ TokensOf(Cons(m, rev)) = TokensOf(rev) + Tokens[m]
    BY <1>4, <1>5, <2>2, ConsProperties
  <2>5. ReadLine(read, line) = Append(read, m)
    BY <1>12 DEF ReadLine, m
  <2>6. Whole(seen, remaining, carryover, Front(lines), Append(messages, m))
          = Whole(seen, remaining, carryover, lines, messages)
    BY <1>6, <1>7, <2>3, <2>4, <2>5
  <2>7. used + Tokens[m] = TokensOf(Reverse(Append(messages, m)))
    BY <1>3, <2>3, <2>4 DEF rev
  <2>8. Len(Append(messages, m)) <= 1 \/ used + Tokens[m] <= budget
    <3>1. messages = <<>> => Len(messages) = 0
      OBVIOUS
    <3>2. QED
      BY <1>2, <1>12, <2>2, <3>1
  <2>9. FileTypes' /\ Stages'
    <3>1. used' \in Nat /\ messages' \in Seq(Messages) /\ lines' \in Seq(Seq(Text))
      BY <1>2, <1>5, <2>1, <2>2
    <3>2. FileTypes'
      BY <1>1, <1>2, <2>1, <3>1 DEF FileTypes
    <3>3. Stages'
      BY <1>1, <1>3, <2>1 DEF Stages
    <3>4. QED
      BY <3>2, <3>3
  <2>10. Loading'
    BY <1>1, <1>3, <1>8, <2>1, <2>6 DEF Loading
  <2>11. Counted'
    BY <1>1, <1>3, <2>1, <2>7, <2>8 DEF Counted
  <2>12. LoadDone'
    BY <1>1, <2>1 DEF LoadDone
  <2>13. QED
    BY <2>9, <2>10, <2>11, <2>12 DEF LoadInv
<1>13. QED
  BY <1>10, <1>11, <1>12

LEMMA NextChunkHolds ==
  ASSUME LoadInv, NextChunk
  PROVE  LoadInv'
<1>1. /\ stage = "lines" /\ lines = <<>> /\ stage' = "chunk" /\ lines' = lines
      /\ disk' = disk /\ appends' = appends /\ budget' = budget /\ seen' = seen
      /\ remaining' = remaining /\ carryover' = carryover /\ messages' = messages /\ used' = used
  BY DEF NextChunk
<1>2. Unaligned' = Unaligned
  BY <1>1 DEF Unaligned, ChunkStarts
<1>3. FileTypes' /\ Stages'
  BY <1>1 DEF LoadInv, FileTypes, Stages
<1>4. Loading'
  BY <1>1, <1>2 DEF LoadInv, Loading
<1>5. Counted' /\ LoadDone'
  BY <1>1 DEF LoadInv, Counted, LoadDone
<1>6. QED
  BY <1>3, <1>4, <1>5 DEF LoadInv

LEMMA FinishHolds ==
  ASSUME LoadInv, FinishLoad
  PROVE  LoadInv'
<1> DEFINE rev == Reverse(messages)
<1>1. /\ stage = "chunk" /\ remaining = 0 /\ stage' = "done" /\ carryover' = <<>> /\ lines' = <<>>
      /\ disk' = disk /\ appends' = appends /\ budget' = budget /\ seen' = seen
      /\ remaining' = remaining /\ used' = used
  BY DEF FinishLoad, Return
<1>2. /\ seen \in Seq(Byte) /\ carryover \in Seq(Text) /\ messages \in Seq(Messages) /\ budget \in Nat
      /\ carryover = <<>> /\ lines = <<>>
  BY <1>1 DEF LoadInv, FileTypes, Stages
<1>3. ~Parses(carryover)
  <2> SUFFICES ASSUME NEW m \in Messages, <<>> = Bytes(m) PROVE FALSE
    BY <1>2 DEF Parses
  <2>1. Size[m] \in Nat \ {0}
    BY SizeAssumption
  <2>2. Bytes(m)[1] = <<m, 1>> /\ DOMAIN Bytes(m) = 1 .. Size[m]
    BY <2>1 DEF Bytes
  <2>3. DOMAIN Bytes(m) = {}
    OBVIOUS
  <2>4. 1 \in 1 .. Size[m]
    BY <2>1
  <2>5. QED
    BY <2>2, <2>3, <2>4
<1>4. messages' = messages
  BY <1>3 DEF FinishLoad
<1>5. rev \in Seq(Messages) /\ Len(rev) = Len(messages)
  BY <1>2, ReverseTypes
<1>6. Whole(seen, remaining, carryover, lines, messages) = rev
  <2>1. SplitLines(Ahead(seen, 0, carryover)) = <<>>
    BY <1>2, AheadNone
  <2>2. ASSUME NEW e \in Seq(Seq(Text)), e = <<>> PROVE MessagesOf(e) = <<>>
    BY <2>2, MessagesNone
  <2>3. <<>> \in Seq(Seq(Text)) /\ <<>> \o <<>> = <<>>
    BY EmptySeq, ConcatEmptySeq
  <2>4. MessagesOf(<<>>) = <<>>
    BY <2>2, <2>3
  <2>5. <<>> \o rev = rev
    BY <1>5, ConcatEmptySeq
  <2>6. QED
    BY <1>1, <1>2, <2>1, <2>3, <2>4, <2>5 DEF Whole
<1>7. /\ Within(rev, Readable(seen)) /\ (Unaligned => Readable(seen) = rev)
      /\ Len(rev) <= 1 \/ TokensOf(rev) <= budget
  BY <1>1, <1>5, <1>6 DEF LoadInv, Loading, Counted
<1> HIDE DEF rev
<1>8. rev = TailWithin(rev, budget)
  <2>1. ASSUME NEW e \in Seq(Messages), e = <<>> PROVE TailWithin(e \o rev, budget) = rev
    BY <1>2, <1>5, <1>7, <2>1, TailIs
  <2>2. <<>> \in Seq(Messages) /\ <<>> \o rev = rev
    BY <1>5, EmptySeq, ConcatEmptySeq
  <2>3. TailWithin(<<>> \o rev, budget) = rev
    BY <2>1, <2>2
  <2>4. QED
    BY <2>2, <2>3
<1>9. Unaligned' = Unaligned
  BY <1>1 DEF Unaligned, ChunkStarts
<1>10. LoadDone'
  BY <1>1, <1>4, <1>7, <1>8, <1>9 DEF LoadDone, LoadedTail, rev
<1>11. FileTypes' /\ Stages'
  BY <1>1, <1>2, <1>4 DEF LoadInv, FileTypes, Stages
<1>12. Loading' /\ Counted'
  BY <1>1 DEF Loading, Counted
<1>13. QED
  BY <1>10, <1>11, <1>12 DEF LoadInv

LEMMA EndHolds ==
  ASSUME LoadInv, EndLoad
  PROVE  LoadInv'
<1>1. /\ stage = "done" /\ stage' = "idle" /\ messages' = <<>> /\ used' = 0 /\ budget' = 0
      /\ seen' = <<>> /\ remaining' = 0 /\ disk' = disk /\ appends' = appends
      /\ carryover' = carryover /\ lines' = lines
  BY DEF EndLoad
<1>2. \A S : <<>> \in Seq(S)
  BY EmptySeq
<1>3. Begins(<<>>) /\ Len(<<>>) = 0
  BY DEF Begins
<1>4. FileTypes'
  BY <1>1, <1>2, <1>3 DEF LoadInv, FileTypes
<1>5. Stages'
  BY <1>1 DEF LoadInv, Stages
<1>6. Loading' /\ Counted' /\ LoadDone'
  BY <1>1 DEF Loading, Counted, LoadDone
<1>7. QED
  BY <1>4, <1>5, <1>6 DEF LoadInv

\* The invariant holds in every state of the session file and of the loads from it.
THEOREM LoadInvariant == FileSpec => []LoadInv
<1>1. FileInit => LoadInv
  BY FileInitHolds
<1>2. LoadInv /\ [FileNext]_fileVars => LoadInv'
  <2> SUFFICES ASSUME LoadInv, [FileNext]_fileVars PROVE LoadInv'
    OBVIOUS
  <2>1. CASE \E m \in Messages : AppendMessage(m) \/ TornAppend(m)
    BY <2>1, AppendHolds, TornHolds
  <2>2. CASE \E b \in TokenBudgets : StartLoad(b)
    BY <2>2, StartHolds
  <2>3. CASE Load
    BY <2>3, ReadChunkHolds, TakeLineHolds, NextChunkHolds, FinishHolds DEF Load
  <2>4. CASE EndLoad
    BY <2>4, EndHolds
  <2>5. CASE UNCHANGED fileVars
    <3>1. UNCHANGED loadVars /\ disk' = disk /\ appends' = appends
      BY <2>5 DEF fileVars
    <3>2. disk \in Seq(Byte) /\ Begins(disk) /\ appends \in Nat
      BY DEF LoadInv, FileTypes
    <3>3. QED
      BY <3>1, <3>2, LoadUnchanged
  <2>6. QED
    BY <2>1, <2>2, <2>3, <2>4, <2>5 DEF FileNext
<1>3. QED
  BY <1>1, <1>2, PTL DEF FileSpec

\* LoadTail returns the newest messages of the file that fit the budget, unless a chunk
\* begins with a newline: for chunks, messages and files of any length, with torn lines
\* anywhere and appends at any point of the load.
THEOREM LoadTailIsRight == FileSpec => []LoadsTailUnlessAligned
<1>1. LoadInv => LoadsTailUnlessAligned
  BY DEF LoadInv, LoadDone, Unaligned, LoadsTailUnlessAligned
<1>2. QED
  BY <1>1, LoadInvariant, PTL

\* And wherever the chunks begin, what it returns is a selection of the messages of the
\* file, in their order.
THEOREM LoadTailInventsNothing == FileSpec => []LoadsOnlyMessages
<1>1. LoadInv => LoadsOnlyMessages
  BY DEF LoadInv, LoadDone, LoadsOnlyMessages
<1>2. QED
  BY <1>1, LoadInvariant, PTL
=============================================================================
