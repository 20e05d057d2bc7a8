---------------------------- MODULE TranscriptProofs ----------------------------
(***************************************************************************)
(* What is read out of the canonical ledger: the transcript, which a write  *)
(* extends, a compaction cuts and one pass validates                        *)
(* (agent/snapshot-integrity.ts, agent-ledger-projection.ts,                *)
(* agent-ledger-loader.ts), how long a mailbox is remembered                 *)
(* (agent/mailbox-continuity.ts), and the requests made of the messages     *)
(* (agent/claude-code/request.ts, openai-agent/llm-client.ts,               *)
(* agent/working-context.ts, agent/compaction.ts).                          *)
(***************************************************************************)
EXTENDS MCLedger, AgentLedgerProofs, FiniteSetTheorems, SequenceTheorems, WellFoundedInduction, TLAPS

(* Extremes of sets of numbers.                                            *)

(* A nonempty set of natural numbers has a least element, which is its     *)
(* minimum.                                                                *)
LEMMA MinIsLeast ==
    ASSUME NEW S, S \subseteq Nat, S # {}
    PROVE  Min(S) \in S /\ \A y \in S : Min(S) <= y
<1> DEFINE R == OpToRel(<, Nat)
<1>1. PICK x \in S : \A y \in S : <<y, x>> \notin R
  <2>1. IsWellFoundedOn(R, Nat) BY NatLessThanWellFounded
  <2> HIDE DEF R
  <2> QED BY <2>1, WFMin, Zenon
<1>2. \A y \in S : ~(y < x) BY <1>1 DEF OpToRel
<1>3. \A y \in S : x <= y BY <1>2
<1> QED BY <1>3 DEF Min

(* A bounded one has a greatest element, which is its maximum.             *)
LEMMA MaxIsGreatest ==
    ASSUME NEW N \in Nat, NEW S, S \subseteq 0..N, S # {}
    PROVE  Max(S) \in S /\ \A y \in S : y <= Max(S)
<1> DEFINE U == {k \in Nat : \A y \in S : y <= k}
           n == Min(U)
<1>1. U \subseteq Nat /\ N \in U OBVIOUS
<1>2. n \in U /\ \A k \in U : n <= k
  <2> HIDE DEF U
  <2> QED BY <1>1, MinIsLeast
<1> HIDE DEF n
<1>3. n \in S
  <2> SUFFICES ASSUME n \notin S PROVE FALSE OBVIOUS
  <2>1. \A y \in S : y <= n - 1 BY <1>2
  <2>2. PICK y \in S : TRUE OBVIOUS
  <2>3. n - 1 \in U BY <1>2, <2>1, <2>2
  <2> QED BY <1>2, <2>3
<1> QED BY <1>2, <1>3 DEF Max

(* What holds at the start and, step by step, after it holds up to the end. *)
LEMMA StepByStep ==
    ASSUME NEW N \in Nat, NEW good, 0 \in good,
           \A n \in 1..N : n - 1 \in good => n \in good
    PROVE  \A n \in 0..N : n \in good
<1> DEFINE Bad == {n \in 0..N : n \notin good}
<1> SUFFICES ASSUME Bad # {} PROVE FALSE OBVIOUS
<1>1. PICK m \in Bad : \A y \in Bad : m <= y
  <2>1. Bad \subseteq Nat OBVIOUS
  <2> HIDE DEF Bad
  <2> QED BY <2>1, MinIsLeast
<1>2. m \in 0..N /\ m \in Nat /\ m \notin good BY <1>1
<1>3. m # 0 BY <1>2
<1>4. m \in 1..N /\ m - 1 \in 0..N /\ ~(m <= m - 1) BY <1>2, <1>3
<1>5. m - 1 \notin Bad
  <2> HIDE DEF Bad
  <2> QED BY <1>1, <1>4
<1>6. m - 1 \in good BY <1>4, <1>5
<1> QED BY <1>2, <1>4, <1>6

-----------------------------------------------------------------------------
(* The validator: its one pass accepts exactly the well-formed transcripts.  *)

(* A transcript's messages, whoever wrote them.                             *)
CallsAreSequences(ms) == \A i \in 1..Len(ms) : ms[i].calls \in Seq(Nat)

PassType == [next : Nat, expected : SUBSET Nat, ok : BOOLEAN]
PassOf(ms, p) ==
    /\ p[0] = [next |-> 1, expected |-> {}, ok |-> TRUE]
    /\ \A i \in 1..Len(ms) : p[i] = Visit(ms, p[i - 1], i)

(* The pass over a transcript is the one its recursion says.                *)
LEMMA PassIs ==
    ASSUME NEW ms, NEW N \in Nat, N = Len(ms)
    PROVE  \E p : PassOf(ms, p) /\ ValidateMessages(ms) = p[N].ok
<1> DEFINE Start == [next |-> 1, expected |-> {}, ok |-> TRUE]
           Steps(m, f) == \A i \in 0..m : f[i] = (IF i = 0 THEN Start ELSE Visit(ms, f[i - 1], i))
           Bad == {m \in 0..N : ~\E f : f = [i \in 0..m |-> f[i]] /\ Steps(m, f)}
           fn == CHOOSE f : f = [i \in 0..N |-> IF i = 0 THEN Start ELSE Visit(ms, f[i - 1], i)]
<1>1. Bad = {}
  <2> SUFFICES ASSUME Bad # {} PROVE FALSE OBVIOUS
  <2>1. PICK m \in Bad : \A y \in Bad : m <= y
    <3>1. Bad \subseteq Nat OBVIOUS
    <3> HIDE DEF Bad
    <3> QED BY <3>1, MinIsLeast
  <2>2. m \in 0..N /\ m \in Nat BY <2>1
  <2>3. ~\E f : f = [i \in 0..m |-> f[i]] /\ Steps(m, f) BY <2>1
  <2>4. CASE m = 0
    <3>1. PICK g : g = [i \in 0..m |-> Start] OBVIOUS
    <3>2. 0 \in 0..m /\ \A i \in 0..m : i = 0 BY <2>4
    <3>3. g = [i \in 0..m |-> g[i]] BY <3>1
    <3>4. Steps(m, g) BY <3>1, <3>2
    <3> HIDE DEF Steps
    <3> QED BY <2>3, <3>3, <3>4, Zenon
  <2>5. CASE m # 0
    <3>1. m - 1 \in 0..N /\ m - 1 \notin Bad
      <4>1. m - 1 \in 0..N /\ ~(m <= m - 1) BY <2>2, <2>5
      <4> HIDE DEF Bad
      <4> QED BY <2>1, <4>1
    <3>2. \E f : f = [i \in 0..(m - 1) |-> f[i]] /\ Steps(m - 1, f)
      <4> HIDE DEF Steps
      <4> QED BY <3>1
    <3>3. PICK f : f = [i \in 0..(m - 1) |-> f[i]] /\ Steps(m - 1, f) BY <3>2, Zenon
    <3>4. PICK g : g = [i \in 0..m |-> IF i = m THEN Visit(ms, f[m - 1], m) ELSE f[i]] OBVIOUS
    <3>5. \A i \in 0..m : i # m => i \in 0..(m - 1) /\ (i # 0 => i - 1 \in 0..m /\ i - 1 # m)
      BY <2>2, <2>5
    <3>6. g = [i \in 0..m |-> g[i]] BY <3>4
    <3>7. Steps(m, g)
      <4> SUFFICES ASSUME NEW i \in 0..m PROVE g[i] = (IF i = 0 THEN Start ELSE Visit(ms, g[i - 1], i))
        OBVIOUS
      <4>1. CASE i = m
        <5>1. m - 1 \in 0..m /\ m - 1 # m /\ m \in 0..m BY <2>2, <2>5
        <5>2. g[m] = Visit(ms, f[m - 1], m) /\ g[m - 1] = f[m - 1] BY <3>4, <5>1, Zenon
        <5> QED BY <2>5, <4>1, <5>2, Zenon
      <4>2. CASE i # m
        <5>1. g[i] = f[i] /\ (i # 0 => g[i - 1] = f[i - 1])
          <6>1. i \in 0..(m - 1) /\ (i # 0 => i - 1 \in 0..m /\ i - 1 # m) BY <3>5, <4>2
          <6> QED BY <3>4, <4>2, <6>1, Zenon
        <5>2. f[i] = (IF i = 0 THEN Start ELSE Visit(ms, f[i - 1], i)) BY <3>3, <3>5, <4>2, Zenon
        <5> QED BY <5>1, <5>2, Zenon
      <4> QED BY <4>1, <4>2
    <3>8. \E h : h = [i \in 0..m |-> h[i]] /\ Steps(m, h)
      <4> HIDE DEF Steps
      <4> QED BY <3>6, <3>7, Zenon
    <3> QED BY <2>3, <3>8, Zenon
  <2> QED BY <2>4, <2>5
<1>2. fn = [i \in 0..N |-> IF i = 0 THEN Start ELSE Visit(ms, fn[i - 1], i)]
  <2>1. N \in 0..N /\ N \notin Bad BY <1>1
  <2>2. \E f : f = [i \in 0..N |-> f[i]] /\ Steps(N, f)
    <3> HIDE DEF Steps
    <3> QED BY <2>1
  <2>3. PICK f : f = [i \in 0..N |-> f[i]] /\ Steps(N, f) BY <2>2, Zenon
  <2>4. f = [i \in 0..N |-> IF i = 0 THEN Start ELSE Visit(ms, f[i - 1], i)] BY <2>3
  <2> QED BY <2>4, Zenon
<1>3. ValidateMessages(ms) = fn[N].ok BY DEF ValidateMessages
<1> HIDE DEF fn
<1>4. PICK s : s = fn OBVIOUS
<1>5. \A i \in 0..N : s[i] = (IF i = 0 THEN Start ELSE Visit(ms, s[i - 1], i))
  <2>1. PICK t : t = [i \in 0..N |-> IF i = 0 THEN Start ELSE Visit(ms, s[i - 1], i)] OBVIOUS
  <2>2. s = t BY <1>2, <1>4, <2>1
  <2>3. \A i \in 0..N : t[i] = (IF i = 0 THEN Start ELSE Visit(ms, s[i - 1], i)) BY <2>1
  <2> QED BY <2>2, <2>3
<1>6. 0 \in 0..N /\ \A i \in 1..N : i \in 0..N /\ i # 0 OBVIOUS
<1>7. PassOf(ms, s) BY <1>5, <1>6 DEF PassOf
<1> QED BY <1>3, <1>4, <1>7

(* The message at j was looked at, not skipped as an answer of an earlier one; *)
(* it took answers with it; it was as the pass demands.                     *)
Visited(p, j) == p[j - 1].next <= j
Taker(ms, p, j) == Visited(p, j) /\ ms[j].role = "assistant"
AllSound(ms, j, known) == \A k \in DOMAIN ms[j].calls : CallSound(ms, j, k, known)
Good(ms, p, j) ==
    \/ ms[j].role = "user"
    \/ ms[j].role = "assistant" /\ AllSound(ms, j, p[j - 1].expected)
GoodUpTo(ms, p, i) == \A j \in 1..i : Visited(p, j) => Good(ms, p, j)
KnownBy(ms, p, i) == {id \in Nat : \E a \in 1..i : Taker(ms, p, a) /\ id \in Range(ms[a].calls)}
AfterTaker(ms, a) == a + Len(ms[a].calls) + 1

(* What holds of the pass once it has looked at i messages.                 *)
PassFacts(ms, p, i) ==
    /\ p[i] \in PassType
    /\ p[i].next > i
    /\ p[i].ok <=> GoodUpTo(ms, p, i)
    /\ p[i].expected = KnownBy(ms, p, i)
    /\ p[i].next # i + 1 => \E a \in 1..i : Taker(ms, p, a) /\ p[i].next = AfterTaker(ms, a)
    /\ \A a \in 1..i : Taker(ms, p, a) => p[i].next >= AfterTaker(ms, a)

(* What one visit makes of a pass: nothing of a message it skips; of a message *)
(* it looks at, how far it goes, what it accepts and which ids it knows.    *)
VisitGives(ms, i, q, r) ==
    /\ r \in PassType
    /\ i < q.next => r = q
    /\ q.next <= i =>
         /\ r.next = (IF ms[i].role = "assistant" THEN AfterTaker(ms, i) ELSE i + 1)
         /\ r.ok <=> /\ q.ok
                     /\ \/ ms[i].role = "user"
                        \/ ms[i].role = "assistant" /\ AllSound(ms, i, q.expected)
         /\ r.expected = IF ms[i].role = "assistant" THEN q.expected \cup Range(ms[i].calls)
                         ELSE q.expected

(* The definition of a visit gives that.                                    *)
LEMMA VisitIs ==
    ASSUME NEW ms, CallsAreSequences(ms), NEW i \in 1..Len(ms), NEW q, q \in PassType, NEW r,
           r = Visit(ms, q, i)
    PROVE  VisitGives(ms, i, q, r)
<1> USE DEF VisitGives
<1>1. /\ ms[i].calls \in Seq(Nat) /\ Len(ms[i].calls) \in Nat /\ Range(ms[i].calls) \subseteq Nat
      /\ i \in Nat /\ q.next \in Nat /\ q.ok \in BOOLEAN /\ q.expected \subseteq Nat
  BY DEF CallsAreSequences, PassType, Range
<1>2. q = [next |-> q.next, expected |-> q.expected, ok |-> q.ok] BY DEF PassType
<1>3. CASE i < q.next BY <1>1, <1>3 DEF Visit
<1>4. CASE q.next <= i
  <2>1. ~(i < q.next) BY <1>1, <1>4
  <2>2. CASE ms[i].role = "user"
    <3>1. r = [next |-> i + 1, expected |-> q.expected, ok |-> q.ok]
      <4>1. r = [q EXCEPT !.next = i + 1] BY <2>1, <2>2 DEF Visit
      <4> QED BY <4>1, <1>2
    <3>2. r \in PassType BY <3>1, <1>1 DEF PassType
    <3>3. r.next = i + 1 /\ r.expected = q.expected /\ r.ok = q.ok BY <3>1
    <3>4. ms[i].role # "assistant" BY <2>2
    <3> QED BY <2>1, <2>2, <3>2, <3>3, <3>4
  <2>3. CASE ms[i].role = "assistant"
    <3> DEFINE good == q.ok /\ AllSound(ms, i, q.expected)
    <3>1. r = [next |-> i + Len(ms[i].calls) + 1, expected |-> q.expected \cup Range(ms[i].calls), ok |-> good]
      <4>1. ms[i].role # "user" BY <2>3
      <4> QED BY <2>1, <2>3, <4>1 DEF Visit, AllSound
    <3>2. r \in PassType
      <4>1. good \in BOOLEAN BY <1>1
      <4> HIDE DEF good
      <4> QED BY <3>1, <1>1, <4>1 DEF PassType
    <3>3. /\ r.next = i + Len(ms[i].calls) + 1 /\ r.expected = q.expected \cup Range(ms[i].calls)
          /\ r.ok = good
      <4> HIDE DEF good
      <4> QED BY <3>1
    <3>4. ms[i].role # "user" BY <2>3
    <3> QED BY <2>1, <2>3, <3>2, <3>3, <3>4 DEF AfterTaker
  <2>4. CASE ms[i].role # "user" /\ ms[i].role # "assistant"
    <3>1. r = [next |-> i + 1, expected |-> q.expected, ok |-> FALSE]
      <4>1. r = [q EXCEPT !.next = i + 1, !.ok = FALSE] BY <2>1, <2>4 DEF Visit
      <4> QED BY <4>1, <1>2
    <3>2. r \in PassType BY <3>1, <1>1 DEF PassType
    <3>3. r.next = i + 1 /\ r.expected = q.expected /\ r.ok = FALSE BY <3>1
    <3> QED BY <2>1, <2>4, <3>2, <3>3
  <2> QED BY <2>2, <2>3, <2>4
<1> QED BY <1>1, <1>3, <1>4

(* One more message keeps the facts.                                        *)
LEMMA PassStep ==
    ASSUME NEW ms, CallsAreSequences(ms), NEW p, PassOf(ms, p), NEW i \in 1..Len(ms), Len(ms) \in Nat,
           PassFacts(ms, p, i - 1)
    PROVE  PassFacts(ms, p, i)
<1>1. i \in Nat /\ i - 1 \in Nat /\ i >= 1 BY DEF CallsAreSequences
<1>2. /\ p[i - 1] \in PassType /\ p[i - 1].next \in Nat /\ p[i - 1].next >= i
      /\ p[i - 1].ok \in BOOLEAN
  BY <1>1 DEF PassFacts, PassType
<1>q. PICK q : q = p[i - 1] OBVIOUS
<1>r. PICK r : r = p[i] OBVIOUS
<1>3. r = Visit(ms, q, i) BY <1>q, <1>r DEF PassOf
<1>4. /\ r \in PassType
      /\ i < q.next => r = q
      /\ q.next <= i =>
           /\ r.next = (IF ms[i].role = "assistant" THEN AfterTaker(ms, i) ELSE i + 1)
           /\ r.ok <=> /\ q.ok
                       /\ \/ ms[i].role = "user"
                          \/ ms[i].role = "assistant" /\ AllSound(ms, i, q.expected)
           /\ r.expected = IF ms[i].role = "assistant" THEN q.expected \cup Range(ms[i].calls)
                           ELSE q.expected
  <2>1. q \in PassType BY <1>2, <1>q
  <2>2. VisitGives(ms, i, q, r) BY <1>3, <2>1, VisitIs
  <2> QED BY <2>2 DEF VisitGives
<1>5. r.next \in Nat /\ r.ok \in BOOLEAN BY <1>4 DEF PassType
<1>6. \A j \in 1..i : j = i \/ j \in 1..(i - 1) BY <1>1
<1>7. \A j \in 1..(i - 1) : j \in 1..i /\ j \in 1..Len(ms) BY <1>1
<1>8. i \in 1..i BY <1>1
<1>9. \A a \in 1..i : Len(ms[a].calls) \in Nat /\ AfterTaker(ms, a) \in Nat /\ AfterTaker(ms, a) > a
  BY <1>6, <1>7 DEF CallsAreSequences, AfterTaker
<1>10. /\ q.ok <=> GoodUpTo(ms, p, i - 1)
       /\ q.expected = KnownBy(ms, p, i - 1)
       /\ q.next # i => \E a \in 1..(i - 1) : Taker(ms, p, a) /\ q.next = AfterTaker(ms, a)
       /\ \A a \in 1..(i - 1) : Taker(ms, p, a) => q.next >= AfterTaker(ms, a)
  BY <1>1, <1>q DEF PassFacts
<1>11. Visited(p, i) <=> q.next <= i BY <1>q DEF Visited
<1>12. CASE i < q.next
  <2>1. r = q /\ ~Visited(p, i) /\ ~Taker(ms, p, i)
    <3>1. q.next \in Nat BY <1>2, <1>q
    <3> QED BY <1>1, <1>4, <1>11, <1>12, <3>1 DEF Taker
  <2>2. r.next > i BY <1>12, <2>1
  <2>3. GoodUpTo(ms, p, i) <=> GoodUpTo(ms, p, i - 1) BY <1>6, <1>7, <2>1, Zenon DEF GoodUpTo
  <2>4. KnownBy(ms, p, i) = KnownBy(ms, p, i - 1) BY <1>6, <1>7, <2>1, Zenon DEF KnownBy
  <2>5. \E a \in 1..i : Taker(ms, p, a) /\ r.next = AfterTaker(ms, a)
    <3>1. q.next # i BY <1>12, <1>1
    <3> QED BY <1>7, <1>10, <2>1, <3>1, Zenon
  <2>6. \A a \in 1..i : Taker(ms, p, a) => r.next >= AfterTaker(ms, a)
    BY <1>6, <1>10, <2>1
  <2>7. r.ok <=> GoodUpTo(ms, p, i) BY <1>10, <2>1, <2>3
  <2>8. r.expected = KnownBy(ms, p, i) BY <1>10, <2>1, <2>4
  <2> QED BY <1>4, <2>2, <2>5, <2>6, <2>7, <2>8, <1>r DEF PassFacts
<1>13. CASE ~(i < q.next)
  <2>1. q.next <= i /\ q.next = i
    <3>1. q.next \in Nat /\ q.next >= i BY <1>2, <1>q
    <3> QED BY <1>1, <1>13, <3>1
  <2>2. Visited(p, i) BY <1>11, <2>1
  <2>3. r.next = (IF ms[i].role = "assistant" THEN AfterTaker(ms, i) ELSE i + 1)
    BY <1>4, <2>1
  <2>4. Taker(ms, p, i) <=> ms[i].role = "assistant" BY <2>2 DEF Taker
  <2>5. r.next > i BY <1>1, <1>8, <1>9, <2>3
  <2>6. r.ok <=> q.ok /\ Good(ms, p, i) BY <1>4, <1>q, <2>1 DEF Good
  <2>7. GoodUpTo(ms, p, i) <=> GoodUpTo(ms, p, i - 1) /\ Good(ms, p, i)
    BY <1>6, <1>7, <1>8, <2>2, Zenon DEF GoodUpTo
  <2>8. r.ok <=> GoodUpTo(ms, p, i) BY <1>10, <2>6, <2>7
  <2>9. r.expected = KnownBy(ms, p, i)
    <3>1. CASE ms[i].role = "assistant"
      <4>1. r.expected = q.expected \cup Range(ms[i].calls) BY <1>4, <2>1, <3>1
      <4>2. Range(ms[i].calls) \subseteq Nat BY DEF CallsAreSequences, Range
      <4>3. KnownBy(ms, p, i) = KnownBy(ms, p, i - 1) \cup Range(ms[i].calls)
        BY <1>6, <1>7, <1>8, <2>4, <3>1, <4>2, Zenon DEF KnownBy
      <4> QED BY <1>10, <4>1, <4>3
    <3>2. CASE ms[i].role # "assistant"
      <4>1. r.expected = q.expected BY <1>4, <2>1, <3>2
      <4>2. KnownBy(ms, p, i) = KnownBy(ms, p, i - 1)
        BY <1>6, <1>7, <2>4, <3>2, Zenon DEF KnownBy
      <4> QED BY <1>10, <4>1, <4>2
    <3> QED BY <3>1, <3>2
  <2>10. r.next # i + 1 => \E a \in 1..i : Taker(ms, p, a) /\ r.next = AfterTaker(ms, a)
    BY <1>8, <2>3, <2>4
  <2>11. \A a \in 1..i : Taker(ms, p, a) => r.next >= AfterTaker(ms, a)
    <3> SUFFICES ASSUME NEW a \in 1..i, Taker(ms, p, a) PROVE r.next >= AfterTaker(ms, a)
      OBVIOUS
    <3>1. CASE a = i BY <1>9, <2>3, <2>4, <3>1
    <3>2. CASE a # i
      <4>1. q.next >= AfterTaker(ms, a) BY <1>6, <1>10, <3>2
      <4>2. AfterTaker(ms, a) \in Nat BY <1>9
      <4> QED BY <1>1, <1>5, <2>1, <2>5, <4>1, <4>2
    <3> QED BY <3>1, <3>2
  <2> QED BY <1>4, <2>5, <2>8, <2>9, <2>10, <2>11, <1>r DEF PassFacts
<1> QED BY <1>12, <1>13

(* The facts hold all along the pass.                                       *)
LEMMA PassFactsHold ==
    ASSUME NEW ms, CallsAreSequences(ms), NEW p, PassOf(ms, p), Len(ms) \in Nat
    PROVE  \A i \in 0..Len(ms) : PassFacts(ms, p, i)
<1> DEFINE Bad == {i \in 0..Len(ms) : ~PassFacts(ms, p, i)}
<1> SUFFICES ASSUME Bad # {} PROVE FALSE OBVIOUS
<1>1. PICK i \in Bad : \A j \in Bad : i <= j
  <2>1. Bad \subseteq Nat OBVIOUS
  <2> HIDE DEF Bad
  <2> QED BY <2>1, MinIsLeast
<1>2. i \in 0..Len(ms) /\ i \in Nat /\ ~PassFacts(ms, p, i) BY <1>1
<1>3. CASE i = 0
  <2>1. p[0] = [next |-> 1, expected |-> {}, ok |-> TRUE] BY DEF PassOf
  <2>2. p[0] \in PassType /\ p[0].next = 1 /\ p[0].expected = {} /\ p[0].ok = TRUE
    BY <2>1 DEF PassType
  <2>3. \A a \in 1..0 : FALSE OBVIOUS
  <2>4. GoodUpTo(ms, p, 0) /\ KnownBy(ms, p, 0) = {} BY <2>3 DEF GoodUpTo, KnownBy
  <2>5. PassFacts(ms, p, 0) BY <2>2, <2>3, <2>4 DEF PassFacts
  <2> QED BY <1>2, <1>3, <2>5
<1>4. CASE i # 0
  <2>1. i \in 1..Len(ms) /\ i - 1 \in 0..Len(ms) /\ ~(i <= i - 1) BY <1>2, <1>4
  <2>2. i - 1 \notin Bad
    <3> HIDE DEF Bad
    <3> QED BY <1>1, <2>1
  <2>3. PassFacts(ms, p, i - 1) BY <2>1, <2>2
  <2>4. PassFacts(ms, p, i) BY <2>1, <2>3, PassStep
  <2> QED BY <1>2, <2>4
<1> QED BY <1>3, <1>4

(* A sequence of messages whose calls are sequences of ids.                 *)
MessageSeq(ms) == DOMAIN ms = 1..Len(ms) /\ Len(ms) \in Nat /\ CallsAreSequences(ms)

(* Message a calls for the k-th time; that call is answered in its place;    *)
(* no other call bears its id.                                              *)
IsCall(ms, a, k) ==
    a \in 1..Len(ms) /\ k \in 1..Len(ms) /\ k \in DOMAIN ms[a].calls /\ ms[a].role = "assistant"
IsAnswered(ms, a, k) ==
    /\ ms[a].calls[k] # BlankId
    /\ a + k \in 1..Len(ms) /\ ms[a + k].role = "tool" /\ ms[a + k].answers = ms[a].calls[k]
SameCall(ms, a, k, b, l) == ms[a].calls[k] = ms[b].calls[l] => a = b /\ k = l
RoleIsKnown(m) == m.role \in {"user", "assistant", "tool"}
IsAnAnswer(ms, i) == ReadableContent(ms[i]) /\ \E a, k \in 1..Len(ms) : IsCall(ms, a, k) /\ a + k = i

(* Well-formedness, said of messages and positions instead of pairs.        *)
WellFormedAt(ms) ==
    /\ \A i \in 1..Len(ms) : RoleIsKnown(ms[i]) /\ (ms[i].role = "tool" => IsAnAnswer(ms, i))
    /\ \A a, k \in 1..Len(ms) : IsCall(ms, a, k) => IsAnswered(ms, a, k)
    /\ \A a, k, b, l \in 1..Len(ms) :
          IsCall(ms, a, k) /\ IsCall(ms, b, l) => SameCall(ms, a, k, b, l)

(* The two ways of saying it agree.                                         *)
LEMMA WellFormedIs ==
    ASSUME NEW ms, MessageSeq(ms)
    PROVE  WellFormed(ms) <=> WellFormedAt(ms)
<1> DEFINE N == Len(ms)
           Calls == {c \in (DOMAIN ms) \X (1..Len(ms)) : /\ ms[c[1]].role = "assistant"
                                                        /\ c[2] \in DOMAIN ms[c[1]].calls}
           One == \A i \in DOMAIN ms :
                    /\ ms[i].role \in {"user", "assistant", "tool"}
                    /\ ms[i].role = "tool" =>
                         ReadableContent(ms[i]) /\ \E c \in Calls : c[1] + c[2] = i
           Two == \A c \in Calls :
                    /\ ms[c[1]].calls[c[2]] # BlankId
                    /\ c[1] + c[2] \in DOMAIN ms /\ ms[c[1] + c[2]].role = "tool"
                    /\ ms[c[1] + c[2]].answers = ms[c[1]].calls[c[2]]
           Three == \A c, d \in Calls : ms[c[1]].calls[c[2]] = ms[d[1]].calls[d[2]] => c = d
<1>1. WellFormed(ms) <=> One /\ Two /\ Three BY DEF WellFormed
<1>2. DOMAIN ms = 1..N BY DEF MessageSeq
<1>3. \A c \in Calls : c = <<c[1], c[2]>> /\ c[1] \in 1..N /\ c[2] \in 1..N /\ IsCall(ms, c[1], c[2])
  BY <1>2 DEF IsCall
<1>4. \A a, k \in 1..N : IsCall(ms, a, k) => <<a, k>> \in Calls
  BY <1>2 DEF IsCall
<1> HIDE DEF Calls
<1>5. One <=> \A i \in 1..N : RoleIsKnown(ms[i]) /\ (ms[i].role = "tool" => IsAnAnswer(ms, i))
  <2>1. \A i : (\E c \in Calls : c[1] + c[2] = i) <=> \E a, k \in 1..N : IsCall(ms, a, k) /\ a + k = i
    <3> SUFFICES ASSUME NEW i
                 PROVE (\E c \in Calls : c[1] + c[2] = i)
                         <=> \E a, k \in 1..N : IsCall(ms, a, k) /\ a + k = i
      OBVIOUS
    <3>1. ASSUME NEW c \in Calls, c[1] + c[2] = i
          PROVE \E a, k \in 1..N : IsCall(ms, a, k) /\ a + k = i
      BY <1>3, <3>1, Zenon
    <3>2. ASSUME NEW a \in 1..N, NEW k \in 1..N, IsCall(ms, a, k), a + k = i
          PROVE \E c \in Calls : c[1] + c[2] = i
      <4>1. PICK c : c = <<a, k>> OBVIOUS
      <4>2. c[1] = a /\ c[2] = k /\ c \in Calls BY <1>4, <3>2, <4>1
      <4> QED BY <3>2, <4>2
    <3> QED BY <3>1, <3>2, Zenon
  <2>2. \A i : IsAnAnswer(ms, i) <=> ReadableContent(ms[i]) /\ \E c \in Calls : c[1] + c[2] = i
    BY <2>1, Zenon DEF IsAnAnswer
  <2> QED BY <1>2, <2>2, Zenon DEF RoleIsKnown
<1>6. Two <=> \A a, k \in 1..N : IsCall(ms, a, k) => IsAnswered(ms, a, k)
  <2>1. Two <=> \A c \in Calls : IsAnswered(ms, c[1], c[2]) BY <1>2, Zenon DEF IsAnswered
  <2>2. ASSUME \A c \in Calls : IsAnswered(ms, c[1], c[2]), NEW a \in 1..N, NEW k \in 1..N, IsCall(ms, a, k)
        PROVE IsAnswered(ms, a, k)
    <3>1. PICK c : c = <<a, k>> OBVIOUS
    <3>2. c[1] = a /\ c[2] = k /\ c \in Calls BY <1>4, <2>2, <3>1
    <3>3. IsAnswered(ms, c[1], c[2]) BY <2>2, <3>2, Zenon
    <3> QED BY <3>2, <3>3, Zenon
  <2>3. ASSUME \A a, k \in 1..N : IsCall(ms, a, k) => IsAnswered(ms, a, k), NEW c \in Calls
        PROVE IsAnswered(ms, c[1], c[2])
    BY <1>3, <2>3, Zenon
  <2> HIDE DEF Two
  <2> QED BY <2>1, <2>2, <2>3, Zenon
<1>7. Three <=> \A a, k, b, l \in 1..N :
                  IsCall(ms, a, k) /\ IsCall(ms, b, l) => SameCall(ms, a, k, b, l)
  <2>1. ASSUME Three, NEW a \in 1..N, NEW k \in 1..N, NEW b \in 1..N, NEW l \in 1..N,
               IsCall(ms, a, k), IsCall(ms, b, l), ms[a].calls[k] = ms[b].calls[l]
        PROVE a = b /\ k = l
    <3>1. PICK c, d : c = <<a, k>> /\ d = <<b, l>> OBVIOUS
    <3>2. c[1] = a /\ c[2] = k /\ c \in Calls /\ d[1] = b /\ d[2] = l /\ d \in Calls
      BY <1>4, <2>1, <3>1
    <3>3. c = d BY <2>1, <3>2
    <3> QED BY <3>2, <3>3, Zenon
  <2>2. ASSUME \A a, k, b, l \in 1..N :
                  IsCall(ms, a, k) /\ IsCall(ms, b, l) => SameCall(ms, a, k, b, l),
               NEW c \in Calls, NEW d \in Calls, ms[c[1]].calls[c[2]] = ms[d[1]].calls[d[2]]
        PROVE c = d
    <3>1. c[1] = d[1] /\ c[2] = d[2]
      <4>1. PICK a, k, b, l : a = c[1] /\ k = c[2] /\ b = d[1] /\ l = d[2] OBVIOUS
      <4>2. a \in 1..N /\ k \in 1..N /\ b \in 1..N /\ l \in 1..N BY <1>3, <4>1
      <4>3. IsCall(ms, a, k) /\ IsCall(ms, b, l) BY <1>3, <4>1
      <4>4. SameCall(ms, a, k, b, l) BY <2>2, <4>2, <4>3
      <4> QED BY <2>2, <4>1, <4>4 DEF SameCall
    <3>2. c = <<c[1], c[2]>> /\ d = <<d[1], d[2]>> BY <1>3
    <3> QED BY <3>1, <3>2, Zenon
  <2> QED BY <2>1, <2>2, Zenon DEF SameCall
<1> HIDE DEF One, Two, Three
<1> QED BY <1>1, <1>5, <1>6, <1>7, Zenon DEF WellFormedAt

(* In a well-formed transcript no message has more calls than there are     *)
(* messages, so every call of an assistant is one of its calls.             *)
LEMMA CallsFit ==
    ASSUME NEW ms, MessageSeq(ms), WellFormedAt(ms)
    PROVE  \A a \in 1..Len(ms) : \A k \in DOMAIN ms[a].calls :
              ms[a].role = "assistant" => k \in 1..Len(ms) /\ IsCall(ms, a, k)
<1> DEFINE N == Len(ms)
<1> SUFFICES ASSUME NEW a \in 1..N, NEW k \in DOMAIN ms[a].calls, ms[a].role = "assistant"
             PROVE k \in 1..N /\ IsCall(ms, a, k)
  OBVIOUS
<1>1. /\ N \in Nat /\ a \in Nat /\ a >= 1 /\ Len(ms[a].calls) \in Nat
      /\ DOMAIN ms[a].calls = 1..Len(ms[a].calls)
  BY DEF MessageSeq, CallsAreSequences
<1>2. k \in Nat /\ k >= 1 /\ k <= Len(ms[a].calls) BY <1>1
<1>3. N \in 1..N BY <1>1
<1>4. ~(N <= Len(ms[a].calls))
  <2> SUFFICES ASSUME N <= Len(ms[a].calls) PROVE FALSE OBVIOUS
  <2>1. N \in DOMAIN ms[a].calls BY <1>1, <1>3
  <2>2. IsCall(ms, a, N) BY <1>3, <2>1 DEF IsCall
  <2>3. a + N \in 1..N BY <1>3, <2>2 DEF WellFormedAt, IsAnswered
  <2> QED BY <1>1, <2>3
<1>5. k \in 1..N BY <1>1, <1>2, <1>4
<1> QED BY <1>5 DEF IsCall

(* The one pass accepts exactly the well-formed transcripts: of any length,  *)
(* with any calls, whoever wrote them.                                      *)
THEOREM ValidatorExact ==
    ASSUME NEW ms, MessageSeq(ms)
    PROVE  ValidateMessages(ms) <=> WellFormed(ms)
<1> DEFINE N == Len(ms)
<1>1. N \in Nat /\ CallsAreSequences(ms) BY DEF MessageSeq
<1>2. PICK p : PassOf(ms, p) /\ (ValidateMessages(ms) = p[N].ok) BY <1>1, PassIs
<1>3. \A i \in 0..N : PassFacts(ms, p, i) BY <1>1, <1>2, PassFactsHold
<1>4. ValidateMessages(ms) <=> GoodUpTo(ms, p, N)
  <2>1. N \in 0..N BY <1>1
  <2>2. p[N].ok <=> GoodUpTo(ms, p, N) BY <1>3, <2>1 DEF PassFacts
  <2> QED BY <1>2, <2>2
<1>5. \A j \in 1..N : /\ j \in Nat /\ j - 1 \in 0..N /\ j - 1 \in Nat
                      /\ Len(ms[j].calls) \in Nat
                      /\ ms[j].calls \in Seq(Nat)
                      /\ DOMAIN ms[j].calls = 1..Len(ms[j].calls)
  BY <1>1 DEF CallsAreSequences
<1>6. \A j \in 1..N : /\ p[j - 1].next \in Nat
                      /\ p[j - 1].next # j => \E a \in 1..(j - 1) : Taker(ms, p, a) /\ p[j - 1].next = AfterTaker(ms, a)
                      /\ \A a \in 1..(j - 1) : Taker(ms, p, a) => p[j - 1].next >= AfterTaker(ms, a)
                      /\ p[j - 1].expected = KnownBy(ms, p, j - 1)
  <2> SUFFICES ASSUME NEW j \in 1..N
               PROVE  /\ p[j - 1].next \in Nat
                      /\ p[j - 1].next # j => \E a \in 1..(j - 1) : Taker(ms, p, a) /\ p[j - 1].next = AfterTaker(ms, a)
                      /\ \A a \in 1..(j - 1) : Taker(ms, p, a) => p[j - 1].next >= AfterTaker(ms, a)
                      /\ p[j - 1].expected = KnownBy(ms, p, j - 1)
    OBVIOUS
  <2>1. j - 1 \in 0..N /\ (j - 1) + 1 = j BY <1>5
  <2>2. PassFacts(ms, p, j - 1) BY <1>3, <2>1
  <2> QED BY <2>1, <2>2 DEF PassFacts, PassType
<1>7. \A j \in 1..N : ~Visited(p, j) => \E a \in 1..N : \E k \in 1..N :
                         Taker(ms, p, a) /\ k \in DOMAIN ms[a].calls /\ a + k = j
  <2> SUFFICES ASSUME NEW j \in 1..N, ~Visited(p, j)
               PROVE \E a \in 1..N : \E k \in 1..N : Taker(ms, p, a) /\ k \in DOMAIN ms[a].calls /\ a + k = j
    OBVIOUS
  <2>1. p[j - 1].next > j BY <1>5, <1>6 DEF Visited
  <2>2. PICK a \in 1..(j - 1) : Taker(ms, p, a) /\ p[j - 1].next = AfterTaker(ms, a)
    <3>1. p[j - 1].next # j BY <1>5, <2>1
    <3> QED BY <1>6, <3>1
  <2>3. a \in 1..N /\ j - a \in 1..N BY <1>1, <1>5
  <2>4. j - a \in 1..Len(ms[a].calls)
    <3>1. j < a + Len(ms[a].calls) + 1 BY <2>1, <2>2 DEF AfterTaker
    <3>2. Len(ms[a].calls) \in Nat BY <1>5, <2>3
    <3> QED BY <1>5, <2>3, <3>1, <3>2
  <2>5. j - a \in DOMAIN ms[a].calls BY <1>5, <2>3, <2>4
  <2>6. a + (j - a) = j BY <1>5, <2>3
  <2> QED BY <2>2, <2>3, <2>5, <2>6
<1>8. \A a \in 1..N : Taker(ms, p, a) <=> Visited(p, a) /\ ms[a].role = "assistant" BY DEF Taker
<1>9. \A a, b \in 1..N : \A k \in DOMAIN ms[a].calls : a < b /\ Taker(ms, p, a) => ms[a].calls[k] \in p[b - 1].expected
  <2> SUFFICES ASSUME NEW a \in 1..N, NEW b \in 1..N, NEW k \in DOMAIN ms[a].calls, a < b, Taker(ms, p, a)
               PROVE ms[a].calls[k] \in p[b - 1].expected
    OBVIOUS
  <2>1. a \in 1..(b - 1) BY <1>5
  <2>2. ms[a].calls[k] \in Range(ms[a].calls) /\ ms[a].calls[k] \in Nat
    BY <1>5 DEF Range
  <2>3. ms[a].calls[k] \in KnownBy(ms, p, b - 1) BY <2>1, <2>2 DEF KnownBy
  <2> QED BY <1>6, <2>3
<1>10. ASSUME GoodUpTo(ms, p, N) PROVE WellFormedAt(ms)
  <2>1. \A j \in 1..N : Visited(p, j) => Good(ms, p, j) BY <1>10 DEF GoodUpTo
  <2>2. \A a \in 1..N : \A k \in DOMAIN ms[a].calls : Taker(ms, p, a) => CallSound(ms, a, k, p[a - 1].expected)
    <3> SUFFICES ASSUME NEW a \in 1..N, NEW k \in DOMAIN ms[a].calls, Taker(ms, p, a)
                 PROVE CallSound(ms, a, k, p[a - 1].expected)
      OBVIOUS
    <3>1. Good(ms, p, a) /\ ms[a].role = "assistant" BY <1>8, <2>1
    <3>2. AllSound(ms, a, p[a - 1].expected) BY <3>1 DEF Good
    <3> QED BY <3>2 DEF AllSound
  <2>3. \A a \in 1..N : \A k \in DOMAIN ms[a].calls :
           Taker(ms, p, a) => k \in 1..N /\ IsCall(ms, a, k) /\ IsAnswered(ms, a, k) /\ ReadableContent(ms[a + k])
    <3> SUFFICES ASSUME NEW a \in 1..N, NEW k \in DOMAIN ms[a].calls, Taker(ms, p, a)
                 PROVE k \in 1..N /\ IsCall(ms, a, k) /\ IsAnswered(ms, a, k) /\ ReadableContent(ms[a + k])
      OBVIOUS
    <3>1. ms[a].calls[k] # BlankId /\ AnsweredAt(ms, a, k) BY <2>2 DEF CallSound
    <3>2. k \in Nat /\ k >= 1 BY <1>5
    <3>3. a + k <= N /\ ms[a + k].role = "tool" /\ ms[a + k].answers = ms[a].calls[k] /\ ReadableContent(ms[a + k])
      BY <3>1 DEF AnsweredAt
    <3>4. k \in 1..N /\ a + k \in 1..N BY <1>1, <1>5, <3>2, <3>3
    <3> QED BY <1>8, <3>1, <3>3, <3>4 DEF IsCall, IsAnswered
  <2>4. \A j \in 1..N : ~Visited(p, j) => ms[j].role = "tool" /\ IsAnAnswer(ms, j)
    <3> SUFFICES ASSUME NEW j \in 1..N, ~Visited(p, j) PROVE ms[j].role = "tool" /\ IsAnAnswer(ms, j)
      OBVIOUS
    <3>1. PICK a \in 1..N, k \in 1..N : Taker(ms, p, a) /\ k \in DOMAIN ms[a].calls /\ a + k = j
      BY <1>7
    <3>2. IsCall(ms, a, k) /\ IsAnswered(ms, a, k) /\ ReadableContent(ms[j]) BY <2>3, <3>1
    <3> QED BY <3>1, <3>2 DEF IsAnswered, IsAnAnswer
  <2>5. \A j \in 1..N : Visited(p, j) => ms[j].role \in {"user", "assistant"} BY <2>1 DEF Good
  <2>6. \A j \in 1..N : RoleIsKnown(ms[j]) /\ (ms[j].role = "tool" => IsAnAnswer(ms, j))
    BY <2>4, <2>5 DEF RoleIsKnown
  <2>7. \A a \in 1..N : ms[a].role = "assistant" => Taker(ms, p, a) BY <1>8, <2>4
  <2>8. \A a, k \in 1..N : IsCall(ms, a, k) => IsAnswered(ms, a, k) /\ Taker(ms, p, a) /\ k \in DOMAIN ms[a].calls
    BY <2>3, <2>7 DEF IsCall
  <2>9. \A a, k, b, l \in 1..N : IsCall(ms, a, k) /\ IsCall(ms, b, l) => SameCall(ms, a, k, b, l)
    <3>1. ASSUME NEW a \in 1..N, NEW b \in 1..N, NEW k \in DOMAIN ms[a].calls, NEW l \in DOMAIN ms[b].calls,
                 Taker(ms, p, a), Taker(ms, p, b), a < b
          PROVE  ms[a].calls[k] # ms[b].calls[l]
      <4>1. ms[a].calls[k] \in p[b - 1].expected BY <1>9, <3>1
      <4>2. ms[b].calls[l] \notin p[b - 1].expected BY <2>2, <3>1 DEF CallSound
      <4> QED BY <4>1, <4>2
    <3>2. ASSUME NEW a \in 1..N, NEW k \in DOMAIN ms[a].calls, NEW l \in DOMAIN ms[a].calls,
                 Taker(ms, p, a), l < k
          PROVE  ms[a].calls[k] # ms[a].calls[l]
      <4>1. \A m \in 1..(k - 1) : ms[a].calls[m] # ms[a].calls[k] BY <2>2, <3>2 DEF CallSound
      <4>2. l \in 1..(k - 1) BY <1>5, <3>2
      <4> QED BY <4>1, <4>2
    <3> SUFFICES ASSUME NEW a \in 1..N, NEW k \in 1..N, NEW b \in 1..N, NEW l \in 1..N,
                        IsCall(ms, a, k), IsCall(ms, b, l), ms[a].calls[k] = ms[b].calls[l]
                 PROVE a = b /\ k = l
      BY Zenon DEF SameCall
    <3>3. Taker(ms, p, a) /\ Taker(ms, p, b) /\ k \in DOMAIN ms[a].calls /\ l \in DOMAIN ms[b].calls
      BY <2>8
    <3>4. ~(a < b) BY <3>1, <3>3
    <3>5. ~(b < a) BY <3>1, <3>3
    <3>6. a = b BY <1>5, <3>4, <3>5
    <3>7. ~(l < k) /\ ~(k < l) BY <3>2, <3>3, <3>6
    <3>8. k = l BY <1>5, <3>7
    <3> QED BY <3>6, <3>8
  <2> QED BY <2>6, <2>8, <2>9, Zenon DEF WellFormedAt
<1>11. ASSUME WellFormedAt(ms) PROVE GoodUpTo(ms, p, N)
  <2>1. \A a \in 1..N : \A k \in DOMAIN ms[a].calls : ms[a].role = "assistant" => k \in 1..N /\ IsCall(ms, a, k)
    BY <1>11, CallsFit
  <2>2. \A j \in 1..N : ms[j].role = "tool" => ~Visited(p, j)
    <3> SUFFICES ASSUME NEW j \in 1..N, ms[j].role = "tool", Visited(p, j) PROVE FALSE OBVIOUS
    <3>1. PICK a \in 1..N, k \in 1..N : IsCall(ms, a, k) /\ a + k = j
      BY <1>11 DEF WellFormedAt, IsAnAnswer
    <3>2. ms[a].role = "assistant" /\ k \in DOMAIN ms[a].calls BY <3>1 DEF IsCall
    <3>3. CASE Visited(p, a)
      <4>1. Taker(ms, p, a) BY <1>8, <3>2, <3>3
      <4>2. a \in 1..(j - 1) /\ AfterTaker(ms, a) > j
        BY <1>5, <3>1, <3>2 DEF AfterTaker
      <4>3. p[j - 1].next >= AfterTaker(ms, a) BY <1>6, <4>1, <4>2
      <4>4. p[j - 1].next <= j BY DEF Visited
      <4>5. AfterTaker(ms, a) \in Nat BY <1>5 DEF AfterTaker
      <4> QED BY <1>5, <1>6, <4>2, <4>3, <4>4, <4>5
    <3>4. CASE ~Visited(p, a)
      <4>1. PICK b \in 1..N, l \in 1..N : Taker(ms, p, b) /\ l \in DOMAIN ms[b].calls /\ b + l = a
        BY <1>7, <3>4
      <4>2. IsCall(ms, b, l) BY <1>8, <2>1, <4>1
      <4>3. ms[b + l].role = "tool" BY <1>11, <4>2 DEF WellFormedAt, IsAnswered
      <4> QED BY <3>2, <4>1, <4>3
    <3> QED BY <3>3, <3>4
  <2>3. \A j \in 1..N : Visited(p, j) /\ ms[j].role = "assistant" => AllSound(ms, j, p[j - 1].expected)
    <3> SUFFICES ASSUME NEW j \in 1..N, Visited(p, j), ms[j].role = "assistant", NEW k \in DOMAIN ms[j].calls
                 PROVE CallSound(ms, j, k, p[j - 1].expected)
      BY DEF AllSound
    <3>1. k \in 1..N /\ IsCall(ms, j, k) BY <2>1
    <3>2. IsAnswered(ms, j, k) BY <1>11, <3>1 DEF WellFormedAt
    <3>3. ReadableContent(ms[j + k])
      BY <1>11, <3>2 DEF WellFormedAt, IsAnswered, IsAnAnswer
    <3>4. AnsweredAt(ms, j, k)
      <4>1. j + k <= N BY <3>2 DEF IsAnswered
      <4> QED BY <3>2, <3>3, <4>1 DEF AnsweredAt, IsAnswered
    <3>5. ms[j].calls[k] \notin p[j - 1].expected
      <4> SUFFICES ASSUME ms[j].calls[k] \in p[j - 1].expected PROVE FALSE OBVIOUS
      <4>1. PICK a \in 1..(j - 1) : Taker(ms, p, a) /\ ms[j].calls[k] \in Range(ms[a].calls)
        BY <1>6 DEF KnownBy
      <4>2. PICK l \in DOMAIN ms[a].calls : ms[a].calls[l] = ms[j].calls[k] BY <4>1 DEF Range
      <4>3. a \in 1..N /\ a # j BY <1>5
      <4>4. l \in 1..N /\ IsCall(ms, a, l) BY <1>8, <2>1, <4>1, <4>3
      <4>5. SameCall(ms, a, l, j, k) BY <1>11, <3>1, <4>3, <4>4 DEF WellFormedAt
      <4> QED BY <4>2, <4>3, <4>5 DEF SameCall
    <3>6. \A l \in 1..(k - 1) : ms[j].calls[l] # ms[j].calls[k]
      <4> SUFFICES ASSUME NEW l \in 1..(k - 1), ms[j].calls[l] = ms[j].calls[k] PROVE FALSE OBVIOUS
      <4>1. l \in DOMAIN ms[j].calls /\ l # k BY <1>5
      <4>2. l \in 1..N /\ IsCall(ms, j, l) BY <2>1, <4>1
      <4>3. SameCall(ms, j, l, j, k) BY <1>11, <3>1, <4>2 DEF WellFormedAt
      <4> QED BY <4>1, <4>3 DEF SameCall
    <3> QED BY <3>2, <3>4, <3>5, <3>6 DEF CallSound, IsAnswered
  <2>4. \A j \in 1..N : RoleIsKnown(ms[j]) BY <1>11 DEF WellFormedAt
  <2> QED BY <2>2, <2>3, <2>4 DEF GoodUpTo, Good, RoleIsKnown
<1> QED BY <1>4, <1>10, <1>11, WellFormedIs

-----------------------------------------------------------------------------
(* Transcripts one after another, and the rest of one.                      *)

(* One transcript after another; the ids of the calls of one.               *)
Joins(a, b, c) ==
    /\ Len(c) = Len(a) + Len(b) /\ DOMAIN c = 1..Len(c)
    /\ \A i \in 1..Len(a) : c[i] = a[i]
    /\ \A i \in 1..Len(b) : c[Len(a) + i] = b[i]
IdsOf(ms) == UNION {Range(ms[i].calls) : i \in 1..Len(ms)}

(* Every position of the joined transcript is one of the first's or of the  *)
(* second's.                                                                *)
LEMMA JoinedPositions ==
    ASSUME NEW a, NEW b, NEW c, MessageSeq(a), MessageSeq(b), Joins(a, b, c)
    PROVE  /\ MessageSeq(c) /\ IdsOf(c) = IdsOf(a) \cup IdsOf(b)
           /\ \A i \in 1..Len(a) : i \in 1..Len(c) /\ c[i] = a[i]
           /\ \A i \in 1..Len(b) : Len(a) + i \in 1..Len(c) /\ c[Len(a) + i] = b[i]
           /\ \A j \in 1..Len(c) : j \in 1..Len(a) \/ \E i \in 1..Len(b) : j = Len(a) + i
<1>1. Len(a) \in Nat /\ Len(b) \in Nat /\ Len(c) = Len(a) + Len(b) /\ Len(c) \in Nat
  BY DEF MessageSeq, Joins
<1>2. \A i \in 1..Len(a) : i \in 1..Len(c) /\ c[i] = a[i] BY <1>1 DEF Joins
<1>3. \A i \in 1..Len(b) : Len(a) + i \in 1..Len(c) /\ c[Len(a) + i] = b[i] BY <1>1 DEF Joins
<1>4. \A j \in 1..Len(c) : j \in 1..Len(a) \/ \E i \in 1..Len(b) : j = Len(a) + i
  <2> SUFFICES ASSUME NEW j \in 1..Len(c), j \notin 1..Len(a) PROVE \E i \in 1..Len(b) : j = Len(a) + i
    OBVIOUS
  <2>1. j - Len(a) \in 1..Len(b) /\ j = Len(a) + (j - Len(a)) BY <1>1
  <2> QED BY <2>1
<1>5. \A j \in 1..Len(c) : c[j].calls \in Seq(Nat)
  <2> SUFFICES ASSUME NEW j \in 1..Len(c) PROVE c[j].calls \in Seq(Nat) OBVIOUS
  <2>1. CASE j \in 1..Len(a) BY <1>2, <2>1 DEF MessageSeq, CallsAreSequences
  <2>2. CASE j \notin 1..Len(a)
    <3>1. PICK i \in 1..Len(b) : j = Len(a) + i BY <1>4, <2>2
    <3> QED BY <1>3, <3>1 DEF MessageSeq, CallsAreSequences
  <2> QED BY <2>1, <2>2
<1>6. MessageSeq(c) BY <1>1, <1>5 DEF MessageSeq, CallsAreSequences, Joins
<1>7. IdsOf(c) = IdsOf(a) \cup IdsOf(b)
  <2>1. \A id : id \in IdsOf(a) <=> \E i \in 1..Len(a) : id \in Range(a[i].calls) BY DEF IdsOf
  <2>2. \A id : id \in IdsOf(b) <=> \E i \in 1..Len(b) : id \in Range(b[i].calls) BY DEF IdsOf
  <2>3. \A id : id \in IdsOf(c) <=> \E i \in 1..Len(c) : id \in Range(c[i].calls) BY DEF IdsOf
  <2>4. \A id : (\E i \in 1..Len(c) : id \in Range(c[i].calls))
                  <=> \/ \E i \in 1..Len(a) : id \in Range(a[i].calls)
                      \/ \E i \in 1..Len(b) : id \in Range(b[i].calls)
    BY <1>2, <1>3, <1>4, Zenon
  <2> QED BY <2>1, <2>2, <2>3, <2>4, Zenon
<1> QED BY <1>2, <1>3, <1>4, <1>6, <1>7

(* Two well-formed transcripts with different call ids make one.            *)
LEMMA JoinedIsWellFormed ==
    ASSUME NEW a, NEW b, NEW c, MessageSeq(a), MessageSeq(b), Joins(a, b, c),
           WellFormedAt(a), WellFormedAt(b), IdsOf(a) \cap IdsOf(b) = {}
    PROVE  WellFormedAt(c)
<1> DEFINE M == Len(a)
           N == Len(c)
<1>1. /\ M \in Nat /\ Len(b) \in Nat /\ N = M + Len(b)
  BY DEF MessageSeq, Joins
<1>2. /\ MessageSeq(c)
      /\ \A i \in 1..M : i \in 1..N /\ c[i] = a[i]
      /\ \A i \in 1..Len(b) : M + i \in 1..N /\ c[M + i] = b[i]
      /\ \A j \in 1..N : j \in 1..M \/ \E i \in 1..Len(b) : j = M + i
  BY JoinedPositions
<1>3. \A x \in 1..M, k \in 1..N : IsCall(c, x, k) <=> k \in 1..M /\ IsCall(a, x, k)
  <2> SUFFICES ASSUME NEW x \in 1..M, NEW k \in 1..N
               PROVE IsCall(c, x, k) <=> k \in 1..M /\ IsCall(a, x, k)
    OBVIOUS
  <2>1. x \in 1..N /\ c[x] = a[x] BY <1>2
  <2>2. k \in DOMAIN a[x].calls /\ a[x].role = "assistant" => k \in 1..M BY CallsFit
  <2> QED BY <2>1, <2>2 DEF IsCall
<1>4. \A x \in 1..Len(b), k \in 1..N : IsCall(c, M + x, k) <=> k \in 1..Len(b) /\ IsCall(b, x, k)
  <2> SUFFICES ASSUME NEW x \in 1..Len(b), NEW k \in 1..N
               PROVE IsCall(c, M + x, k) <=> k \in 1..Len(b) /\ IsCall(b, x, k)
    OBVIOUS
  <2>1. M + x \in 1..N /\ c[M + x] = b[x] BY <1>2
  <2>2. k \in DOMAIN b[x].calls /\ b[x].role = "assistant" => k \in 1..Len(b) BY CallsFit
  <2> QED BY <2>1, <2>2 DEF IsCall
<1>5. ASSUME NEW i \in 1..N PROVE RoleIsKnown(c[i]) /\ (c[i].role = "tool" => IsAnAnswer(c, i))
  <2>1. CASE i \in 1..M
    <3>1. c[i] = a[i] /\ RoleIsKnown(c[i]) BY <1>2, <2>1 DEF WellFormedAt
    <3>2. ASSUME c[i].role = "tool" PROVE IsAnAnswer(c, i)
      <4>1. IsAnAnswer(a, i) BY <2>1, <3>1, <3>2 DEF WellFormedAt
      <4>2. PICK x \in 1..M, k \in 1..M : IsCall(a, x, k) /\ x + k = i BY <4>1 DEF IsAnAnswer
      <4>3. x \in 1..N /\ k \in 1..N BY <1>2
      <4>4. IsCall(c, x, k) BY <1>3, <4>2, <4>3
      <4> QED BY <3>1, <4>1, <4>2, <4>3, <4>4 DEF IsAnAnswer
    <3> QED BY <3>1, <3>2
  <2>2. CASE i \notin 1..M
    <3>1. PICK j \in 1..Len(b) : i = M + j BY <1>2, <2>2
    <3>2. c[i] = b[j] /\ RoleIsKnown(c[i]) BY <1>2, <3>1 DEF WellFormedAt
    <3>3. ASSUME c[i].role = "tool" PROVE IsAnAnswer(c, i)
      <4>1. IsAnAnswer(b, j) BY <3>2, <3>3 DEF WellFormedAt
      <4>2. PICK x \in 1..Len(b), k \in 1..Len(b) : IsCall(b, x, k) /\ x + k = j
        BY <4>1 DEF IsAnAnswer
      <4>3. M + x \in 1..N /\ k \in 1..N /\ (M + x) + k = i BY <1>1, <3>1, <4>2
      <4>4. IsCall(c, M + x, k) BY <1>4, <4>2, <4>3
      <4> QED BY <3>2, <4>1, <4>3, <4>4 DEF IsAnAnswer
    <3> QED BY <3>2, <3>3
  <2> QED BY <2>1, <2>2
<1>6. ASSUME NEW x \in 1..N, NEW k \in 1..N, IsCall(c, x, k) PROVE IsAnswered(c, x, k)
  <2>1. CASE x \in 1..M
    <3>1. k \in 1..M /\ IsCall(a, x, k) BY <1>3, <1>6, <2>1
    <3>2. IsAnswered(a, x, k) BY <2>1, <3>1 DEF WellFormedAt
    <3>3. x + k \in 1..M BY <3>2 DEF IsAnswered
    <3>4. c[x] = a[x] /\ c[x + k] = a[x + k] /\ x + k \in 1..N BY <1>2, <2>1, <3>3
    <3> QED BY <3>2, <3>4 DEF IsAnswered
  <2>2. CASE x \notin 1..M
    <3>1. PICK y \in 1..Len(b) : x = M + y BY <1>2, <2>2
    <3>2. k \in 1..Len(b) /\ IsCall(b, y, k) BY <1>4, <1>6, <3>1
    <3>3. IsAnswered(b, y, k) BY <3>2 DEF WellFormedAt
    <3>4. y + k \in 1..Len(b) BY <3>3 DEF IsAnswered
    <3>5. x + k = M + (y + k) BY <1>1, <3>1
    <3>6. c[x] = b[y] /\ c[x + k] = b[y + k] /\ x + k \in 1..N BY <1>2, <3>1, <3>4, <3>5
    <3> QED BY <3>3, <3>6 DEF IsAnswered
  <2> QED BY <2>1, <2>2
<1>7. ASSUME NEW x \in 1..N, NEW k \in 1..N, NEW y \in 1..N, NEW l \in 1..N,
             IsCall(c, x, k), IsCall(c, y, l), c[x].calls[k] = c[y].calls[l]
      PROVE  x = y /\ k = l
  <2>1. \A u \in 1..M, w \in 1..Len(b) : \A m \in DOMAIN a[u].calls, n \in DOMAIN b[w].calls :
           a[u].calls[m] # b[w].calls[n]
    <3> SUFFICES ASSUME NEW u \in 1..M, NEW w \in 1..Len(b),
                        NEW m \in DOMAIN a[u].calls, NEW n \in DOMAIN b[w].calls
                 PROVE a[u].calls[m] # b[w].calls[n]
      OBVIOUS
    <3>1. a[u].calls[m] \in Range(a[u].calls) /\ b[w].calls[n] \in Range(b[w].calls) BY DEF Range
    <3>2. a[u].calls[m] \in IdsOf(a) /\ b[w].calls[n] \in IdsOf(b) BY <3>1 DEF IdsOf
    <3> QED BY <3>2
  <2>2. k \in DOMAIN c[x].calls /\ l \in DOMAIN c[y].calls BY <1>7 DEF IsCall
  <2>3. CASE x \in 1..M /\ y \in 1..M
    <3>1. k \in 1..M /\ IsCall(a, x, k) /\ l \in 1..M /\ IsCall(a, y, l) BY <1>3, <1>7, <2>3
    <3>2. c[x] = a[x] /\ c[y] = a[y] BY <1>2, <2>3
    <3>3. SameCall(a, x, k, y, l) BY <2>3, <3>1 DEF WellFormedAt
    <3> QED BY <1>7, <3>2, <3>3 DEF SameCall
  <2>4. CASE x \in 1..M /\ y \notin 1..M
    <3>1. PICK w \in 1..Len(b) : y = M + w BY <1>2, <2>4
    <3>2. c[x] = a[x] /\ c[y] = b[w] BY <1>2, <2>4, <3>1
    <3>3. a[x].calls[k] # b[w].calls[l] BY <2>1, <2>2, <2>4, <3>2
    <3> QED BY <1>7, <3>2, <3>3
  <2>5. CASE x \notin 1..M /\ y \in 1..M
    <3>1. PICK w \in 1..Len(b) : x = M + w BY <1>2, <2>5
    <3>2. c[y] = a[y] /\ c[x] = b[w] BY <1>2, <2>5, <3>1
    <3>3. a[y].calls[l] # b[w].calls[k] BY <2>1, <2>2, <2>5, <3>2
    <3> QED BY <1>7, <3>2, <3>3
  <2>6. CASE x \notin 1..M /\ y \notin 1..M
    <3>1. PICK v \in 1..Len(b) : x = M + v BY <1>2, <2>6
    <3>2. PICK w \in 1..Len(b) : y = M + w BY <1>2, <2>6
    <3>3. c[x] = b[v] /\ c[y] = b[w] BY <1>2, <3>1, <3>2
    <3>4. k \in 1..Len(b) /\ IsCall(b, v, k) /\ l \in 1..Len(b) /\ IsCall(b, w, l)
      BY <1>4, <1>7, <3>1, <3>2
    <3>5. SameCall(b, v, k, w, l) BY <3>4 DEF WellFormedAt
    <3> QED BY <1>7, <3>1, <3>2, <3>3, <3>5 DEF SameCall
  <2> QED BY <2>3, <2>4, <2>5, <2>6
<1>8. \A x, k, y, l \in 1..N : IsCall(c, x, k) /\ IsCall(c, y, l) => SameCall(c, x, k, y, l)
  BY <1>7, Zenon DEF SameCall
<1> QED BY <1>5, <1>6, <1>8, Zenon DEF WellFormedAt

(* What follows a well-formed transcript's first part is well-formed itself, *)
(* unless it starts with a result.                                          *)
LEMMA RestIsWellFormed ==
    ASSUME NEW a, NEW b, NEW c, MessageSeq(a), MessageSeq(b), Joins(a, b, c), WellFormedAt(c),
           Len(b) = 0 \/ b[1].role # "tool"
    PROVE  WellFormedAt(b)
<1> DEFINE M == Len(a)
           N == Len(c)
<1>1. /\ M \in Nat /\ Len(b) \in Nat /\ N = M + Len(b)
  BY DEF MessageSeq, Joins
<1>2. /\ MessageSeq(c)
      /\ \A i \in 1..M : i \in 1..N /\ c[i] = a[i]
      /\ \A i \in 1..Len(b) : M + i \in 1..N /\ c[M + i] = b[i]
      /\ \A j \in 1..N : j \in 1..M \/ \E i \in 1..Len(b) : j = M + i
  BY JoinedPositions
<1>3. \A x, k \in 1..Len(b) : IsCall(b, x, k) => IsCall(c, M + x, k) /\ M + x \in 1..N /\ k \in 1..N
  <2> SUFFICES ASSUME NEW x \in 1..Len(b), NEW k \in 1..Len(b), IsCall(b, x, k)
               PROVE IsCall(c, M + x, k) /\ M + x \in 1..N /\ k \in 1..N
    OBVIOUS
  <2>1. M + x \in 1..N /\ c[M + x] = b[x] /\ k \in 1..N BY <1>1, <1>2
  <2> QED BY <2>1 DEF IsCall
<1>4. ASSUME NEW x \in 1..Len(b), NEW k \in 1..Len(b), IsCall(b, x, k) PROVE IsAnswered(b, x, k)
  <2>1. IsAnswered(c, M + x, k) BY <1>3, <1>4 DEF WellFormedAt
  <2>2. (M + x) + k \in 1..N BY <2>1 DEF IsAnswered
  <2>3. x + k \in 1..Len(b) /\ (M + x) + k = M + (x + k) BY <1>1, <2>2
  <2>4. c[M + x] = b[x] /\ c[(M + x) + k] = b[x + k] BY <1>2, <2>3
  <2> QED BY <2>1, <2>3, <2>4 DEF IsAnswered
<1>5. ASSUME NEW i \in 1..Len(b) PROVE RoleIsKnown(b[i]) /\ (b[i].role = "tool" => IsAnAnswer(b, i))
  <2>1. M + i \in 1..N /\ c[M + i] = b[i] BY <1>2
  <2>2. RoleIsKnown(b[i]) BY <2>1 DEF WellFormedAt
  <2>3. ASSUME b[i].role = "tool" PROVE IsAnAnswer(b, i)
    <3>1. IsAnAnswer(c, M + i) BY <2>1, <2>3 DEF WellFormedAt
    <3>2. PICK x \in 1..N, k \in 1..N : IsCall(c, x, k) /\ x + k = M + i BY <3>1 DEF IsAnAnswer
    <3>3. k \in DOMAIN c[x].calls /\ c[x].role = "assistant" BY <3>2 DEF IsCall
    <3>4. x \notin 1..M
      <4> SUFFICES ASSUME x \in 1..M PROVE FALSE OBVIOUS
      <4>1. b[1].role # "tool" /\ 1 \in 1..Len(b) /\ M + 1 \in 1..N /\ c[M + 1] = b[1] BY <1>1, <1>2
      <4>2. (M + 1) - x \in 1..k /\ x + ((M + 1) - x) = M + 1 /\ (M + 1) - x \in 1..N
        BY <1>1, <3>2
      <4>3. 1..k \subseteq DOMAIN c[x].calls
        <5>1. DOMAIN c[x].calls = 1..Len(c[x].calls) /\ Len(c[x].calls) \in Nat
          BY <1>2 DEF MessageSeq, CallsAreSequences
        <5> QED BY <3>3, <5>1
      <4>4. IsCall(c, x, (M + 1) - x) BY <3>3, <4>2, <4>3 DEF IsCall
      <4>5. IsAnswered(c, x, (M + 1) - x) BY <4>2, <4>4 DEF WellFormedAt
      <4>6. c[M + 1].role = "tool" BY <4>2, <4>5 DEF IsAnswered
      <4> QED BY <4>1, <4>6
    <3>5. PICK y \in 1..Len(b) : x = M + y BY <1>2, <3>4
    <3>6. c[x] = b[y] /\ k \in 1..Len(b) /\ y + k = i BY <1>1, <1>2, <3>2, <3>5
    <3>7. IsCall(b, y, k) BY <3>3, <3>6 DEF IsCall
    <3>8. ReadableContent(b[i]) BY <2>1, <3>1 DEF IsAnAnswer
    <3> QED BY <3>6, <3>7, <3>8 DEF IsAnAnswer
  <2> QED BY <2>2, <2>3
<1>6. ASSUME NEW x \in 1..Len(b), NEW k \in 1..Len(b), NEW y \in 1..Len(b), NEW l \in 1..Len(b),
             IsCall(b, x, k), IsCall(b, y, l)
      PROVE  SameCall(b, x, k, y, l)
  <2>1. /\ IsCall(c, M + x, k) /\ IsCall(c, M + y, l)
        /\ M + x \in 1..N /\ k \in 1..N /\ M + y \in 1..N /\ l \in 1..N
    BY <1>3, <1>6
  <2>2. SameCall(c, M + x, k, M + y, l) BY <2>1 DEF WellFormedAt
  <2>3. c[M + x] = b[x] /\ c[M + y] = b[y] BY <1>2
  <2>4. M + x = M + y => x = y BY <1>1
  <2> QED BY <2>2, <2>3, <2>4 DEF SameCall
<1> QED BY <1>4, <1>5, <1>6, Zenon DEF WellFormedAt

-----------------------------------------------------------------------------
(* What is written: messages of users, and rounds of calls with their        *)
(* results.                                                                *)

(* The messages the Agent writes: what there is of their fields.            *)
RoleNames == {"user", "assistant", "tool", "other"}
NothingSaid == ""
Sayings == {NothingSaid, "text", "summary", "attention", "cut", "control",
            "image", "picture", "unavailable", "omitted"}
MessageType == [role : RoleNames, says : Sayings, calls : Seq(Nat), answers : Nat, native : BOOLEAN]

(* What the three constructors of a message give.                           *)
IsUser(m, says) == m \in MessageType /\ m.role = "user" /\ m.calls = <<>> /\ m.says = says
IsAssistant(m, ids) == m \in MessageType /\ m.role = "assistant" /\ m.calls = ids
IsResult(m, id, says) ==
    /\ m \in MessageType /\ m.role = "tool" /\ m.calls = <<>>
    /\ m.answers = id /\ m.says = says

(* A user message says what it says and calls nothing.                      *)
LEMMA UserIs ==
    ASSUME NEW says, says \in Sayings
    PROVE  IsUser(User(says), says)
<1>1. PICK e : e = <<>> OBVIOUS
<1>2. User(says) = [role |-> "user", says |-> says, calls |-> e, answers |-> BlankId, native |-> FALSE]
  BY <1>1, Zenon DEF User, Message
<1>3. e \in Seq(Nat) /\ BlankId \in Nat BY <1>1 DEF BlankId
<1>4. User(says) \in MessageType BY <1>2, <1>3 DEF MessageType, RoleNames
<1>5. User(says).role = "user" /\ User(says).calls = e /\ User(says).says = says BY <1>2
<1> QED BY <1>1, <1>4, <1>5, Zenon DEF IsUser

(* An assistant message has the calls it is made with.                      *)
LEMMA AssistantIs ==
    ASSUME NEW says, says \in Sayings, NEW ids, ids \in Seq(Nat), NEW native, native \in BOOLEAN
    PROVE  IsAssistant(Assistant(ids, says, native), ids)
<1>1. PICK m : m = [role |-> "assistant", says |-> says, calls |-> ids, answers |-> BlankId, native |-> native]
  OBVIOUS
<1>2. Assistant(ids, says, native) = m BY <1>1, Zenon DEF Assistant
<1>3. BlankId \in Nat BY DEF BlankId
<1>4. m.role = "assistant" /\ m.calls = ids BY <1>1
<1>5. m \in MessageType BY <1>1, <1>3 DEF MessageType, RoleNames
<1> QED BY <1>2, <1>4, <1>5, Zenon DEF IsAssistant

(* A result answers the call it is made for.                                *)
LEMMA ResultIs ==
    ASSUME NEW says, says \in Sayings, NEW id, id \in Nat
    PROVE  IsResult(Result(id, says), id, says)
<1>1. PICK e : e = <<>> OBVIOUS
<1>2. PICK n : n = FALSE OBVIOUS
<1>3. PICK m : m = [role |-> "tool", says |-> says, calls |-> e, answers |-> BlankId, native |-> n]
  OBVIOUS
<1>4. m = Message("tool", says) BY <1>1, <1>2, <1>3, Zenon DEF Message
<1>5. Result(id, says) = [m EXCEPT !.answers = id] BY <1>4, Zenon DEF Result
<1>6. PICK r : r = [role |-> "tool", says |-> says, calls |-> e, answers |-> id, native |-> n]
  OBVIOUS
<1>7. [m EXCEPT !.answers = id] = r
  <2> HIDE <1>2
  <2> QED BY <1>3, <1>6
<1>8. n \in BOOLEAN BY <1>2
<1>9. e \in Seq(Nat) BY <1>1
<1>10. r \in MessageType
  <2> HIDE <1>2
  <2> QED BY <1>6, <1>8, <1>9 DEF MessageType, RoleNames
<1>11. r.role = "tool" /\ r.calls = e /\ r.answers = id /\ r.says = says BY <1>6
<1> QED BY <1>1, <1>5, <1>7, <1>10, <1>11, Zenon DEF IsResult

(* A sequence of messages is one in the sense of the lemmas above.          *)
LEMMA TypedMessages ==
    ASSUME NEW ms \in Seq(MessageType)
    PROVE  MessageSeq(ms) /\ \A i \in 1..Len(ms) : ms[i] \in MessageType
<1>1. DOMAIN ms = 1..Len(ms) /\ Len(ms) \in Nat /\ \A i \in 1..Len(ms) : ms[i] \in MessageType OBVIOUS
<1>2. \A m \in MessageType : m.calls \in Seq(Nat) BY DEF MessageType
<1>3. CallsAreSequences(ms) BY <1>1, <1>2, Zenon DEF CallsAreSequences
<1> QED BY <1>1, <1>3 DEF MessageSeq

(* What the Agent writes is normalized: every message parses by itself.     *)
AllParse(ms) == \A i \in DOMAIN ms : MessageParses(ms[i])
FreshPiece(ms, ids) == ms \in Seq(MessageType) /\ WellFormedAt(ms) /\ IdsOf(ms) = ids

(* A user message is a transcript without calls.                            *)
LEMMA UserIsPiece ==
    ASSUME NEW says, says \in Sayings
    PROVE  FreshPiece(<<User(says)>>, {})
<1>1. PICK m : m = User(says) OBVIOUS
<1>2. IsUser(m, says) BY <1>1, UserIs
<1>3. m \in MessageType /\ m.role = "user" /\ m.calls = <<>> BY <1>2 DEF IsUser
<1>4. PICK ms : ms = <<m>> OBVIOUS
<1>5. ms \in Seq(MessageType) /\ Len(ms) = 1 /\ ms[1] = m BY <1>3, <1>4
<1>6. \A i \in 1..Len(ms) : i = 1 BY <1>5
<1>7. \A i \in 1..Len(ms) : ms[i].role = "user" /\ Range(ms[i].calls) = {}
  BY <1>3, <1>5, <1>6 DEF Range
<1>8. IdsOf(ms) = {} BY <1>7 DEF IdsOf
<1>9. \A a, k : ~IsCall(ms, a, k)
  <2>1. ASSUME NEW a, NEW k, IsCall(ms, a, k) PROVE FALSE
    <3>1. a \in 1..Len(ms) /\ ms[a].role = "assistant" BY <2>1 DEF IsCall
    <3>2. ms[a].role = "user" BY <1>7, <3>1
    <3> QED BY <3>1, <3>2
  <2> QED BY <2>1
<1>10. WellFormedAt(ms) BY <1>7, <1>9 DEF WellFormedAt, RoleIsKnown
<1> QED BY <1>1, <1>4, <1>5, <1>8, <1>10 DEF FreshPiece

(* A round of calls: one assistant message and a result for each call.      *)
RoundShape(ids, ms) ==
    /\ ms \in Seq(MessageType) /\ Len(ms) = Len(ids) + 1 /\ IdsOf(ms) = Range(ids)
    /\ ms[1].role = "assistant" /\ ms[1].calls = ids
    /\ \A k \in 1..Len(ids) : /\ ms[1 + k].role = "tool" /\ ms[1 + k].answers = ids[k]
                              /\ ms[1 + k].says = "text"

(* That is what the model writes for one.                                   *)
LEMMA RoundIs ==
    ASSUME NEW ids \in Seq(Nat)
    PROVE  RoundShape(ids, Round(ids))
<1> DEFINE n == Len(ids)
<1>1. n \in Nat /\ DOMAIN ids = 1..n /\ \A k \in 1..n : ids[k] \in Nat OBVIOUS
<1>2. PICK rest : rest = [k \in DOMAIN ids |-> Result(ids[k], "text")] OBVIOUS
<1>3. \A k \in 1..n : /\ rest[k] \in MessageType /\ rest[k].role = "tool"
                      /\ rest[k].answers = ids[k] /\ rest[k].says = "text" /\ rest[k].calls = <<>>
  <2> SUFFICES ASSUME NEW k \in 1..n
               PROVE /\ rest[k] \in MessageType /\ rest[k].role = "tool"
                     /\ rest[k].answers = ids[k] /\ rest[k].says = "text" /\ rest[k].calls = <<>>
    OBVIOUS
  <2>1. rest[k] = Result(ids[k], "text") BY <1>1, <1>2
  <2>2. ids[k] \in Nat /\ "text" \in Sayings BY <1>1 DEF Sayings
  <2>3. IsResult(rest[k], ids[k], "text") BY <2>1, <2>2, ResultIs
  <2> QED BY <2>3 DEF IsResult
<1>4. rest \in Seq(MessageType) /\ Len(rest) = n /\ DOMAIN rest = 1..n
  <2>1. DOMAIN rest = 1..n BY <1>1, <1>2
  <2>2. rest = [k \in 1..n |-> rest[k]] BY <1>1, <1>2
  <2> QED BY <1>1, <1>3, <2>1, <2>2
<1>5. PICK call : call = Assistant(ids, NothingSaid, FALSE) OBVIOUS
<1>6. call \in MessageType /\ call.role = "assistant" /\ call.calls = ids
  <2>1. NothingSaid \in Sayings BY DEF Sayings
  <2>2. IsAssistant(call, ids) BY <1>5, <2>1, AssistantIs
  <2> QED BY <2>2 DEF IsAssistant
<1>7. PICK ms : ms = <<call>> \o rest OBVIOUS
<1>8. /\ ms \in Seq(MessageType) /\ Len(ms) = n + 1 /\ ms[1] = call
      /\ \A k \in 1..n : ms[1 + k] = rest[k]
  BY <1>1, <1>4, <1>6, <1>7
<1>9. Round(ids) = ms BY <1>2, <1>5, <1>7, Zenon DEF Round, NothingSaid
<1>10. \A i \in 1..Len(ms) : i = 1 \/ (i - 1 \in 1..n /\ i = 1 + (i - 1)) BY <1>1, <1>8
<1>11. \A i \in 1..Len(ms) : i # 1 => ms[i].role = "tool" /\ ms[i].calls = <<>> /\ ms[i].says = "text"
  <2> SUFFICES ASSUME NEW i \in 1..Len(ms), i # 1
               PROVE ms[i].role = "tool" /\ ms[i].calls = <<>> /\ ms[i].says = "text"
    OBVIOUS
  <2>1. PICK k \in 1..n : i = 1 + k BY <1>10
  <2>2. ms[i] = rest[k] BY <1>8, <2>1
  <2> QED BY <1>3, <2>2, Zenon
<1>12. IdsOf(ms) = Range(ids)
  <2>1. 1 \in 1..Len(ms) BY <1>1, <1>8
  <2>2. \A i \in 1..Len(ms) : i # 1 => Range(ms[i].calls) = {}
    <3> SUFFICES ASSUME NEW i \in 1..Len(ms), i # 1 PROVE Range(ms[i].calls) = {} OBVIOUS
    <3>1. ms[i].calls = <<>> BY <1>11
    <3> QED BY <3>1 DEF Range
  <2>3. Range(ms[1].calls) = Range(ids) BY <1>6, <1>8
  <2>4. \A id : id \in IdsOf(ms) <=> \E i \in 1..Len(ms) : id \in Range(ms[i].calls) BY DEF IdsOf
  <2>5. \A id : id \in IdsOf(ms) <=> id \in Range(ids) BY <2>1, <2>2, <2>3, <2>4, Zenon
  <2> QED BY <2>5
<1>13. ms[1].role = "assistant" /\ ms[1].calls = ids BY <1>6, <1>8
<1>14. \A k \in 1..Len(ids) : ms[1 + k].role = "tool" /\ ms[1 + k].answers = ids[k] /\ ms[1 + k].says = "text"
  BY <1>1, <1>3, <1>8
<1>15. RoundShape(ids, ms) BY <1>1, <1>8, <1>12, <1>13, <1>14 DEF RoundShape
<1> QED BY <1>9, <1>15

(* With ids of its own and none blank a round is a transcript.              *)
LEMMA RoundIsPiece ==
    ASSUME NEW ids \in Seq(Nat), \A k, l \in 1..Len(ids) : ids[k] = ids[l] => k = l,
           BlankId \notin Range(ids)
    PROVE  FreshPiece(Round(ids), Range(ids)) /\ Len(Round(ids)) = Len(ids) + 1
<1> DEFINE n == Len(ids)
<1>1. n \in Nat /\ DOMAIN ids = 1..n /\ \A k \in 1..n : ids[k] \in Nat OBVIOUS
<1>2. PICK ms : ms = Round(ids) OBVIOUS
<1>3. RoundShape(ids, ms) BY <1>2, RoundIs
<1>4. /\ ms \in Seq(MessageType) /\ Len(ms) = n + 1 /\ IdsOf(ms) = Range(ids)
      /\ ms[1].role = "assistant" /\ ms[1].calls = ids
      /\ \A k \in 1..n : ms[1 + k].role = "tool" /\ ms[1 + k].answers = ids[k] /\ ms[1 + k].says = "text"
  BY <1>3 DEF RoundShape
<1>10. \A i \in 1..Len(ms) : i = 1 \/ (i - 1 \in 1..n /\ i = 1 + (i - 1)) BY <1>1, <1>4
<1>11. \A i \in 1..Len(ms) : i # 1 => ms[i].role = "tool" /\ ms[i].says = "text"
  <2> SUFFICES ASSUME NEW i \in 1..Len(ms), i # 1 PROVE ms[i].role = "tool" /\ ms[i].says = "text"
    OBVIOUS
  <2>1. PICK k \in 1..n : i = 1 + k BY <1>10
  <2>2. ms[1 + k].role = "tool" /\ ms[1 + k].says = "text" BY <1>4
  <2> QED BY <2>1, <2>2
<1>13. \A a, k : IsCall(ms, a, k) => a = 1 /\ k \in 1..n
  <2>1. ASSUME NEW a, NEW k, IsCall(ms, a, k) PROVE a = 1 /\ k \in 1..n
    <3>1. a \in 1..Len(ms) /\ ms[a].role = "assistant" /\ k \in DOMAIN ms[a].calls BY <2>1 DEF IsCall
    <3>2. a = 1 BY <1>11, <3>1
    <3> QED BY <1>1, <1>4, <3>1, <3>2
  <2> QED BY <2>1
<1>14. \A k \in 1..n : IsCall(ms, 1, k)
  <2>1. 1 \in 1..Len(ms) /\ \A k \in 1..n : k \in 1..Len(ms) BY <1>1, <1>4
  <2> QED BY <1>1, <1>4, <2>1 DEF IsCall
<1>15. \A k \in 1..n : IsAnswered(ms, 1, k)
  <2> SUFFICES ASSUME NEW k \in 1..n PROVE IsAnswered(ms, 1, k) OBVIOUS
  <2>1. ms[1].calls[k] = ids[k] BY <1>4
  <2>2. ids[k] # BlankId BY <1>1 DEF Range
  <2>3. 1 + k \in 1..Len(ms) BY <1>1, <1>4
  <2>4. ms[1 + k].role = "tool" /\ ms[1 + k].answers = ids[k] BY <1>4
  <2> QED BY <2>1, <2>2, <2>3, <2>4 DEF IsAnswered
<1>16. \A k, l \in 1..n : SameCall(ms, 1, k, 1, l) BY <1>4 DEF SameCall
<1>17. ASSUME NEW i \in 1..Len(ms) PROVE RoleIsKnown(ms[i]) /\ (ms[i].role = "tool" => IsAnAnswer(ms, i))
  <2>1. CASE i = 1
    <3>1. ms[i].role = "assistant" BY <1>4, <2>1
    <3> QED BY <3>1 DEF RoleIsKnown
  <2>2. CASE i # 1
    <3>1. i - 1 \in 1..n /\ 1 + (i - 1) = i /\ i - 1 \in 1..Len(ms) /\ 1 \in 1..Len(ms)
      BY <1>1, <1>4, <1>10, <2>2
    <3>2. ms[i].role = "tool" /\ ms[i].says = "text" BY <1>11, <2>2
    <3>3. ReadableContent(ms[i]) BY <3>2 DEF ReadableContent
    <3>4. IsCall(ms, 1, i - 1) BY <1>14, <3>1
    <3> QED BY <3>1, <3>2, <3>3, <3>4 DEF RoleIsKnown, IsAnAnswer
  <2> QED BY <2>1, <2>2
<1>18. WellFormedAt(ms)
  <2>1. \A a, k \in 1..Len(ms) : IsCall(ms, a, k) => IsAnswered(ms, a, k) BY <1>13, <1>15
  <2>2. \A a, k, b, l \in 1..Len(ms) : IsCall(ms, a, k) /\ IsCall(ms, b, l) => SameCall(ms, a, k, b, l)
    BY <1>13, <1>16
  <2> QED BY <1>17, <2>1, <2>2, Zenon DEF WellFormedAt
<1> QED BY <1>2, <1>4, <1>18 DEF FreshPiece

-----------------------------------------------------------------------------
(* What is read of the rows: a selection of their messages.                 *)

(* The rows of the ledger, as far as their fields have a kind.              *)
RowKinds == {"message", "compaction", "unknown"}
KeyForms == {"exact", "legacy", "extra"}
RowType ==
    [id : Nat, type : RowKinds, keys : KeyForms, version : Nat, message : MessageType,
     firstKept : Nat, previous : Nat, attention : BOOLEAN]

(* The messages chosen so far, row by row.                                  *)
Take(rs, kept, sofar, n) ==
    IF n \in kept /\ IsMessage(rs[n]) THEN Append(sofar, rs[n].message) ELSE sofar
Selects(rs, kept, f) ==
    /\ f[0] = <<>>
    /\ \A n \in 1..Len(rs) : f[n] = Take(rs, kept, f[n - 1], n)

(* The selection of messages is the one its recursion says.                 *)
LEMMA SelectionIs ==
    ASSUME NEW rs, NEW kept, NEW N \in Nat, N = Len(rs)
    PROVE  \E f : Selects(rs, kept, f) /\ MessagesAt(rs, kept) = f[N]
<1> DEFINE Steps(m, f) == \A i \in 0..m : f[i] = (IF i = 0 THEN <<>> ELSE Take(rs, kept, f[i - 1], i))
           Bad == {m \in 0..N : ~\E f : f = [i \in 0..m |-> f[i]] /\ Steps(m, f)}
           fn == CHOOSE f : f = [i \in 0..N |-> IF i = 0 THEN <<>>
                                                ELSE IF i \in kept /\ IsMessage(rs[i])
                                                     THEN Append(f[i - 1], rs[i].message)
                                                ELSE f[i - 1]]
<1>1. Bad = {}
  <2> SUFFICES ASSUME Bad # {} PROVE FALSE OBVIOUS
  <2>1. PICK m \in Bad : \A y \in Bad : m <= y
    <3>1. Bad \subseteq Nat OBVIOUS
    <3> HIDE DEF Bad
    <3> QED BY <3>1, MinIsLeast
  <2>2. m \in 0..N /\ m \in Nat BY <2>1
  <2>3. ~\E f : f = [i \in 0..m |-> f[i]] /\ Steps(m, f) BY <2>1
  <2>4. CASE m = 0
    <3>1. PICK g : g = [i \in 0..m |-> <<>>] OBVIOUS
    <3>2. 0 \in 0..m /\ \A i \in 0..m : i = 0 BY <2>4
    <3>3. g = [i \in 0..m |-> g[i]] BY <3>1
    <3>4. Steps(m, g) BY <3>1, <3>2
    <3> HIDE DEF Steps
    <3> QED BY <2>3, <3>3, <3>4, Zenon
  <2>5. CASE m # 0
    <3>1. m - 1 \in 0..N /\ m - 1 \notin Bad
      <4>1. m - 1 \in 0..N /\ ~(m <= m - 1) BY <2>2, <2>5
      <4> HIDE DEF Bad
      <4> QED BY <2>1, <4>1
    <3>2. \E f : f = [i \in 0..(m - 1) |-> f[i]] /\ Steps(m - 1, f)
      <4> HIDE DEF Steps
      <4> QED BY <3>1
    <3>3. PICK f : f = [i \in 0..(m - 1) |-> f[i]] /\ Steps(m - 1, f) BY <3>2, Zenon
    <3>4. PICK g : g = [i \in 0..m |-> IF i = m THEN Take(rs, kept, f[m - 1], m) ELSE f[i]] OBVIOUS
    <3>5. \A i \in 0..m : i # m => i \in 0..(m - 1) /\ (i # 0 => i - 1 \in 0..m /\ i - 1 # m)
      BY <2>2, <2>5
    <3>6. g = [i \in 0..m |-> g[i]] BY <3>4
    <3>7. Steps(m, g)
      <4> SUFFICES ASSUME NEW i \in 0..m
                   PROVE g[i] = (IF i = 0 THEN <<>> ELSE Take(rs, kept, g[i - 1], i))
        OBVIOUS
      <4>1. CASE i = m
        <5>1. m - 1 \in 0..m /\ m - 1 # m /\ m \in 0..m BY <2>2, <2>5
        <5>2. g[m] = Take(rs, kept, f[m - 1], m) /\ g[m - 1] = f[m - 1] BY <3>4, <5>1, Zenon
        <5> QED BY <2>5, <4>1, <5>2, Zenon
      <4>2. CASE i # m
        <5>1. g[i] = f[i] /\ (i # 0 => g[i - 1] = f[i - 1])
          <6>1. i \in 0..(m - 1) /\ (i # 0 => i - 1 \in 0..m /\ i - 1 # m) BY <3>5, <4>2
          <6> QED BY <3>4, <4>2, <6>1, Zenon
        <5>2. f[i] = (IF i = 0 THEN <<>> ELSE Take(rs, kept, f[i - 1], i)) BY <3>3, <3>5, <4>2, Zenon
        <5> QED BY <5>1, <5>2, Zenon
      <4> QED BY <4>1, <4>2
    <3>8. \E h : h = [i \in 0..m |-> h[i]] /\ Steps(m, h)
      <4> HIDE DEF Steps
      <4> QED BY <3>6, <3>7, Zenon
    <3> QED BY <2>3, <3>8, Zenon
  <2> QED BY <2>4, <2>5
<1>2. fn = [i \in 0..N |-> IF i = 0 THEN <<>> ELSE Take(rs, kept, fn[i - 1], i)]
  <2>1. N \in 0..N /\ N \notin Bad BY <1>1
  <2>2. \E f : f = [i \in 0..N |-> f[i]] /\ Steps(N, f)
    <3> HIDE DEF Steps
    <3> QED BY <2>1
  <2>3. PICK f : f = [i \in 0..N |-> f[i]] /\ Steps(N, f) BY <2>2, Zenon
  <2>4. f = [i \in 0..N |-> IF i = 0 THEN <<>> ELSE Take(rs, kept, f[i - 1], i)] BY <2>3
  <2> USE DEF Take
  <2> QED BY <2>4, Zenon
<1>3. MessagesAt(rs, kept) = fn[N] BY DEF MessagesAt
<1> HIDE DEF fn
<1>4. PICK s : s = fn OBVIOUS
<1>5. \A i \in 0..N : s[i] = (IF i = 0 THEN <<>> ELSE Take(rs, kept, s[i - 1], i))
  <2>1. PICK t : t = [i \in 0..N |-> IF i = 0 THEN <<>> ELSE Take(rs, kept, s[i - 1], i)] OBVIOUS
  <2>2. s = t BY <1>2, <1>4, <2>1
  <2>3. \A i \in 0..N : t[i] = (IF i = 0 THEN <<>> ELSE Take(rs, kept, s[i - 1], i)) BY <2>1
  <2> QED BY <2>2, <2>3
<1>6. 0 \in 0..N /\ \A i \in 1..N : i \in 0..N /\ i # 0 OBVIOUS
<1>7. Selects(rs, kept, s) BY <1>5, <1>6 DEF Selects
<1> QED BY <1>3, <1>4, <1>7

(* Every message chosen is a row's.                                         *)
ComesFrom(rs, ms) == \A j \in 1..Len(ms) : \E i \in 1..Len(rs) : ms[j] = rs[i].message

(* What is chosen of typed rows are typed messages, of these rows.          *)
LEMMA SelectionTyped ==
    ASSUME NEW rs \in Seq(RowType), NEW kept, NEW f, Selects(rs, kept, f)
    PROVE  \A n \in 0..Len(rs) : f[n] \in Seq(MessageType) /\ ComesFrom(rs, f[n])
<1> DEFINE good == {n \in 0..Len(rs) : f[n] \in Seq(MessageType) /\ ComesFrom(rs, f[n])}
<1>1. Len(rs) \in Nat /\ \A n \in 1..Len(rs) : rs[n] \in RowType OBVIOUS
<1>2. 0 \in good
  <2>1. f[0] = <<>> /\ 0 \in 0..Len(rs) BY <1>1 DEF Selects
  <2>2. PICK e : e = <<>> OBVIOUS
  <2>3. e \in Seq(MessageType) /\ Len(e) = 0 BY <2>2
  <2>4. ComesFrom(rs, e) BY <2>3 DEF ComesFrom
  <2>5. f[0] = e BY <2>1, <2>2
  <2> HIDE <2>2
  <2> QED BY <2>1, <2>3, <2>4, <2>5
<1>3. \A n \in 1..Len(rs) : n - 1 \in good => n \in good
  <2> SUFFICES ASSUME NEW n \in 1..Len(rs), n - 1 \in good PROVE n \in good OBVIOUS
  <2>1. n \in 0..Len(rs) /\ f[n - 1] \in Seq(MessageType) /\ ComesFrom(rs, f[n - 1]) BY <1>1
  <2>2. f[n] = Take(rs, kept, f[n - 1], n) BY DEF Selects
  <2>3. PICK old : old = f[n - 1] OBVIOUS
  <2>4. PICK m : m = rs[n].message OBVIOUS
  <2>5. m \in MessageType BY <1>1, <2>4 DEF RowType
  <2>6. old \in Seq(MessageType) /\ ComesFrom(rs, old) BY <2>1, <2>3
  <2>7. CASE f[n] = old BY <2>1, <2>6, <2>7
  <2>8. CASE f[n] = Append(old, m)
    <3>1. PICK new : new = Append(old, m) OBVIOUS
    <3>2. new \in Seq(MessageType) /\ Len(new) = Len(old) + 1 /\ Len(old) \in Nat
          /\ new[Len(old) + 1] = m /\ \A j \in 1..Len(old) : new[j] = old[j]
      BY <2>5, <2>6, <3>1
    <3>3. \A j \in 1..Len(new) : j \in 1..Len(old) \/ j = Len(old) + 1 BY <3>2
    <3>4. ComesFrom(rs, new) BY <2>4, <2>6, <3>2, <3>3 DEF ComesFrom
    <3> QED BY <2>1, <2>8, <3>1, <3>2, <3>4
  <2>9. f[n] = old \/ f[n] = Append(old, m) BY <2>2, <2>3, <2>4 DEF Take
  <2> QED BY <2>7, <2>8, <2>9
<1> HIDE DEF good
<1>4. \A n \in 0..Len(rs) : n \in good BY <1>1, <1>2, <1>3, StepByStep
<1> USE DEF good
<1> QED BY <1>4

(* Rows of messages appended to a ledger append their messages to what is   *)
(* chosen of it.                                                            *)
RowsOf(head, ms) == [i \in DOMAIN ms |-> MessageRow(head + i, ms[i])]
KeepsTheSame(rs, kept, more, keptMore) ==
    /\ \A n \in 1..Len(rs) : n \in keptMore <=> n \in kept
    /\ \A n \in 1..more : Len(rs) + n \in keptMore
Extends(rs, head, ms, all) ==
    /\ Len(all) = Len(rs) + Len(ms) /\ DOMAIN all = 1..Len(all)
    /\ \A i \in 1..Len(rs) : all[i] = rs[i]
    /\ \A i \in 1..Len(ms) : all[Len(rs) + i] = MessageRow(head + i, ms[i])

(* A message row is a row of that message.                                  *)
LEMMA MessageRowIs ==
    ASSUME NEW id \in Nat, NEW m, m \in MessageType
    PROVE  /\ MessageRow(id, m) \in RowType /\ MessageRow(id, m).id = id
           /\ MessageRow(id, m).message = m /\ IsMessage(MessageRow(id, m))
           /\ ~IsCompaction(MessageRow(id, m))
           /\ MessageRow(id, m).version = 1 /\ MessageRow(id, m).keys = "exact"
<1>1. PICK n : n = FALSE OBVIOUS
<1>2. PICK k : k = User("") OBVIOUS
<1>3. MessageRow(id, m) = [id |-> id, type |-> "message", keys |-> "exact", version |-> 1, message |-> m,
                           firstKept |-> 0, previous |-> 0, attention |-> n]
  BY <1>1, Zenon DEF MessageRow
<1>4. MessageRow(id, m).type = "message" /\ MessageRow(id, m).message = m /\ MessageRow(id, m).id = id
      /\ MessageRow(id, m).version = 1 /\ MessageRow(id, m).keys = "exact"
  BY <1>3
<1>5. "message" # "compaction" OBVIOUS
<1>6. MessageRow(id, m) \in RowType
  <2>1. n \in BOOLEAN BY <1>1
  <2> HIDE <1>1
  <2> QED BY <1>3, <2>1 DEF RowType, RowKinds, KeyForms
<1>7. IsMessage(MessageRow(id, m)) /\ ~IsCompaction(MessageRow(id, m))
  BY <1>4, <1>5, Zenon DEF IsMessage, IsCompaction
<1> QED BY <1>4, <1>6, <1>7, Zenon

(* A sequence taken one element further.                                    *)
LEMMA OneMore ==
    ASSUME NEW S, NEW base \in Seq(S), NEW ms \in Seq(S), NEW k \in 1..Len(ms)
    PROVE  Append(base \o SubSeq(ms, 1, k - 1), ms[k]) = base \o SubSeq(ms, 1, k)
<1>1. Len(ms) \in Nat /\ k \in Nat /\ k >= 1 /\ k <= Len(ms) /\ ms[k] \in S
      /\ Len(base) \in Nat /\ \A i \in 1..Len(ms) : ms[i] \in S
  OBVIOUS
<1>2. PICK x : x = SubSeq(ms, 1, k - 1) OBVIOUS
<1>3. x \in Seq(S) /\ Len(x) = k - 1 /\ \A i \in 1..(k - 1) : x[i] = ms[i] BY <1>1, <1>2
<1>4. PICK y : y = SubSeq(ms, 1, k) OBVIOUS
<1>5. y \in Seq(S) /\ Len(y) = k /\ \A i \in 1..k : y[i] = ms[i] BY <1>1, <1>4
<1>6. PICK u : u = base \o x OBVIOUS
<1>7. /\ u \in Seq(S) /\ Len(u) = Len(base) + (k - 1)
      /\ \A i \in 1..Len(u) : u[i] = IF i <= Len(base) THEN base[i] ELSE x[i - Len(base)]
  <2>1. u \in Seq(S) /\ Len(u) = Len(base) + (k - 1) BY <1>3, <1>6, ConcatProperties
  <2>2. \A i \in 1..(Len(base) + Len(x)) : u[i] = IF i <= Len(base) THEN base[i] ELSE x[i - Len(base)]
    BY <1>3, <1>6, ConcatProperties
  <2> QED BY <1>3, <2>1, <2>2
<1>8. PICK v : v = Append(u, ms[k]) OBVIOUS
<1>9. /\ v \in Seq(S) /\ Len(v) = Len(u) + 1 /\ v[Len(u) + 1] = ms[k]
      /\ \A i \in 1..Len(u) : v[i] = u[i]
  BY <1>1, <1>7, <1>8
<1>10. PICK w : w = base \o y OBVIOUS
<1>11. /\ w \in Seq(S) /\ Len(w) = Len(base) + k
       /\ \A i \in 1..Len(w) : w[i] = IF i <= Len(base) THEN base[i] ELSE y[i - Len(base)]
  <2>1. w \in Seq(S) /\ Len(w) = Len(base) + k BY <1>5, <1>10, ConcatProperties
  <2>2. \A i \in 1..(Len(base) + Len(y)) : w[i] = IF i <= Len(base) THEN base[i] ELSE y[i - Len(base)]
    BY <1>5, <1>10, ConcatProperties
  <2> QED BY <1>5, <2>1, <2>2
<1>12. Len(v) = Len(w) BY <1>1, <1>7, <1>9, <1>11
<1>13. \A i \in 1..Len(v) : v[i] = w[i]
  <2> SUFFICES ASSUME NEW i \in 1..Len(v) PROVE v[i] = w[i] OBVIOUS
  <2>1. i \in 1..Len(w) /\ (i \in 1..Len(u) \/ i = Len(u) + 1) BY <1>1, <1>7, <1>9, <1>12
  <2>2. CASE i <= Len(base) BY <1>1, <1>7, <1>9, <1>11, <2>1, <2>2
  <2>3. CASE ~(i <= Len(base)) /\ i \in 1..Len(u)
    <3>1. i - Len(base) \in 1..(k - 1) /\ i - Len(base) \in 1..k BY <1>1, <1>7, <2>3
    <3>2. v[i] = x[i - Len(base)] /\ w[i] = y[i - Len(base)] BY <1>7, <1>9, <1>11, <2>1, <2>3
    <3> QED BY <1>3, <1>5, <3>1, <3>2
  <2>4. CASE i = Len(u) + 1
    <3>1. i - Len(base) = k /\ ~(i <= Len(base)) /\ k \in 1..k BY <1>1, <1>7, <2>4
    <3> QED BY <1>5, <1>9, <1>11, <2>1, <2>4, <3>1
  <2> QED BY <2>1, <2>2, <2>3, <2>4
<1>14. v = w BY <1>9, <1>11, <1>12, <1>13, SeqEqual
<1> QED BY <1>2, <1>4, <1>6, <1>8, <1>10, <1>14

ChoosesMore(all, keptMore, rs, kept, ms) ==
    MessagesAt(all, keptMore) = MessagesAt(rs, kept) \o ms

(* The selection of the longer ledger starts like that of the shorter one,   *)
(* and ends with the new messages.                                          *)
LEMMA SelectionExtends ==
    ASSUME NEW rs \in Seq(RowType), NEW ms \in Seq(MessageType), NEW all, NEW head \in Nat,
           Extends(rs, head, ms, all),
           NEW kept, NEW keptMore, KeepsTheSame(rs, kept, Len(ms), keptMore)
    PROVE  ChoosesMore(all, keptMore, rs, kept, ms)
<1> DEFINE N == Len(rs)
           M == Len(ms)
<1>1. /\ N \in Nat /\ M \in Nat /\ Len(all) = N + M /\ N + M \in Nat
      /\ \A i \in 1..M : ms[i] \in MessageType
  BY DEF Extends
<1>2. PICK f : Selects(rs, kept, f) /\ MessagesAt(rs, kept) = f[N] BY <1>1, SelectionIs
<1>3. PICK g : Selects(all, keptMore, g) /\ MessagesAt(all, keptMore) = g[N + M] BY <1>1, SelectionIs
<1>4. \A n \in 0..N : g[n] = f[n]
  <2> DEFINE good == {n \in 0..N : g[n] = f[n]}
  <2>1. 0 \in good BY <1>1, <1>2, <1>3 DEF Selects
  <2>2. \A n \in 1..N : n - 1 \in good => n \in good
    <3> SUFFICES ASSUME NEW n \in 1..N, n - 1 \in good PROVE n \in good OBVIOUS
    <3>1. g[n - 1] = f[n - 1] OBVIOUS
    <3>2. n \in 1..Len(all) /\ n \in 0..N BY <1>1
    <3>3. g[n] = Take(all, keptMore, g[n - 1], n) /\ f[n] = Take(rs, kept, f[n - 1], n)
      BY <1>2, <1>3, <3>2 DEF Selects
    <3>4. all[n] = rs[n] /\ (n \in keptMore <=> n \in kept) BY DEF Extends, KeepsTheSame
    <3>5. g[n] = f[n] BY <3>1, <3>3, <3>4 DEF Take
    <3> QED BY <3>2, <3>5
  <2> HIDE DEF good
  <2>3. \A n \in 0..N : n \in good BY <1>1, <2>1, <2>2, StepByStep
  <2> USE DEF good
  <2> QED BY <2>3
<1>5. f[N] \in Seq(MessageType)
  <2>1. N \in 0..N BY <1>1
  <2> QED BY <1>2, <2>1, SelectionTyped
<1>6. PICK base : base = f[N] OBVIOUS
<1>7. base \in Seq(MessageType) BY <1>5, <1>6
<1>8. \A k \in 0..M : g[N + k] = base \o SubSeq(ms, 1, k)
  <2> DEFINE good == {k \in 0..M : g[N + k] = base \o SubSeq(ms, 1, k)}
  <2>1. 0 \in good
    <3>1. N \in 0..N /\ N + 0 = N /\ 0 \in 0..M BY <1>1
    <3>2. g[N] = base BY <1>4, <1>6, <3>1
    <3>3. base \o SubSeq(ms, 1, 0) = base BY <1>7
    <3> QED BY <3>1, <3>2, <3>3
  <2>2. \A k \in 1..M : k - 1 \in good => k \in good
    <3> SUFFICES ASSUME NEW k \in 1..M, k - 1 \in good PROVE k \in good OBVIOUS
    <3>1. g[N + (k - 1)] = base \o SubSeq(ms, 1, k - 1) OBVIOUS
    <3>2. k \in 0..M /\ N + k \in 1..Len(all) /\ (N + k) - 1 = N + (k - 1) BY <1>1
    <3>3. g[N + k] = Take(all, keptMore, g[N + (k - 1)], N + k)
      BY <1>3, <3>2 DEF Selects
    <3>4. all[N + k] = MessageRow(head + k, ms[k]) /\ N + k \in keptMore
      BY DEF Extends, KeepsTheSame
    <3>5. head + k \in Nat /\ ms[k] \in MessageType BY <1>1
    <3>6. IsMessage(all[N + k]) /\ all[N + k].message = ms[k]
      <4>1. PICK id \in Nat : id = head + k BY <3>5
      <4>2. PICK m \in MessageType : m = ms[k] BY <3>5
      <4>3. MessageRow(id, m).message = m /\ IsMessage(MessageRow(id, m)) BY <4>1, <4>2, MessageRowIs, Zenon
      <4>4. all[N + k] = MessageRow(id, m) BY <3>4, <4>1, <4>2
      <4> QED BY <4>2, <4>3, <4>4
    <3>7. g[N + k] = Append(base \o SubSeq(ms, 1, k - 1), ms[k]) BY <3>1, <3>3, <3>4, <3>6 DEF Take
    <3>8. Append(base \o SubSeq(ms, 1, k - 1), ms[k]) = base \o SubSeq(ms, 1, k)
      <4> DEFINE S == MessageType
      <4> HIDE DEF S
      <4>1. base \in Seq(S) /\ ms \in Seq(S) /\ k \in 1..Len(ms) BY <1>1, <1>7 DEF S
      <4> QED BY <4>1, OneMore
    <3> QED BY <3>2, <3>7, <3>8
  <2> HIDE DEF good
  <2>3. \A k \in 0..M : k \in good BY <1>1, <2>1, <2>2, StepByStep
  <2> USE DEF good
  <2> QED BY <2>3
<1>9. M \in 0..M /\ SubSeq(ms, 1, M) = ms BY <1>1
<1> QED BY <1>2, <1>3, <1>6, <1>8, <1>9 DEF ChoosesMore

(* Appending to the second of two sequences appends to both.                *)
AppendBoth(a, b, e) == Append(a \o b, e) = a \o Append(b, e)
(* Said of one element.                                                     *)
LEMMA AppendsInto ==
    ASSUME NEW S, NEW a \in Seq(S), NEW b \in Seq(S), NEW e \in S
    PROVE  AppendBoth(a, b, e)
<1>1. <<e>> \in Seq(S) /\ a \o b \in Seq(S) OBVIOUS
<1>2. Append(a \o b, e) = (a \o b) \o <<e>> BY <1>1, AppendIsConcat
<1>3. Append(b, e) = b \o <<e>> BY AppendIsConcat
<1>4. (a \o b) \o <<e>> = a \o (b \o <<e>>) BY <1>1, ConcatAssociative
<1> QED BY <1>2, <1>3, <1>4 DEF AppendBoth

(* A concatenation joins its parts.                                         *)
LEMMA ConcatJoins ==
    ASSUME NEW S, NEW a \in Seq(S), NEW b \in Seq(S)
    PROVE  Joins(a, b, a \o b) /\ a \o b \in Seq(S)
<1>1. Len(a) \in Nat /\ Len(b) \in Nat OBVIOUS
<1>2. PICK c : c = a \o b OBVIOUS
<1>3. /\ c \in Seq(S) /\ Len(c) = Len(a) + Len(b) /\ DOMAIN c = 1..Len(c)
      /\ \A i \in 1..Len(c) : c[i] = IF i <= Len(a) THEN a[i] ELSE b[i - Len(a)]
  BY <1>2
<1>4. \A i \in 1..Len(a) : c[i] = a[i] BY <1>1, <1>3
<1>5. \A i \in 1..Len(b) : c[Len(a) + i] = b[i]
  <2> SUFFICES ASSUME NEW i \in 1..Len(b) PROVE c[Len(a) + i] = b[i] OBVIOUS
  <2>1. Len(a) + i \in 1..Len(c) /\ ~(Len(a) + i <= Len(a)) /\ (Len(a) + i) - Len(a) = i BY <1>1, <1>3
  <2> QED BY <1>3, <2>1
<1> QED BY <1>2, <1>3, <1>4, <1>5 DEF Joins

(* What is kept from a message on is the end of all messages, and starts     *)
(* with that message.                                                       *)
KeepsFrom(rs, kept, i) == \A n \in 1..Len(rs) : n \in kept <=> n >= i
(* The messages from such a row on end the list of all messages, and the    *)
(* row's message comes first.                                               *)
LEMMA SelectionSplits ==
    ASSUME NEW rs \in Seq(RowType), NEW i \in 1..Len(rs), IsMessage(rs[i]),
           NEW every, \A n \in 1..Len(rs) : n \in every,
           NEW kept, KeepsFrom(rs, kept, i)
    PROVE  /\ \E a \in Seq(MessageType) : Joins(a, MessagesAt(rs, kept), MessagesAt(rs, every))
           /\ MessagesAt(rs, kept) \in Seq(MessageType)
           /\ MessagesAt(rs, kept)[1] = rs[i].message
<1> DEFINE N == Len(rs)
<1>1. N \in Nat /\ i \in Nat /\ i >= 1 /\ i <= N /\ \A n \in 1..N : rs[n] \in RowType OBVIOUS
<1>2. PICK f : Selects(rs, every, f) /\ MessagesAt(rs, every) = f[N] BY <1>1, SelectionIs
<1>3. PICK g : Selects(rs, kept, g) /\ MessagesAt(rs, kept) = g[N] BY <1>1, SelectionIs
<1>4. PICK m : m = rs[i].message OBVIOUS
<1>5. m \in MessageType BY <1>1, <1>4 DEF RowType
<1>6. PICK base : base = f[i - 1] OBVIOUS
<1>7. base \in Seq(MessageType)
  <2>1. i - 1 \in 0..N BY <1>1
  <2> QED BY <1>2, <1>6, <2>1, SelectionTyped
<1>8. \A n \in 0..(i - 1) : g[n] = <<>>
  <2> DEFINE good == {n \in 0..(i - 1) : g[n] = <<>>}
  <2>1. 0 \in good BY <1>1, <1>3 DEF Selects
  <2>2. \A n \in 1..(i - 1) : n - 1 \in good => n \in good
    <3> SUFFICES ASSUME NEW n \in 1..(i - 1), n - 1 \in good PROVE n \in good OBVIOUS
    <3>1. n \in 1..N /\ ~(n >= i) /\ n \in 0..(i - 1) BY <1>1
    <3>2. n \notin kept BY <3>1 DEF KeepsFrom
    <3>3. g[n] = Take(rs, kept, g[n - 1], n) BY <1>3, <3>1 DEF Selects
    <3>4. g[n] = g[n - 1] BY <3>2, <3>3 DEF Take
    <3> QED BY <3>1, <3>4
  <2> HIDE DEF good
  <2>3. i - 1 \in Nat BY <1>1
  <2>4. \A n \in 0..(i - 1) : n \in good BY <2>1, <2>2, <2>3, StepByStep
  <2> USE DEF good
  <2> QED BY <2>4
<1> DEFINE From(n) == /\ g[n] \in Seq(MessageType) /\ Len(g[n]) >= 1 /\ g[n][1] = m
                      /\ f[n] = base \o g[n]
<1>9. From(i)
  <2>1. g[i - 1] = <<>>
    <3>1. i - 1 \in 0..(i - 1) BY <1>1
    <3> QED BY <1>8, <3>1
  <2>2. i \in kept /\ i \in every BY <1>1 DEF KeepsFrom
  <2>3. g[i] = Take(rs, kept, g[i - 1], i) /\ f[i] = Take(rs, every, f[i - 1], i)
    BY <1>2, <1>3 DEF Selects
  <2>4. g[i] = Append(<<>>, m) /\ f[i] = Append(base, m) BY <1>4, <1>6, <2>1, <2>2, <2>3 DEF Take
  <2>5. PICK x : x = <<m>> OBVIOUS
  <2>6. x \in Seq(MessageType) /\ Len(x) = 1 /\ x[1] = m BY <1>5, <2>5
  <2>7. Append(<<>>, m) = x BY <1>5, <2>5
  <2>8. Append(base, m) = base \o x BY <1>5, <1>7, <2>5, AppendIsConcat
  <2> QED BY <2>4, <2>6, <2>7, <2>8
<1>10. \A k \in 0..(N - i) : From(i + k)
  <2> DEFINE good == {k \in 0..(N - i) : From(i + k)}
  <2>1. 0 \in good
    <3>1. 0 \in 0..(N - i) /\ i + 0 = i BY <1>1
    <3> QED BY <1>9, <3>1
  <2>2. \A k \in 1..(N - i) : k - 1 \in good => k \in good
    <3> SUFFICES ASSUME NEW k \in 1..(N - i), k - 1 \in good PROVE k \in good OBVIOUS
    <3>1. k \in 0..(N - i) /\ i + k \in 1..N /\ (i + k) - 1 = i + (k - 1) /\ i + k >= i
      <4> HIDE DEF good
      <4> QED BY <1>1
    <3>2. From(i + (k - 1)) OBVIOUS
    <3>3. i + k \in kept /\ i + k \in every BY <3>1 DEF KeepsFrom
    <3>4. PICK old : old = g[i + (k - 1)] OBVIOUS
    <3>5. PICK e : e = rs[i + k].message OBVIOUS
    <3>6. e \in MessageType BY <1>1, <3>1, <3>5 DEF RowType
    <3>7. /\ old \in Seq(MessageType) /\ Len(old) >= 1 /\ old[1] = m
          /\ f[i + (k - 1)] = base \o old
      BY <3>2, <3>4
    <3>8. g[i + k] = Take(rs, kept, old, i + k) /\ f[i + k] = Take(rs, every, base \o old, i + k)
      BY <1>2, <1>3, <3>1, <3>4, <3>7 DEF Selects
    <3>9. CASE IsMessage(rs[i + k])
      <4>1. g[i + k] = Append(old, e) /\ f[i + k] = Append(base \o old, e)
        BY <3>3, <3>5, <3>8, <3>9 DEF Take
      <4>2. Append(base \o old, e) = base \o Append(old, e)
        <5> DEFINE S == MessageType
        <5>1. base \in Seq(S) /\ old \in Seq(S) /\ e \in S BY <1>7, <3>6, <3>7
        <5> HIDE DEF S
        <5>2. AppendBoth(base, old, e) BY <5>1, AppendsInto
        <5> QED BY <5>2 DEF AppendBoth
      <4>3. Append(old, e) \in Seq(MessageType) /\ Len(Append(old, e)) >= 1 /\ Append(old, e)[1] = m
        <5>1. Len(Append(old, e)) = Len(old) + 1 /\ Append(old, e) \in Seq(MessageType)
              /\ \A j \in 1..Len(old) : Append(old, e)[j] = old[j]
          BY <3>6, <3>7, AppendProperties
        <5>2. Len(old) \in Nat /\ 1 \in 1..Len(old) BY <3>7
        <5> QED BY <3>7, <5>1, <5>2
      <4> HIDE DEF Joins
      <4>4. From(i + k) BY <4>1, <4>2, <4>3
      <4> QED BY <3>1, <4>4
    <3>10. CASE ~IsMessage(rs[i + k])
      <4>1. g[i + k] = old /\ f[i + k] = base \o old BY <3>8, <3>10 DEF Take
      <4>2. From(i + k) BY <3>7, <4>1
      <4> QED BY <3>1, <4>2
    <3> QED BY <3>9, <3>10
  <2> HIDE DEF good
  <2>3. N - i \in Nat BY <1>1
  <2>4. \A k \in 0..(N - i) : k \in good BY <2>1, <2>2, <2>3, StepByStep
  <2> USE DEF good
  <2> QED BY <2>4
<1>11. From(N)
  <2>1. N - i \in 0..(N - i) /\ i + (N - i) = N BY <1>1
  <2> QED BY <1>10, <2>1
<1>12. Joins(base, g[N], f[N])
  <2>1. PICK b : b = g[N] OBVIOUS
  <2>2. b \in Seq(MessageType) /\ f[N] = base \o b BY <1>11, <2>1
  <2>3. Joins(base, b, base \o b) BY <1>7, <2>2, ConcatJoins
  <2> QED BY <2>1, <2>2, <2>3
<1> QED BY <1>2, <1>3, <1>4, <1>7, <1>11, <1>12

(* Messages of users alone are a transcript without calls.                  *)
AllUsers(ms) == \A i \in 1..Len(ms) : ms[i].role = "user" /\ ms[i].calls = <<>>
(* Whatever their number.                                                   *)
LEMMA UsersArePiece ==
    ASSUME NEW ms \in Seq(MessageType), AllUsers(ms)
    PROVE  WellFormedAt(ms) /\ IdsOf(ms) = {}
<1>1. \A i \in 1..Len(ms) : ms[i].role = "user" /\ Range(ms[i].calls) = {}
  <2> SUFFICES ASSUME NEW i \in 1..Len(ms) PROVE ms[i].role = "user" /\ Range(ms[i].calls) = {}
    OBVIOUS
  <2>1. ms[i].role = "user" /\ ms[i].calls = <<>> BY DEF AllUsers
  <2> QED BY <2>1 DEF Range
<1>2. IdsOf(ms) = {} BY <1>1 DEF IdsOf
<1>3. \A a, k : ~IsCall(ms, a, k)
  <2>1. ASSUME NEW a, NEW k, IsCall(ms, a, k) PROVE FALSE
    <3>1. a \in 1..Len(ms) /\ ms[a].role = "assistant" BY <2>1 DEF IsCall
    <3>2. ms[a].role = "user" BY <1>1, <3>1
    <3> QED BY <3>1, <3>2
  <2> QED BY <2>1
<1> QED BY <1>1, <1>2, <1>3 DEF WellFormedAt, RoleIsKnown

(* One element and nothing; one and another.                                *)
LEMMA OneAndTwo ==
    ASSUME NEW S, NEW m \in S, NEW n \in S
    PROVE  <<m>> \o <<>> = <<m>> /\ <<m>> \o <<n>> = <<m, n>>
<1>1. <<m>> \in Seq(S) /\ <<n>> \in Seq(S) OBVIOUS
<1>2. <<m>> \o <<>> = <<m>> BY <1>1, ConcatEmptySeq
<1>3. PICK x, y, w : x = <<m>> /\ y = <<m, n>> /\ w = <<n>> OBVIOUS
<1>4. x \in Seq(S) /\ Len(x) = 1 /\ x[1] = m BY <1>3
<1>5. y \in Seq(S) /\ Len(y) = 2 /\ y[1] = m /\ y[2] = n BY <1>3
<1>6. w \in Seq(S) /\ Len(w) = 1 /\ w[1] = n BY <1>3
<1>7. PICK z : z = x \o w OBVIOUS
<1>8. z \in Seq(S) /\ Len(z) = 2 /\ z[1] = m /\ z[2] = n
  <2>1. Joins(x, w, z) /\ z \in Seq(S) BY <1>4, <1>6, <1>7, ConcatJoins
  <2>2. 1 \in 1..Len(x) /\ 1 \in 1..Len(w) /\ Len(x) + 1 = 2 /\ Len(x) + Len(w) = 2 BY <1>4, <1>6
  <2> QED BY <1>4, <1>6, <2>1, <2>2 DEF Joins
<1>9. \A i \in 1..2 : i = 1 \/ i = 2 OBVIOUS
<1>10. \A i \in 1..Len(y) : y[i] = z[i] BY <1>5, <1>8, <1>9
<1>11. y = z BY <1>5, <1>8, <1>10, SeqEqual
<1> QED BY <1>2, <1>3, <1>7, <1>11

(* So is what precedes the kept messages of a compacted ledger.             *)
LEMMA PrefaceIsPiece ==
    ASSUME NEW says, says \in Sayings, NEW says2, says2 \in Sayings
    PROVE  /\ FreshPiece(<<User(says)>>, {})
           /\ FreshPiece(<<User(says)>> \o <<>>, {})
           /\ FreshPiece(<<User(says)>> \o <<User(says2)>>, {})
<1>1. PICK m, n : m = User(says) /\ n = User(says2) OBVIOUS
<1>2. IsUser(m, says) /\ IsUser(n, says2) BY <1>1, UserIs
<1>3. m \in MessageType /\ m.role = "user" /\ m.calls = <<>> /\ n \in MessageType /\ n.role = "user" /\ n.calls = <<>>
  BY <1>2 DEF IsUser
<1>4. PICK one : one = <<m>> OBVIOUS
<1>5. PICK two : two = <<m, n>> OBVIOUS
<1>6. one \in Seq(MessageType) /\ Len(one) = 1 /\ one[1] = m BY <1>3, <1>4
<1>7. two \in Seq(MessageType) /\ Len(two) = 2 /\ two[1] = m /\ two[2] = n BY <1>3, <1>5
<1>8. <<m>> \o <<>> = one /\ <<m>> \o <<n>> = two
  <2> DEFINE S == MessageType
  <2>1. m \in S /\ n \in S BY <1>3
  <2> HIDE DEF S
  <2> QED BY <1>4, <1>5, <2>1, OneAndTwo
<1>9. AllUsers(one)
  <2>1. \A i \in 1..1 : i = 1 OBVIOUS
  <2> QED BY <1>3, <1>6, <2>1 DEF AllUsers
<1>10. AllUsers(two)
  <2>1. \A i \in 1..2 : i = 1 \/ i = 2 OBVIOUS
  <2> QED BY <1>3, <1>7, <2>1 DEF AllUsers
<1>11. FreshPiece(one, {}) /\ FreshPiece(two, {}) BY <1>6, <1>7, <1>9, <1>10, UsersArePiece DEF FreshPiece
<1> QED BY <1>1, <1>4, <1>8, <1>11

(* The ledger's rows in the order of their ids; the state it is read with.  *)
Ordered(rs) == \A i, j \in 1..Len(rs) : i < j => rs[i].id < rs[j].id
StoredType ==
    [version : Nat, head : Nat, focus : {"none", "partial"}, cursors : {"valid", "notJson", "negative"}]

(* Writing messages after a ledger changes nothing of its compactions.      *)
LEMMA CompactionsStay ==
    ASSUME NEW rs \in Seq(RowType), NEW ms \in Seq(MessageType), NEW all, NEW head \in Nat,
           Extends(rs, head, ms, all)
    PROVE  /\ CompactionsIn(all) = CompactionsIn(rs)
           /\ CompactionsIn(rs) # {} =>
                 \E i \in 1..Len(rs) : i = Max(CompactionsIn(rs)) /\ IsCompaction(rs[i])
                                       /\ Newest(rs) = rs[i] /\ Newest(all) = rs[i]
<1>1. /\ Len(rs) \in Nat /\ Len(ms) \in Nat /\ Len(all) = Len(rs) + Len(ms)
      /\ DOMAIN rs = 1..Len(rs) /\ DOMAIN all = 1..Len(all)
      /\ \A i \in 1..Len(ms) : ms[i] \in MessageType
  BY DEF Extends
<1>2. \A i \in 1..Len(all) : i \notin 1..Len(rs) => ~IsCompaction(all[i])
  <2> SUFFICES ASSUME NEW i \in 1..Len(all), i \notin 1..Len(rs) PROVE ~IsCompaction(all[i]) OBVIOUS
  <2>1. PICK k \in 1..Len(ms) : i = Len(rs) + k
    <3>1. i - Len(rs) \in 1..Len(ms) /\ i = Len(rs) + (i - Len(rs)) BY <1>1
    <3> QED BY <3>1
  <2>2. all[i] = MessageRow(head + k, ms[k]) BY <2>1 DEF Extends
  <2>3. head + k \in Nat BY <1>1
  <2> QED BY <1>1, <2>2, <2>3, MessageRowIs
<1>3. \A i \in 1..Len(rs) : i \in 1..Len(all) /\ all[i] = rs[i] BY <1>1 DEF Extends
<1>4. CompactionsIn(all) = CompactionsIn(rs) BY <1>1, <1>2, <1>3 DEF CompactionsIn
<1>5. ASSUME CompactionsIn(rs) # {}
      PROVE \E i \in 1..Len(rs) : i = Max(CompactionsIn(rs)) /\ IsCompaction(rs[i])
                                  /\ Newest(rs) = rs[i] /\ Newest(all) = rs[i]
  <2>1. CompactionsIn(rs) \subseteq 0..Len(rs) BY <1>1 DEF CompactionsIn
  <2>2. Max(CompactionsIn(rs)) \in CompactionsIn(rs) BY <1>1, <1>5, <2>1, MaxIsGreatest
  <2>3. PICK i : i = Max(CompactionsIn(rs)) OBVIOUS
  <2>4. i \in 1..Len(rs) /\ IsCompaction(rs[i]) BY <1>1, <2>2, <2>3 DEF CompactionsIn
  <2>5. Newest(rs) = rs[i] /\ Newest(all) = all[i] BY <1>4, <2>3 DEF Newest
  <2> QED BY <1>3, <2>3, <2>4, <2>5
<1> QED BY <1>4, <1>5

(* Nor of what is kept: the active messages are the old ones and the new.   *)
IdsUpTo(rs, head) == \A i \in 1..Len(rs) : rs[i].id <= head
(* After rows are written, all messages and the active ones have grown by   *)
(* what was written.                                                        *)
LEMMA ActiveExtends ==
    ASSUME NEW rs \in Seq(RowType), NEW ms \in Seq(MessageType), NEW all, NEW head \in Nat,
           Extends(rs, head, ms, all), IdsUpTo(rs, head)
    PROVE  /\ MessagesOf(all) = MessagesOf(rs) \o ms
           /\ ActiveMessages(all) = ActiveMessages(rs) \o ms
<1>1. /\ Len(rs) \in Nat /\ Len(ms) \in Nat /\ Len(all) = Len(rs) + Len(ms)
      /\ DOMAIN rs = 1..Len(rs) /\ DOMAIN all = 1..Len(all)
      /\ \A i \in 1..Len(ms) : ms[i] \in MessageType
      /\ \A i \in 1..Len(rs) : rs[i] \in RowType
  BY DEF Extends
<1>2. \A n \in 1..Len(rs) : n \in DOMAIN all /\ n \in DOMAIN rs /\ all[n] = rs[n] BY <1>1 DEF Extends
<1>3. \A n \in 1..Len(ms) : /\ Len(rs) + n \in DOMAIN all /\ all[Len(rs) + n].id = head + n
  <2> SUFFICES ASSUME NEW n \in 1..Len(ms)
               PROVE Len(rs) + n \in DOMAIN all /\ all[Len(rs) + n].id = head + n
    OBVIOUS
  <2>1. all[Len(rs) + n] = MessageRow(head + n, ms[n]) BY DEF Extends
  <2>2. head + n \in Nat /\ ms[n] \in MessageType BY <1>1
  <2>3. MessageRow(head + n, ms[n]).id = head + n BY <2>2, MessageRowIs
  <2> QED BY <1>1, <2>1, <2>3
<1>4. KeepsTheSame(rs, DOMAIN rs, Len(ms), DOMAIN all) BY <1>2, <1>3 DEF KeepsTheSame
<1>5. MessagesOf(all) = MessagesOf(rs) \o ms
  <2>1. ChoosesMore(all, DOMAIN all, rs, DOMAIN rs, ms) BY <1>4, SelectionExtends
  <2> QED BY <2>1 DEF MessagesOf, ChoosesMore
<1>6. CASE CompactionsIn(rs) = {}
  <2>1. CompactionsIn(all) = {} BY <1>6, CompactionsStay
  <2> QED BY <1>5, <1>6, <2>1 DEF ActiveMessages
<1>7. CASE CompactionsIn(rs) # {}
  <2>1. CompactionsIn(all) # {} BY <1>7, CompactionsStay
  <2>2. PICK i \in 1..Len(rs) : Newest(rs) = rs[i] /\ Newest(all) = rs[i] BY <1>7, CompactionsStay
  <2>3. PICK c : c = rs[i] OBVIOUS
  <2>4. c.id \in Nat /\ c.id <= head /\ c.firstKept \in Nat
    BY <1>1, <2>3 DEF RowType, IdsUpTo
  <2> DEFINE Stays(r) == r.id > c.id \/ (c.firstKept # 0 /\ r.id >= c.firstKept)
  <2>5. PICK old : old = {n \in DOMAIN rs : Stays(rs[n])} OBVIOUS
  <2>6. PICK new : new = {n \in DOMAIN all : Stays(all[n])} OBVIOUS
  <2>7. ActiveMessages(rs) = MessagesAt(rs, old)
    BY <1>7, <2>2, <2>3, <2>5, Zenon DEF ActiveMessages
  <2>8. ActiveMessages(all) = MessagesAt(all, new)
    BY <2>1, <2>2, <2>3, <2>6, Zenon DEF ActiveMessages
  <2>9. KeepsTheSame(rs, old, Len(ms), new)
    <3>1. \A n \in 1..Len(rs) : n \in new <=> n \in old
      <4> HIDE DEF Kept
      <4> QED BY <1>2, <2>5, <2>6, Zenon
    <3>2. \A n \in 1..Len(ms) : Len(rs) + n \in new
      <4> SUFFICES ASSUME NEW n \in 1..Len(ms) PROVE Len(rs) + n \in new OBVIOUS
      <4>1. all[Len(rs) + n].id = head + n /\ Len(rs) + n \in DOMAIN all BY <1>3
      <4>2. all[Len(rs) + n].id > c.id BY <1>1, <2>4, <4>1
      <4> QED BY <2>6, <4>1, <4>2
    <3> QED BY <3>1, <3>2 DEF KeepsTheSame
  <2>10. ChoosesMore(all, new, rs, old, ms) BY <2>9, SelectionExtends
  <2> QED BY <1>5, <2>7, <2>8, <2>10 DEF ChoosesMore
<1> QED BY <1>5, <1>6, <1>7

(* What stands before the kept messages of a compacted ledger.              *)
Preface(attention) == <<User("summary")>> \o (IF attention THEN <<User("attention")>> ELSE <<>>)

(* It is a transcript without calls.                                        *)
LEMMA PrefaceIs ==
    ASSUME NEW attention, attention \in BOOLEAN
    PROVE  FreshPiece(Preface(attention), {})
<1>1. "summary" \in Sayings /\ "attention" \in Sayings
  <2>1. PICK e : e = NothingSaid OBVIOUS
  <2> QED BY DEF Sayings
<1>2. FreshPiece(<<User("summary")>> \o <<>>, {}) /\ FreshPiece(<<User("summary")>> \o <<User("attention")>>, {})
  BY <1>1, PrefaceIsPiece
<1>3. CASE attention = TRUE BY <1>2, <1>3, Zenon DEF Preface
<1>4. CASE attention = FALSE BY <1>2, <1>4, Zenon DEF Preface
<1> QED BY <1>3, <1>4

(* The ids of a ledger's calls.                                             *)
IdsKnown(rs, most) == \A i \in 1..Len(rs) : Range(rs[i].message.calls) \subseteq 0..most

(* What is read of typed rows is typed, with no other ids than the rows'.   *)
ReadAs(rs, ms) == ms \in Seq(MessageType) /\ \A most \in Nat : IdsKnown(rs, most) => IdsOf(ms) \subseteq 0..most
(* Any selection of rows is read that way.                                  *)
LEMMA ReadTyped ==
    ASSUME NEW rs \in Seq(RowType), NEW kept
    PROVE  ReadAs(rs, MessagesAt(rs, kept))
<1>1. Len(rs) \in Nat /\ Len(rs) \in 0..Len(rs) OBVIOUS
<1>2. PICK f : Selects(rs, kept, f) /\ MessagesAt(rs, kept) = f[Len(rs)] BY <1>1, SelectionIs
<1>3. PICK ms : ms = MessagesAt(rs, kept) OBVIOUS
<1>4. ms \in Seq(MessageType) /\ ComesFrom(rs, ms) BY <1>1, <1>2, <1>3, SelectionTyped
<1>5. ASSUME NEW most \in Nat, IdsKnown(rs, most) PROVE IdsOf(ms) \subseteq 0..most
  <2> SUFFICES ASSUME NEW id \in IdsOf(ms) PROVE id \in 0..most OBVIOUS
  <2>1. PICK j \in 1..Len(ms) : id \in Range(ms[j].calls) BY DEF IdsOf
  <2>2. PICK i \in 1..Len(rs) : ms[j] = rs[i].message BY <1>4 DEF ComesFrom
  <2>3. Range(rs[i].message.calls) \subseteq 0..most BY <1>5 DEF IdsKnown
  <2> QED BY <2>1, <2>2, <2>3
<1> QED BY <1>3, <1>4, <1>5 DEF ReadAs

(* The active messages are some of the rows'.                               *)
LEMMA ActiveTyped ==
    ASSUME NEW rs \in Seq(RowType)
    PROVE  ReadAs(rs, MessagesOf(rs)) /\ ReadAs(rs, ActiveMessages(rs))
<1>1. ReadAs(rs, MessagesOf(rs)) BY ReadTyped DEF MessagesOf
<1>2. \E kept : ActiveMessages(rs) = MessagesAt(rs, kept)
  <2>1. CASE CompactionsIn(rs) = {} BY <2>1, Zenon DEF ActiveMessages, MessagesOf
  <2>2. CASE CompactionsIn(rs) # {}
    <3>1. PICK c : c = Newest(rs) OBVIOUS
    <3>2. PICK kept : kept = {i \in DOMAIN rs : rs[i].id > c.id \/ (c.firstKept # 0 /\ rs[i].id >= c.firstKept)}
      OBVIOUS
    <3>3. ActiveMessages(rs) = MessagesAt(rs, kept) BY <2>2, <3>1, <3>2, Zenon DEF ActiveMessages
    <3> QED BY <3>3
  <2> QED BY <2>1, <2>2
<1>3. PICK kept : ActiveMessages(rs) = MessagesAt(rs, kept) BY <1>2
<1>4. ReadAs(rs, MessagesAt(rs, kept)) BY ReadTyped
<1> QED BY <1>1, <1>3, <1>4

(* The projection: the active messages, or a preface and these.             *)
ProjectsAs(rs, pre) ==
    /\ FreshPiece(pre, {})
    /\ Projected(rs) = pre \o ActiveMessages(rs)
(* Without a compaction the projection is all messages, with one it is the  *)
(* newest one's preface and the active messages.                            *)
LEMMA ProjectedIs ==
    ASSUME NEW rs \in Seq(RowType)
    PROVE  /\ CompactionsIn(rs) = {} => Projected(rs) = MessagesOf(rs) /\ ActiveMessages(rs) = MessagesOf(rs)
           /\ CompactionsIn(rs) # {} => ProjectsAs(rs, Preface(Newest(rs).attention))
<1>1. CASE CompactionsIn(rs) = {} BY <1>1, Zenon DEF Projected, ActiveMessages
<1>2. CASE CompactionsIn(rs) # {}
  <2>1. CompactionsIn(rs) \subseteq 0..Len(rs) /\ Len(rs) \in Nat BY DEF CompactionsIn
  <2>2. Max(CompactionsIn(rs)) \in CompactionsIn(rs) BY <1>2, <2>1, MaxIsGreatest
  <2>3. Newest(rs) \in RowType BY <2>2 DEF Newest, CompactionsIn
  <2>4. Newest(rs).attention \in BOOLEAN BY <2>3 DEF RowType
  <2>5. FreshPiece(Preface(Newest(rs).attention), {}) BY <2>4, PrefaceIs
  <2>6. Projected(rs) = Preface(Newest(rs).attention) \o ActiveMessages(rs)
    BY <1>2, Zenon DEF Projected, Preface
  <2> QED BY <1>2, <2>5, <2>6, Zenon DEF ProjectsAs
<1> QED BY <1>1, <1>2

(* The projection is a sequence of messages, with the rows' ids.            *)
LEMMA ProjectedTyped ==
    ASSUME NEW rs \in Seq(RowType)
    PROVE  ReadAs(rs, Projected(rs))
<1>1. ReadAs(rs, MessagesOf(rs)) /\ ReadAs(rs, ActiveMessages(rs)) BY ActiveTyped
<1>2. CASE CompactionsIn(rs) = {}
  <2>1. Projected(rs) = MessagesOf(rs) BY <1>2, ProjectedIs
  <2> QED BY <1>1, <2>1
<1>3. CASE CompactionsIn(rs) # {}
  <2>1. PICK pre : FreshPiece(pre, {}) /\ Projected(rs) = pre \o ActiveMessages(rs)
    BY <1>3, ProjectedIs DEF ProjectsAs
  <2>2. PICK act : act = ActiveMessages(rs) OBVIOUS
  <2>3. pre \in Seq(MessageType) /\ act \in Seq(MessageType) BY <1>1, <2>1, <2>2 DEF FreshPiece, ReadAs
  <2>4. Joins(pre, act, pre \o act) /\ pre \o act \in Seq(MessageType) BY <2>3, ConcatJoins
  <2>5. MessageSeq(pre) /\ MessageSeq(act) BY <2>3, TypedMessages
  <2>6. IdsOf(pre \o act) = IdsOf(pre) \cup IdsOf(act) BY <2>4, <2>5, JoinedPositions
  <2>7. IdsOf(pre) = {} BY <2>1 DEF FreshPiece
  <2>8. IdsOf(Projected(rs)) = IdsOf(act) BY <2>1, <2>2, <2>6, <2>7
  <2> QED BY <1>1, <2>1, <2>2, <2>4, <2>8 DEF ReadAs
<1> QED BY <1>2, <1>3

(* Written messages extend the projection as they extend the transcript.    *)
LEMMA ProjectedExtends ==
    ASSUME NEW rs \in Seq(RowType), NEW ms \in Seq(MessageType), NEW all \in Seq(RowType), NEW head \in Nat,
           Extends(rs, head, ms, all), IdsUpTo(rs, head)
    PROVE  Projected(all) = Projected(rs) \o ms
<1>1. MessagesOf(all) = MessagesOf(rs) \o ms /\ ActiveMessages(all) = ActiveMessages(rs) \o ms
  BY ActiveExtends
<1>2. CompactionsIn(all) = CompactionsIn(rs) BY CompactionsStay
<1>3. CASE CompactionsIn(rs) = {}
  <2>1. Projected(rs) = MessagesOf(rs) /\ Projected(all) = MessagesOf(all) BY <1>2, <1>3, ProjectedIs
  <2> QED BY <1>1, <2>1
<1>4. CASE CompactionsIn(rs) # {}
  <2>1. Newest(all) = Newest(rs) BY <1>4, CompactionsStay
  <2>2. PICK pre : pre = Preface(Newest(rs).attention) OBVIOUS
  <2>3. ProjectsAs(rs, pre) /\ ProjectsAs(all, pre) BY <1>2, <1>4, <2>1, <2>2, ProjectedIs
  <2>4. Projected(rs) = pre \o ActiveMessages(rs) /\ Projected(all) = pre \o ActiveMessages(all)
        /\ pre \in Seq(MessageType)
    BY <2>3 DEF ProjectsAs, FreshPiece
  <2>5. PICK act : act = ActiveMessages(rs) OBVIOUS
  <2>6. act \in Seq(MessageType)
    <3>1. ReadAs(rs, ActiveMessages(rs)) BY ActiveTyped
    <3> QED BY <2>5, <3>1 DEF ReadAs
  <2>7. (pre \o act) \o ms = pre \o (act \o ms)
    <3> DEFINE S == MessageType
    <3>1. pre \in Seq(S) /\ act \in Seq(S) /\ ms \in Seq(S) BY <2>4, <2>6
    <3> HIDE DEF S
    <3> QED BY <3>1, ConcatAssociative, SMTT(30)
  <2> QED BY <1>1, <2>4, <2>5, <2>7
<1> QED BY <1>3, <1>4

-----------------------------------------------------------------------------
(* A write to an accepted ledger; a compaction of one.                       *)

(* What writing messages does to the rows, their ids and their calls' ids.  *)
Written(rs, head, ms, all) ==
    /\ all \in Seq(RowType) /\ Extends(rs, head, ms, all)
    /\ Ordered(all) /\ IdsUpTo(all, head + Len(ms))
    /\ Len(ms) >= 1 => LastId(all) = head + Len(ms)
    /\ \A most \in Nat : IdsKnown(rs, most) /\ IdsOf(ms) \subseteq 0..most => IdsKnown(all, most)
    /\ (\A i \in 1..Len(rs) : IsCompaction(rs[i]) => rs[i].firstKept <= rs[i].id)
         => \A i \in 1..Len(all) : IsCompaction(all[i]) => all[i].firstKept <= all[i].id
(* Rows that a commit makes are written that way: in order, with the ids    *)
(* that follow the head.                                                    *)
LEMMA WrittenIs ==
    ASSUME NEW rs \in Seq(RowType), NEW ms \in Seq(MessageType), NEW head \in Nat, NEW all,
           all = rs \o RowsOf(head, ms), Ordered(rs), IdsUpTo(rs, head)
    PROVE  Written(rs, head, ms, all)
<1> DEFINE N == Len(rs)
           M == Len(ms)
<1>1. /\ N \in Nat /\ M \in Nat /\ DOMAIN ms = 1..M /\ \A i \in 1..M : ms[i] \in MessageType
      /\ \A i \in 1..N : rs[i] \in RowType /\ rs[i].id \in Nat
  <2>1. \A r \in RowType : r.id \in Nat BY DEF RowType
  <2> QED BY <2>1
<1>2. PICK new : new = RowsOf(head, ms) OBVIOUS
<1>3. /\ DOMAIN new = 1..M
      /\ \A i \in 1..M : new[i] = MessageRow(head + i, ms[i])
  BY <1>1, <1>2 DEF RowsOf
<1>4. \A i \in 1..M : /\ new[i] \in RowType /\ new[i].id = head + i /\ new[i].message = ms[i]
                      /\ ~IsCompaction(new[i])
  <2> SUFFICES ASSUME NEW i \in 1..M
               PROVE /\ new[i] \in RowType /\ new[i].id = head + i /\ new[i].message = ms[i]
                     /\ ~IsCompaction(new[i])
    OBVIOUS
  <2>1. head + i \in Nat /\ ms[i] \in MessageType BY <1>1
  <2> QED BY <1>3, <2>1, MessageRowIs
<1>5. new \in Seq(RowType) /\ Len(new) = M
  <2>1. new = [i \in 1..M |-> new[i]] BY <1>1, <1>2, <1>3 DEF RowsOf
  <2> QED BY <1>1, <1>4, <2>1
<1>6. Joins(rs, new, all) /\ all \in Seq(RowType) BY <1>2, <1>5, ConcatJoins
<1>7. /\ Len(all) = N + M /\ DOMAIN all = 1..Len(all)
      /\ \A i \in 1..N : all[i] = rs[i]
      /\ \A i \in 1..M : all[N + i] = new[i]
  BY <1>5, <1>6 DEF Joins
<1>8. Extends(rs, head, ms, all) BY <1>3, <1>7 DEF Extends
<1>9. \A i \in 1..Len(all) : i \in 1..N \/ (i - N \in 1..M /\ N + (i - N) = i) BY <1>1, <1>7
<1>10. \A i \in 1..Len(all) : all[i].id = IF i \in 1..N THEN rs[i].id ELSE head + (i - N)
  <2> SUFFICES ASSUME NEW i \in 1..Len(all)
               PROVE all[i].id = IF i \in 1..N THEN rs[i].id ELSE head + (i - N)
    OBVIOUS
  <2>1. CASE i \in 1..N BY <1>7, <2>1
  <2>2. CASE i \notin 1..N
    <3>1. i - N \in 1..M /\ N + (i - N) = i BY <1>9, <2>2
    <3>2. all[i] = new[i - N] BY <1>7, <3>1
    <3> QED BY <1>4, <2>2, <3>1, <3>2
  <2> QED BY <2>1, <2>2
<1>11. Ordered(all)
  <2> SUFFICES ASSUME NEW i \in 1..Len(all), NEW j \in 1..Len(all), i < j PROVE all[i].id < all[j].id
    BY DEF Ordered
  <2>1. CASE j \in 1..N
    <3>1. i \in 1..N BY <1>1, <2>1
    <3> QED BY <1>10, <2>1, <3>1 DEF Ordered
  <2>2. CASE j \notin 1..N /\ i \in 1..N
    <3>1. rs[i].id <= head /\ rs[i].id \in Nat BY <1>1, <2>2 DEF IdsUpTo
    <3> QED BY <1>1, <1>9, <1>10, <2>2, <3>1
  <2>3. CASE j \notin 1..N /\ i \notin 1..N BY <1>1, <1>9, <1>10, <2>3
  <2> QED BY <2>1, <2>2, <2>3
<1>12. IdsUpTo(all, head + M)
  <2> SUFFICES ASSUME NEW i \in 1..Len(all) PROVE all[i].id <= head + M BY DEF IdsUpTo
  <2>1. CASE i \in 1..N
    <3>1. rs[i].id <= head /\ rs[i].id \in Nat BY <1>1, <2>1 DEF IdsUpTo
    <3> QED BY <1>1, <1>10, <2>1, <3>1
  <2>2. CASE i \notin 1..N BY <1>1, <1>9, <1>10, <2>2
  <2> QED BY <2>1, <2>2
<1>13. M >= 1 => LastId(all) = head + M
  <2> SUFFICES ASSUME M >= 1 PROVE LastId(all) = head + M OBVIOUS
  <2>1. Len(all) \in 1..Len(all) /\ Len(all) \notin 1..N /\ Len(all) - N = M BY <1>1, <1>7
  <2>2. all # <<>> BY <1>7, <2>1
  <2>3. all[Len(all)].id = head + M BY <1>10, <2>1
  <2> QED BY <2>2, <2>3 DEF LastId, Last
<1>14. ASSUME NEW most \in Nat, IdsKnown(rs, most), IdsOf(ms) \subseteq 0..most PROVE IdsKnown(all, most)
  <2> SUFFICES ASSUME NEW i \in 1..Len(all) PROVE Range(all[i].message.calls) \subseteq 0..most
    BY DEF IdsKnown
  <2>1. CASE i \in 1..N BY <1>7, <1>14, <2>1 DEF IdsKnown
  <2>2. CASE i \notin 1..N
    <3>1. i - N \in 1..M /\ N + (i - N) = i BY <1>9, <2>2
    <3>2. all[i].message = ms[i - N] BY <1>4, <1>7, <3>1
    <3>3. Range(ms[i - N].calls) \subseteq IdsOf(ms) BY <3>1 DEF IdsOf
    <3> QED BY <1>14, <3>2, <3>3
  <2> QED BY <2>1, <2>2
<1>15. ASSUME \A i \in 1..N : IsCompaction(rs[i]) => rs[i].firstKept <= rs[i].id,
              NEW i \in 1..Len(all), IsCompaction(all[i])
       PROVE  all[i].firstKept <= all[i].id
  <2>1. CASE i \in 1..N BY <1>7, <1>15, <2>1
  <2>2. CASE i \notin 1..N
    <3>1. i - N \in 1..M /\ N + (i - N) = i BY <1>9, <2>2
    <3>2. ~IsCompaction(all[i]) BY <1>4, <1>7, <3>1
    <3> QED BY <1>15, <3>2
  <2> QED BY <2>1, <2>2
<1> QED BY <1>6, <1>8, <1>11, <1>12, <1>13, <1>14, <1>15 DEF Written

(* A ledger that is accepted stays so when a piece with new ids is written.  *)
Moved(s, n, t) ==
    t.version = s.version /\ t.focus = s.focus /\ t.cursors = s.cursors /\ t.head = s.head + n
IsNew(rs, ids) == \E most \in Nat : IdsKnown(rs, most) /\ ids \cap (0..most) = {}
(* The next start accepts them, and the projection grows by what was        *)
(* written.                                                                 *)
LEMMA WrittenIsAccepted ==
    ASSUME NEW rs \in Seq(RowType), NEW ms, NEW ids, FreshPiece(ms, ids), AllParse(ms), Len(ms) >= 1,
           NEW s \in StoredType, NEW t, Moved(s, Len(ms), t), NEW all,
           Accepts(rs, s), IdsUpTo(rs, s.head), Written(rs, s.head, ms, all), IsNew(rs, ids)
    PROVE  /\ Accepts(all, t) /\ Projected(all) = Projected(rs) \o ms
           /\ ValidateMessages(Projected(all)) /\ LastId(all) = t.head
<1> DEFINE N == Len(rs)
           M == Len(ms)
           head == s.head
<1>1. /\ ms \in Seq(MessageType) /\ WellFormedAt(ms) /\ IdsOf(ms) = ids
      /\ all \in Seq(RowType) /\ Extends(rs, head, ms, all) /\ head \in Nat
  BY DEF FreshPiece, Written, StoredType
<1>2. /\ N \in Nat /\ M \in Nat /\ Len(all) = N + M /\ DOMAIN all = 1..Len(all) /\ DOMAIN rs = 1..N
      /\ \A i \in 1..N : all[i] = rs[i]
      /\ \A i \in 1..M : all[N + i] = MessageRow(head + i, ms[i]) /\ ms[i] \in MessageType
  BY <1>1 DEF Extends
<1>3. /\ MessagesOf(all) = MessagesOf(rs) \o ms /\ Projected(all) = Projected(rs) \o ms
      /\ CompactionsIn(all) = CompactionsIn(rs)
  BY <1>1, ActiveExtends, ProjectedExtends, CompactionsStay
<1>4. /\ \A i \in DOMAIN rs : RowParses(rs[i])
      /\ StateParses(s) /\ s.head = LastId(rs)
      /\ ValidateMessages(MessagesOf(rs)) /\ ValidateMessages(Projected(rs))
      /\ s.focus # "partial" /\ s.cursors = "valid"
      /\ ChainHolds(rs) /\ BoundaryHolds(rs)
  BY DEF Accepts, Validate
<1>5. \A base \in {MessagesOf(rs), Projected(rs)} : ValidateMessages(base \o ms)
  <2> SUFFICES ASSUME NEW base \in {MessagesOf(rs), Projected(rs)} PROVE ValidateMessages(base \o ms)
    OBVIOUS
  <2>1. ReadAs(rs, base) /\ ValidateMessages(base)
    <3>1. ReadAs(rs, MessagesOf(rs)) /\ ReadAs(rs, Projected(rs)) BY ActiveTyped, ProjectedTyped
    <3> QED BY <1>4, <3>1
  <2>2. base \in Seq(MessageType) BY <2>1 DEF ReadAs
  <2>3. MessageSeq(base) /\ MessageSeq(ms) BY <1>1, <2>2, TypedMessages
  <2>4. WellFormedAt(base) BY <2>1, <2>3, ValidatorExact, WellFormedIs
  <2>5. IdsOf(base) \cap IdsOf(ms) = {}
    <3>1. PICK most \in Nat : IdsKnown(rs, most) /\ ids \cap (0..most) = {} BY DEF IsNew
    <3>2. IdsOf(base) \subseteq 0..most BY <2>1, <3>1 DEF ReadAs
    <3> QED BY <1>1, <3>1, <3>2
  <2>6. PICK c : c = base \o ms OBVIOUS
  <2>7. Joins(base, ms, c) BY <1>1, <2>2, <2>6, ConcatJoins
  <2>8. MessageSeq(c) BY <2>3, <2>7, JoinedPositions
  <2>9. WellFormedAt(c) BY <1>1, <2>3, <2>4, <2>5, <2>7, JoinedIsWellFormed
  <2> QED BY <2>6, <2>8, <2>9, ValidatorExact, WellFormedIs
<1>6. ValidateMessages(MessagesOf(all)) /\ ValidateMessages(Projected(all)) BY <1>3, <1>5
<1>7. \A i \in DOMAIN all : RowParses(all[i])
  <2> SUFFICES ASSUME NEW i \in DOMAIN all PROVE RowParses(all[i]) OBVIOUS
  <2>1. CASE i \in 1..N BY <1>2, <1>4, <2>1
  <2>2. CASE i \notin 1..N
    <3>1. PICK k \in 1..M : i = N + k
      <4>1. i - N \in 1..M /\ i = N + (i - N) BY <1>2, <2>2
      <4> QED BY <4>1
    <3>2. all[i] = MessageRow(head + k, ms[k]) /\ head + k \in Nat /\ ms[k] \in MessageType
      BY <1>1, <1>2, <3>1
    <3>3. /\ all[i].message = ms[k] /\ IsMessage(all[i]) /\ all[i].version = 1 /\ all[i].keys = "exact"
      BY <3>2, MessageRowIs
    <3>4. k \in DOMAIN ms BY <1>1
    <3>5. MessageParses(ms[k]) BY <3>4 DEF AllParse
    <3>6. all[i].type = "message" BY <3>3 DEF IsMessage
    <3> QED BY <3>3, <3>5, <3>6, Zenon DEF RowParses
  <2> QED BY <2>1, <2>2
<1>8. \A i \in 2..Len(all) : all[i - 1].id < all[i].id
  <2> SUFFICES ASSUME NEW i \in 2..Len(all) PROVE all[i - 1].id < all[i].id OBVIOUS
  <2>1. i \in 1..Len(all) /\ i - 1 \in 1..Len(all) /\ i - 1 < i BY <1>2
  <2>2. Ordered(all) BY DEF Written
  <2> QED BY <2>1, <2>2 DEF Ordered
<1>9. StateParses(t) /\ t.head = LastId(all) /\ t.focus # "partial" /\ t.cursors = "valid"
  <2>1. t.head = head + M /\ LastId(all) = head + M BY DEF Moved, Written
  <2> QED BY <1>4, <2>1 DEF Moved, StateParses
<1>10. ChainHolds(all)
  <2> SUFFICES ASSUME NEW i \in CompactionsIn(all)
               PROVE all[i].previous
                       = LET earlier == {j \in CompactionsIn(all) : j < i}
                         IN  IF earlier = {} THEN 0 ELSE all[Max(earlier)].id
    BY DEF ChainHolds
  <2>1. PICK earlier : earlier = {j \in CompactionsIn(rs) : j < i} OBVIOUS
  <2>2. earlier = {j \in CompactionsIn(all) : j < i} BY <1>3, <2>1
  <2>3. i \in CompactionsIn(rs) /\ i \in 1..N /\ all[i] = rs[i] BY <1>2, <1>3 DEF CompactionsIn
  <2>4. rs[i].previous = IF earlier = {} THEN 0 ELSE rs[Max(earlier)].id
    BY <1>4, <2>1, <2>3, Zenon DEF ChainHolds
  <2>5. earlier # {} => Max(earlier) \in 1..N
    <3>1. earlier \subseteq 0..N BY <1>2, <2>1 DEF CompactionsIn
    <3>2. earlier # {} => Max(earlier) \in earlier BY <1>2, <3>1, MaxIsGreatest
    <3> QED BY <1>2, <2>1, <3>2 DEF CompactionsIn
  <2>6. earlier # {} => all[Max(earlier)] = rs[Max(earlier)] BY <1>2, <2>5
  <2>7. all[i].previous = IF earlier = {} THEN 0 ELSE all[Max(earlier)].id BY <2>3, <2>4, <2>6
  <2> QED BY <2>2, <2>7, Zenon
<1>11. BoundaryHolds(all)
  <2> SUFFICES ASSUME CompactionsIn(all) # {}, Newest(all).firstKept # 0
               PROVE \E i \in DOMAIN all : /\ all[i].id = Newest(all).firstKept
                                           /\ IsMessage(all[i]) /\ all[i].message.role # "tool"
    BY DEF BoundaryHolds
  <2>1. Newest(all) = Newest(rs) /\ CompactionsIn(rs) # {} BY <1>1, <1>3, CompactionsStay
  <2>2. PICK i \in DOMAIN rs : /\ rs[i].id = Newest(rs).firstKept
                               /\ IsMessage(rs[i]) /\ rs[i].message.role # "tool"
    BY <1>4, <2>1 DEF BoundaryHolds
  <2>3. i \in DOMAIN all /\ all[i] = rs[i] BY <1>2
  <2> QED BY <2>1, <2>2, <2>3
<1> QED BY <1>3, <1>6, <1>7, <1>8, <1>9, <1>10, <1>11 DEF Accepts, Validate

(* A compaction keeps from a row that was there before it.                  *)
KeptBefore(rs) == \A i \in 1..Len(rs) : IsCompaction(rs[i]) => rs[i].firstKept <= rs[i].id

(* A boundary that is no result cuts no group of a sound transcript.        *)
LEMMA BoundaryCuts ==
    ASSUME NEW rs \in Seq(RowType), Ordered(rs), KeptBefore(rs),
           ValidateMessages(MessagesOf(rs)), BoundaryHolds(rs),
           CompactionsIn(rs) = {} \/ Newest(rs).firstKept # 0
    PROVE  ValidateMessages(Projected(rs))
<1>1. CASE CompactionsIn(rs) = {}
  <2>1. Projected(rs) = MessagesOf(rs) BY <1>1, ProjectedIs
  <2> QED BY <2>1
<1>2. CASE CompactionsIn(rs) # {}
  <2>1. Len(rs) \in Nat /\ DOMAIN rs = 1..Len(rs) /\ \A i \in 1..Len(rs) : rs[i] \in RowType OBVIOUS
  <2>2. PICK c : c = Newest(rs) OBVIOUS
  <2>3. PICK last \in 1..Len(rs) : c = rs[last] /\ IsCompaction(rs[last])
    <3>1. CompactionsIn(rs) \subseteq 0..Len(rs) BY <2>1 DEF CompactionsIn
    <3>2. Max(CompactionsIn(rs)) \in CompactionsIn(rs) BY <1>2, <2>1, <3>1, MaxIsGreatest
    <3> QED BY <2>1, <2>2, <3>2 DEF Newest, CompactionsIn
  <2>4. c.firstKept # 0 BY <1>2, <2>2
  <2>5. PICK i \in 1..Len(rs) : /\ rs[i].id = c.firstKept /\ IsMessage(rs[i])
                                /\ rs[i].message.role # "tool"
    BY <1>2, <2>1, <2>2, <2>4 DEF BoundaryHolds
  <2>6. \A n \in 1..Len(rs) : rs[n].id \in Nat /\ n \in Nat
    <3>1. \A r \in RowType : r.id \in Nat BY DEF RowType
    <3> QED BY <2>1, <3>1
  <2>7. c.firstKept \in Nat /\ c.id \in Nat /\ c.firstKept <= c.id /\ rs[i].id <= c.id
    BY <2>1, <2>3, <2>5 DEF RowType, KeptBefore
  <2> DEFINE Stays(r) == r.id > c.id \/ (c.firstKept # 0 /\ r.id >= c.firstKept)
  <2>8. PICK kept : kept = {n \in DOMAIN rs : Stays(rs[n])} OBVIOUS
  <2>9. ActiveMessages(rs) = MessagesAt(rs, kept) BY <1>2, <2>2, <2>8, Zenon DEF ActiveMessages
  <2>10. KeepsFrom(rs, kept, i)
    <3> SUFFICES ASSUME NEW n \in 1..Len(rs) PROVE n \in kept <=> n >= i BY DEF KeepsFrom
    <3>1. n \in kept <=> rs[n].id > c.id \/ rs[n].id >= rs[i].id BY <2>1, <2>4, <2>5, <2>8
    <3>2. CASE n >= i
      <4>1. n = i \/ rs[i].id < rs[n].id BY <2>6, <3>2 DEF Ordered
      <4> QED BY <2>6, <3>1, <3>2, <4>1
    <3>3. CASE ~(n >= i)
      <4>1. rs[n].id < rs[i].id BY <2>6, <3>3 DEF Ordered
      <4> QED BY <2>6, <2>7, <3>1, <3>3, <4>1
    <3> QED BY <3>2, <3>3
  <2>11. /\ \E a \in Seq(MessageType) : Joins(a, MessagesAt(rs, kept), MessagesAt(rs, DOMAIN rs))
         /\ MessagesAt(rs, kept) \in Seq(MessageType)
         /\ MessagesAt(rs, kept)[1] = rs[i].message
    BY <2>1, <2>5, <2>10, SelectionSplits
  <2>12. PICK a \in Seq(MessageType) : Joins(a, MessagesAt(rs, kept), MessagesAt(rs, DOMAIN rs))
    BY <2>11
  <2>13. PICK b : b = MessagesAt(rs, kept) OBVIOUS
  <2>14. PICK whole : whole = MessagesOf(rs) OBVIOUS
  <2>15. Joins(a, b, whole) BY <2>12, <2>13, <2>14 DEF MessagesOf
  <2>16. MessageSeq(a) /\ MessageSeq(b) BY <2>11, <2>13, TypedMessages
  <2>17. MessageSeq(whole) BY <2>15, <2>16, JoinedPositions
  <2>18. WellFormedAt(whole) BY <2>14, <2>17, ValidatorExact, WellFormedIs
  <2>19. Len(b) = 0 \/ b[1].role # "tool" BY <2>5, <2>11, <2>13
  <2>20. WellFormedAt(b) BY <2>15, <2>16, <2>18, <2>19, RestIsWellFormed
  <2>21. PICK pre : FreshPiece(pre, {}) /\ Projected(rs) = pre \o ActiveMessages(rs)
    BY <1>2, ProjectedIs DEF ProjectsAs
  <2>22. pre \in Seq(MessageType) /\ WellFormedAt(pre) /\ IdsOf(pre) = {} BY <2>21 DEF FreshPiece
  <2>23. Projected(rs) = pre \o b BY <2>9, <2>13, <2>21
  <2>24. PICK all : all = pre \o b OBVIOUS
  <2>25. Joins(pre, b, all) BY <2>11, <2>13, <2>22, <2>24, ConcatJoins
  <2>26. MessageSeq(pre) BY <2>22, TypedMessages
  <2>27. WellFormedAt(all) BY <2>16, <2>20, <2>22, <2>25, <2>26, JoinedIsWellFormed
  <2>28. MessageSeq(all) BY <2>16, <2>25, <2>26, JoinedPositions
  <2> QED BY <2>23, <2>24, <2>27, <2>28, ValidatorExact, WellFormedIs
<1> QED BY <1>1, <1>2

-----------------------------------------------------------------------------
(* Rows at the start, and what a compaction adds.                           *)

(* The ids of ordered rows go up to the last one's.                         *)
LEMMA LastIsGreatest ==
    ASSUME NEW rs \in Seq(RowType), Ordered(rs)
    PROVE  IdsUpTo(rs, LastId(rs)) /\ LastId(rs) \in Nat
<1>1. Len(rs) \in Nat /\ \A i \in 1..Len(rs) : rs[i].id \in Nat
  <2>1. \A r \in RowType : r.id \in Nat BY DEF RowType
  <2> QED BY <2>1
<1>2. CASE rs = <<>>
  <2>1. LastId(rs) = 0 /\ Len(rs) = 0 BY <1>2, Zenon DEF LastId
    <2> QED BY <2>1 DEF IdsUpTo
<1>3. CASE rs # <<>>
  <2>1. LastId(rs) = rs[Len(rs)].id BY <1>3, Zenon DEF LastId, Last
  <2>2. Len(rs) \in 1..Len(rs) BY <1>1, <1>3
  <2>3. ASSUME NEW i \in 1..Len(rs) PROVE rs[i].id <= rs[Len(rs)].id
    <3>1. CASE i = Len(rs) BY <1>1, <3>1
    <3>2. CASE i < Len(rs) BY <1>1, <2>2, <3>2 DEF Ordered
    <3> QED BY <1>1, <3>1, <3>2
  <2> QED BY <1>1, <2>1, <2>2, <2>3 DEF IdsUpTo
<1> QED BY <1>2, <1>3

(* A compaction row says nothing itself, and has the fields it is made with. *)
IsCompactionRow(r, id, firstKept, previous, keys) ==
    /\ r \in RowType /\ IsCompaction(r) /\ ~IsMessage(r)
    /\ r.id = id /\ r.firstKept = firstKept /\ r.previous = previous
    /\ r.version = 1 /\ r.keys = keys
    /\ r.message.role = "user" /\ r.message.calls = <<>>

(* That is what the model writes for one.                                   *)
LEMMA CompactionRowIs ==
    ASSUME NEW id \in Nat, NEW firstKept \in Nat, NEW previous \in Nat,
           NEW attention, attention \in BOOLEAN, NEW keys, keys \in KeyForms
    PROVE  IsCompactionRow(CompactionRow(id, firstKept, previous, attention, keys),
                           id, firstKept, previous, keys)
<1>1. PICK m : m = User(NothingSaid) OBVIOUS
<1>2. m \in MessageType /\ m.role = "user" /\ m.calls = <<>>
  <2>1. NothingSaid \in Sayings BY Zenon DEF Sayings
  <2>2. IsUser(m, NothingSaid) BY <1>1, <2>1, UserIs
  <2> QED BY <2>2 DEF IsUser
<1>3. PICK n : n = attention OBVIOUS
<1>4. PICK r : r = [id |-> id, type |-> "compaction", keys |-> keys, version |-> 1, message |-> m,
                    firstKept |-> firstKept, previous |-> previous, attention |-> n]
  OBVIOUS
<1>5. CompactionRow(id, firstKept, previous, attention, keys) = r
  BY <1>1, <1>3, <1>4, Zenon DEF CompactionRow, NothingSaid
<1>6. n \in BOOLEAN BY <1>3
<1>7. r \in RowType
  <2> HIDE <1>1, <1>3
  <2> QED BY <1>2, <1>4, <1>6 DEF RowType, RowKinds
<1>8. r.id = id /\ r.type = "compaction" /\ r.keys = keys /\ r.version = 1 /\ r.message = m
      /\ r.firstKept = firstKept /\ r.previous = previous
  BY <1>4
<1>9. IsCompaction(r) /\ ~IsMessage(r) BY <1>8 DEF IsCompaction, IsMessage
<1> QED BY <1>2, <1>5, <1>7, <1>8, <1>9 DEF IsCompactionRow

(* Rows of users alone give messages of users alone.                        *)
UserRows(rs) == \A i \in 1..Len(rs) : rs[i].message.role = "user" /\ rs[i].message.calls = <<>>

(* Whatever is chosen of them.                                              *)
LEMMA UsersChosen ==
    ASSUME NEW rs \in Seq(RowType), UserRows(rs), NEW kept
    PROVE  MessagesAt(rs, kept) \in Seq(MessageType) /\ AllUsers(MessagesAt(rs, kept))
<1>1. Len(rs) \in Nat /\ Len(rs) \in 0..Len(rs) OBVIOUS
<1>2. PICK f : Selects(rs, kept, f) /\ MessagesAt(rs, kept) = f[Len(rs)] BY <1>1, SelectionIs
<1>3. PICK ms : ms = MessagesAt(rs, kept) OBVIOUS
<1>4. ms \in Seq(MessageType) /\ ComesFrom(rs, ms) BY <1>1, <1>2, <1>3, SelectionTyped
<1>5. AllUsers(ms)
  <2> SUFFICES ASSUME NEW j \in 1..Len(ms) PROVE ms[j].role = "user" /\ ms[j].calls = <<>>
    BY DEF AllUsers
  <2>1. PICK i \in 1..Len(rs) : ms[j] = rs[i].message BY <1>4 DEF ComesFrom
  <2> QED BY <2>1 DEF UserRows
<1> QED BY <1>3, <1>4, <1>5

(* They and their projection are transcripts.                               *)
LEMMA UsersAreAccepted ==
    ASSUME NEW rs \in Seq(RowType), UserRows(rs)
    PROVE  ValidateMessages(MessagesOf(rs)) /\ ValidateMessages(Projected(rs))
<1>1. ASSUME NEW ms, ms \in Seq(MessageType), AllUsers(ms)
      PROVE  FreshPiece(ms, {}) /\ ValidateMessages(ms)
  <2>1. WellFormedAt(ms) /\ IdsOf(ms) = {} BY <1>1, UsersArePiece
  <2>2. MessageSeq(ms) BY <1>1, TypedMessages
  <2>3. ValidateMessages(ms) BY <2>1, <2>2, ValidatorExact, WellFormedIs
  <2> QED BY <1>1, <2>1, <2>3 DEF FreshPiece
<1>2. PICK whole : whole = MessagesOf(rs) OBVIOUS
<1>3. whole \in Seq(MessageType) /\ AllUsers(whole) BY <1>2, UsersChosen DEF MessagesOf
<1>4. ValidateMessages(MessagesOf(rs)) BY <1>1, <1>2, <1>3
<1>5. CASE CompactionsIn(rs) = {}
  <2>1. Projected(rs) = MessagesOf(rs) BY <1>5, ProjectedIs
  <2> QED BY <1>4, <2>1
<1>6. CASE CompactionsIn(rs) # {}
  <2>1. PICK c : c = Newest(rs) OBVIOUS
  <2>2. PICK kept : kept = {i \in DOMAIN rs : rs[i].id > c.id \/ (c.firstKept # 0 /\ rs[i].id >= c.firstKept)}
    OBVIOUS
  <2>3. ActiveMessages(rs) = MessagesAt(rs, kept) BY <1>6, <2>1, <2>2, Zenon DEF ActiveMessages
  <2>4. PICK b : b = MessagesAt(rs, kept) OBVIOUS
  <2>5. b \in Seq(MessageType) /\ AllUsers(b) BY <2>4, UsersChosen
  <2>6. FreshPiece(b, {}) BY <1>1, <2>5
  <2>7. PICK pre : FreshPiece(pre, {}) /\ Projected(rs) = pre \o ActiveMessages(rs)
    BY <1>6, ProjectedIs DEF ProjectsAs
  <2>8. /\ pre \in Seq(MessageType) /\ WellFormedAt(pre) /\ IdsOf(pre) = {}
        /\ WellFormedAt(b) /\ IdsOf(b) = {}
    BY <2>6, <2>7 DEF FreshPiece
  <2>9. PICK all : all = pre \o b OBVIOUS
  <2>10. Joins(pre, b, all) BY <2>5, <2>8, <2>9, ConcatJoins
  <2>11. MessageSeq(pre) /\ MessageSeq(b) BY <2>5, <2>8, TypedMessages
  <2>12. WellFormedAt(all) BY <2>8, <2>10, <2>11, JoinedIsWellFormed
  <2>13. MessageSeq(all) BY <2>10, <2>11, JoinedPositions
  <2>14. ValidateMessages(all) BY <2>12, <2>13, ValidatorExact, WellFormedIs
  <2> QED BY <1>4, <2>3, <2>4, <2>7, <2>9, <2>14
<1> QED BY <1>4, <1>5, <1>6

-----------------------------------------------------------------------------
(* The transcript's inductive invariant and its steps.                       *)

(* The inductive invariant: what the rows, the counts and the running Core   *)
(* are; WrittenCanBeRead is part of it as it stands.                        *)
RowsSound == rows \in Seq(RowType) /\ Ordered(rows) /\ KeptBefore(rows) /\ IdsKnown(rows, callIds)
CountsSound ==
    /\ callIds \in Nat /\ repeats \in Nat /\ damage \in Nat /\ up \in BOOLEAN /\ stored \in StoredType
OneCoreSound ==
    up => stored.head = LastId(rows) /\ context \in Seq(MessageType) /\ ValidateMessages(context)
TranscriptInd == RowsSound /\ CountsSound /\ OneCoreSound /\ WrittenCanBeRead

(* A new ledger is accepted: there is nothing to object to.                 *)
LEMMA NothingIsAccepted ==
    Accepts(<<>>, EmptyState) /\ <<>> \in Seq(RowType) /\ Ordered(<<>>) /\ KeptBefore(<<>>)
<1>1. PICK rs : rs = <<>> OBVIOUS
<1>2. rs \in Seq(RowType) /\ Len(rs) = 0 /\ DOMAIN rs = {} BY <1>1
<1>3. UserRows(rs) /\ Ordered(rs) /\ KeptBefore(rs) BY <1>2 DEF UserRows, Ordered, KeptBefore
<1>4. ValidateMessages(MessagesOf(rs)) /\ ValidateMessages(Projected(rs)) BY <1>2, <1>3, UsersAreAccepted
<1>5. CompactionsIn(rs) = {} BY <1>2 DEF CompactionsIn
<1>6. ChainHolds(rs) /\ BoundaryHolds(rs) BY <1>5, Zenon DEF ChainHolds, BoundaryHolds
<1>7. LastId(rs) = 0 BY <1>1, Zenon DEF LastId
<1>8. EmptyState.version = 1 /\ EmptyState.head = 0 /\ EmptyState.focus = "none" /\ EmptyState.cursors = "valid"
  BY DEF EmptyState
<1>9. StateParses(EmptyState) /\ EmptyState.focus # "partial" BY <1>8 DEF StateParses
<1>10. Accepts(rs, EmptyState) BY <1>2, <1>4, <1>6, <1>7, <1>8, <1>9 DEF Accepts, Validate
<1> QED BY <1>1, <1>2, <1>3, <1>10

(* The two rows of a ledger an earlier release wrote: a message, and a        *)
(* compaction that keeps it.                                                *)
LegacyRows(one, two) ==
    /\ one \in RowType /\ one.id = 1 /\ IsMessage(one) /\ ~IsCompaction(one)
    /\ one.version = 1 /\ one.keys = "exact"
    /\ one.message.role = "user" /\ one.message.calls = <<>>
    /\ IsCompactionRow(two, 2, 1, 0, "legacy")
IsSound(rs) == rs \in Seq(RowType) /\ Ordered(rs) /\ KeptBefore(rs) /\ UserRows(rs)

(* Such a ledger is accepted.                                               *)
LEMMA LegacyRowsAreAccepted ==
    ASSUME NEW one, NEW two, LegacyRows(one, two), NEW rs, rs = <<one, two>>,
           NEW s, s = [EmptyState EXCEPT !.head = 2]
    PROVE  Accepts(rs, s) /\ IsSound(rs)
<1>1. /\ one \in RowType /\ one.id = 1 /\ IsMessage(one) /\ ~IsCompaction(one)
      /\ one.version = 1 /\ one.keys = "exact"
      /\ one.message.role = "user" /\ one.message.calls = <<>>
  BY DEF LegacyRows
<1>2. /\ two \in RowType /\ IsCompaction(two) /\ ~IsMessage(two) /\ two.id = 2 /\ two.firstKept = 1
      /\ two.previous = 0 /\ two.version = 1 /\ two.keys = "legacy"
      /\ two.message.role = "user" /\ two.message.calls = <<>>
  BY DEF LegacyRows, IsCompactionRow
<1>3. rs \in Seq(RowType) /\ Len(rs) = 2 /\ DOMAIN rs = 1..2 /\ rs[1] = one /\ rs[2] = two
  BY <1>1, <1>2
<1>11. UserRows(rs)
  <2> SUFFICES ASSUME NEW i \in 1..2 PROVE rs[i].message.role = "user" /\ rs[i].message.calls = <<>>
    BY <1>3 DEF UserRows
  <2>1. CASE i = 1 BY <1>1, <1>3, <2>1
  <2>2. CASE i = 2 BY <1>2, <1>3, <2>2
  <2> QED BY <2>1, <2>2
<1>12. Ordered(rs)
  <2> SUFFICES ASSUME NEW i \in 1..2, NEW j \in 1..2, i < j PROVE rs[i].id < rs[j].id
    BY <1>3 DEF Ordered
  <2>1. i = 1 /\ j = 2 OBVIOUS
  <2> QED BY <1>1, <1>2, <1>3, <2>1
<1>13. KeptBefore(rs)
  <2> SUFFICES ASSUME NEW i \in 1..2, IsCompaction(rs[i]) PROVE rs[i].firstKept <= rs[i].id
    BY <1>3 DEF KeptBefore
  <2>1. i = 2 BY <1>1, <1>3
  <2> QED BY <1>2, <1>3, <2>1
<1>14. CompactionsIn(rs) = {2}
  <2>1. \A i \in DOMAIN rs : IsCompaction(rs[i]) <=> i = 2 BY <1>1, <1>2, <1>3
  <2> QED BY <1>3, <2>1 DEF CompactionsIn
<1>15. Max(CompactionsIn(rs)) = 2
  <2>1. CompactionsIn(rs) \subseteq 0..2 /\ CompactionsIn(rs) # {} BY <1>14
  <2>2. Max(CompactionsIn(rs)) \in CompactionsIn(rs) BY <2>1, MaxIsGreatest
  <2> QED BY <1>14, <2>2
<1>16. Newest(rs) = two BY <1>3, <1>15 DEF Newest
<1>17. ChainHolds(rs)
  <2> SUFFICES ASSUME NEW i \in CompactionsIn(rs)
               PROVE rs[i].previous
                       = LET earlier == {j \in CompactionsIn(rs) : j < i}
                         IN  IF earlier = {} THEN 0 ELSE rs[Max(earlier)].id
    BY DEF ChainHolds
  <2>1. i = 2 /\ {j \in CompactionsIn(rs) : j < i} = {} BY <1>14
  <2>2. rs[i].previous = 0 BY <1>2, <1>3, <2>1
  <2> QED BY <2>1, <2>2, Zenon
<1>18. BoundaryHolds(rs)
  <2>1. 1 \in DOMAIN rs /\ rs[1].id = Newest(rs).firstKept /\ IsMessage(rs[1]) /\ rs[1].message.role # "tool"
    BY <1>1, <1>2, <1>3, <1>16
  <2> QED BY <2>1 DEF BoundaryHolds
<1>19. \A i \in DOMAIN rs : RowParses(rs[i])
  <2>1. MessageParses(one.message) BY <1>1, Zenon DEF MessageParses
  <2>2. RowParses(one) BY <1>1, <2>1, Zenon DEF RowParses, IsMessage
  <2>3. RowParses(two) BY <1>2 DEF RowParses, IsCompaction
  <2> QED BY <1>3, <2>2, <2>3
<1>20. \A i \in 2..Len(rs) : rs[i - 1].id < rs[i].id
  <2> SUFFICES ASSUME NEW i \in 2..2 PROVE rs[i - 1].id < rs[i].id BY <1>3
  <2>1. i = 2 /\ i - 1 = 1 OBVIOUS
  <2> QED BY <1>1, <1>2, <1>3, <2>1
<1>21. LastId(rs) = 2
  <2>1. rs # <<>> BY <1>3
  <2>2. rs[Len(rs)].id = 2 BY <1>2, <1>3
  <2> QED BY <2>1, <2>2 DEF LastId, Last
<1>22. s.version = 1 /\ s.head = 2 /\ s.focus = "none" /\ s.cursors = "valid" BY DEF EmptyState
<1>23. StateParses(s) /\ s.focus # "partial" BY <1>22 DEF StateParses
<1>24. ValidateMessages(MessagesOf(rs)) /\ ValidateMessages(Projected(rs)) BY <1>3, <1>11, UsersAreAccepted
<1>25. Accepts(rs, s) BY <1>17, <1>18, <1>19, <1>20, <1>21, <1>22, <1>23, <1>24 DEF Accepts, Validate
<1> QED BY <1>3, <1>11, <1>12, <1>13, <1>25 DEF IsSound

(* It is the second ledger the Core may find.                               *)
LEMMA LegacyIsAccepted ==
    ASSUME NEW rs, rs = <<MessageRow(1, User("text")), CompactionRow(2, 1, 0, TRUE, "legacy")>>,
           NEW s, s = [EmptyState EXCEPT !.head = 2]
    PROVE  Accepts(rs, s) /\ IsSound(rs)
<1>1. PICK m : m = User("text") OBVIOUS
<1>2. IsUser(m, "text")
  <2>1. "text" \in Sayings
    <3>1. PICK e : e = NothingSaid OBVIOUS
    <3> QED BY DEF Sayings
  <2> QED BY <1>1, <2>1, UserIs
<1>3. PICK one : one = MessageRow(1, m) OBVIOUS
<1>4. PICK two : two = CompactionRow(2, 1, 0, TRUE, "legacy") OBVIOUS
<1>5. rs = <<one, two>> BY <1>1, <1>3, <1>4, Zenon
<1>6. /\ one \in RowType /\ one.id = 1 /\ one.message = m /\ IsMessage(one) /\ ~IsCompaction(one)
      /\ one.version = 1 /\ one.keys = "exact"
  <2>1. m \in MessageType BY <1>2 DEF IsUser
  <2> QED BY <1>3, <2>1, MessageRowIs
<1>7. IsCompactionRow(two, 2, 1, 0, "legacy")
  <2>1. "legacy" \in KeyForms BY DEF KeyForms
  <2>2. TRUE \in BOOLEAN OBVIOUS
  <2> QED BY <1>4, <2>1, <2>2, CompactionRowIs
<1>8. m.role = "user" /\ m.calls = <<>> BY <1>2 DEF IsUser
<1>9. LegacyRows(one, two) BY <1>6, <1>7, <1>8, Zenon DEF LegacyRows
<1> QED BY <1>5, <1>9, LegacyRowsAreAccepted

(* The invariant holds at the start, of a new ledger and of an old one.     *)
LEMMA TranscriptBegins == TranscriptInit => TranscriptInd
<1> SUFFICES ASSUME TranscriptInit PROVE TranscriptInd OBVIOUS
<1>1. callIds = 0 /\ repeats = 0 /\ damage = 0 /\ up = FALSE BY DEF TranscriptInit
<1>2. CASE rows = <<>> /\ stored = EmptyState
  <2>1. Accepts(rows, stored) /\ rows \in Seq(RowType) /\ Ordered(rows) /\ KeptBefore(rows)
    BY <1>2, NothingIsAccepted
  <2>2. stored \in StoredType BY <1>2 DEF EmptyState, StoredType
  <2>3. IdsKnown(rows, callIds) BY <1>2 DEF IdsKnown
  <2> QED BY <1>1, <2>1, <2>2, <2>3 DEF TranscriptInd, RowsSound, CountsSound, OneCoreSound, WrittenCanBeRead
<1>3. CASE /\ rows = <<MessageRow(1, User("text")), CompactionRow(2, 1, 0, TRUE, "legacy")>>
           /\ stored = [EmptyState EXCEPT !.head = 2]
  <2>1. /\ Accepts(rows, stored) /\ rows \in Seq(RowType) /\ Ordered(rows) /\ KeptBefore(rows)
        /\ UserRows(rows)
    BY <1>3, LegacyIsAccepted DEF IsSound
  <2>2. stored \in StoredType BY <1>3 DEF EmptyState, StoredType
  <2>3. IdsKnown(rows, callIds)
    <3> SUFFICES ASSUME NEW i \in 1..Len(rows) PROVE Range(rows[i].message.calls) \subseteq 0..callIds
      BY DEF IdsKnown
    <3>1. rows[i].message.calls = <<>> BY <2>1 DEF UserRows
    <3>2. Range(<<>>) = {} BY DEF Range
    <3> QED BY <3>1, <3>2
  <2> QED BY <1>1, <2>1, <2>2, <2>3 DEF TranscriptInd, RowsSound, CountsSound, OneCoreSound, WrittenCanBeRead
<1>4. \/ rows = <<>> /\ stored = EmptyState
      \/ /\ rows = <<MessageRow(1, User("text")), CompactionRow(2, 1, 0, TRUE, "legacy")>>
         /\ stored = [EmptyState EXCEPT !.head = 2]
  BY Zenon DEF TranscriptInit
<1> QED BY <1>2, <1>3, <1>4

(* A commit whose messages are typed keeps the invariant; while no id has    *)
(* been used twice they have to be a transcript with ids of their own.      *)
CommitsWell(ms) ==
    /\ ms \in Seq(MessageType) /\ Len(ms) >= 1
    /\ callIds' \in Nat /\ callIds' >= callIds /\ IdsOf(ms) \subseteq 0..callIds'
    /\ repeats' \in Nat
    /\ repeats' = 0 => repeats = 0 /\ WellFormedAt(ms) /\ IdsOf(ms) \cap (0..callIds) = {}
(* A commit of such messages keeps the invariant.                           *)
LEMMA CommitStays ==
    ASSUME TranscriptInd, NEW ms, CommitsWell(ms), Commit(ms)
    PROVE  TranscriptInd'
<1>1. /\ ms \in Seq(MessageType) /\ Len(ms) >= 1 /\ callIds' \in Nat /\ callIds' >= callIds
      /\ IdsOf(ms) \subseteq 0..callIds' /\ repeats' \in Nat
  BY DEF CommitsWell
<1>2. /\ rows \in Seq(RowType) /\ Ordered(rows) /\ KeptBefore(rows) /\ IdsKnown(rows, callIds)
      /\ callIds \in Nat /\ repeats \in Nat /\ damage \in Nat /\ stored \in StoredType
  BY DEF TranscriptInd, RowsSound, CountsSound
<1>3. up /\ stored.head = LastId(rows) /\ context \in Seq(MessageType) /\ ValidateMessages(context)
  BY DEF TranscriptInd, OneCoreSound, Commit
<1>4. /\ headSeen = stored.head /\ Normalizes(ms)
      /\ stored' = [stored EXCEPT !.head = stored.head + Len(ms)]
      /\ InstallsProjection(ms) /\ up' = up /\ damage' = damage
  BY DEF Commit
<1>5. PICK all : all = rows' OBVIOUS
<1>6. PICK head : head = stored.head OBVIOUS
<1>7. all = rows \o RowsOf(head, ms) BY <1>5, <1>6, Zenon DEF Commit, RowsOf
<1>8. head \in Nat /\ IdsUpTo(rows, head) BY <1>2, <1>3, <1>6, LastIsGreatest
<1>9. Written(rows, head, ms, all) BY <1>1, <1>2, <1>7, <1>8, WrittenIs
<1>10. all \in Seq(RowType) /\ Ordered(all) /\ LastId(all) = head + Len(ms) BY <1>1, <1>9 DEF Written
<1>11. IdsKnown(all, callIds')
  <2>1. IdsKnown(rows, callIds')
    <3>1. 0..callIds \subseteq 0..callIds' BY <1>1, <1>2
    <3> QED BY <1>2, <3>1 DEF IdsKnown
  <2> QED BY <1>1, <1>9, <2>1 DEF Written
<1>12. KeptBefore(all) BY <1>2, <1>9 DEF Written, KeptBefore
<1>13. RowsSound' BY <1>5, <1>10, <1>11, <1>12 DEF RowsSound, Ordered, KeptBefore, IdsKnown
<1>14. /\ stored' \in StoredType /\ stored'.head = head + Len(ms) /\ Moved(stored, Len(ms), stored')
  <2>1. Len(ms) \in Nat BY <1>1
  <2> QED BY <1>2, <1>4, <1>6, <1>8, <2>1 DEF StoredType, Moved
<1>15. CountsSound' BY <1>1, <1>2, <1>3, <1>4, <1>14 DEF CountsSound
<1>16. OneCoreSound'
  <2>1. stored'.head = LastId(rows') BY <1>5, <1>10, <1>14
  <2>2. context' \in Seq(MessageType) /\ ValidateMessages(context')
    <3>1. CASE ValidateMessages(context \o ms)
      <4>1. context' = context \o ms BY <1>4, <3>1 DEF InstallsProjection
      <4>2. context \o ms \in Seq(MessageType) BY <1>1, <1>3, ConcatJoins
      <4> QED BY <3>1, <4>1, <4>2
    <3>2. CASE ~ValidateMessages(context \o ms) BY <1>3, <1>4, <3>2 DEF InstallsProjection
    <3> QED BY <3>1, <3>2
  <2>3. PICK c : c = context' OBVIOUS
  <2>4. ValidateMessages(context)' BY <2>2, <2>3 DEF ValidateMessages
  <2> QED BY <2>1, <2>2, <2>4 DEF OneCoreSound, LastId
<1>17. ASSUME repeats' = 0
       PROVE  Accepts(all, stored') /\ headSeen' = stored'.head /\ context' = Projected(all)
  <2>1. repeats = 0 /\ WellFormedAt(ms) /\ IdsOf(ms) \cap (0..callIds) = {} BY <1>17 DEF CommitsWell
  <2>2. Accepts(rows, stored) /\ context = Projected(rows)
    BY <1>3, <2>1 DEF TranscriptInd, WrittenCanBeRead
  <2>3. PICK ids : ids = IdsOf(ms) OBVIOUS
  <2>4. FreshPiece(ms, ids) BY <1>1, <2>1, <2>3 DEF FreshPiece
  <2>5. AllParse(ms) BY <1>4 DEF AllParse, Normalizes
  <2>6. IsNew(rows, ids) BY <1>2, <2>1, <2>3 DEF IsNew
  <2>7. /\ Accepts(all, stored') /\ Projected(all) = Projected(rows) \o ms
        /\ ValidateMessages(Projected(all)) /\ LastId(all) = stored'.head
    <3>1. PICK t : t = stored' OBVIOUS
    <3>2. PICK s : s = stored OBVIOUS
    <3>3. /\ s \in StoredType /\ Moved(s, Len(ms), t) /\ Accepts(rows, s) /\ IdsUpTo(rows, s.head)
          /\ Written(rows, s.head, ms, all) /\ Len(ms) >= 1 /\ rows \in Seq(RowType)
      BY <1>1, <1>2, <1>6, <1>8, <1>9, <1>14, <2>2, <3>1, <3>2
    <3>4. /\ Accepts(all, t) /\ Projected(all) = Projected(rows) \o ms
          /\ ValidateMessages(Projected(all)) /\ LastId(all) = t.head
      BY <2>4, <2>5, <2>6, <3>3, WrittenIsAccepted
    <3> QED BY <3>1, <3>4
  <2>8. ValidateMessages(context \o ms) BY <2>2, <2>7
  <2>9. context' = context \o ms /\ headSeen' = stored.head + Len(ms)
    BY <1>4, <2>8 DEF InstallsProjection
  <2> QED BY <1>6, <1>14, <2>2, <2>7, <2>9
<1>18. WrittenCanBeRead'
  <2>1. repeats' = 0 => Accepts(rows, stored)' /\ headSeen' = stored'.head /\ context' = Projected(rows)'
    BY <1>5, <1>17
  <2> QED BY <2>1 DEF WrittenCanBeRead
<1> QED BY <1>13, <1>15, <1>16, <1>18 DEF TranscriptInd

(* Events are committed as a message of a user.                             *)
LEMMA CommitEventsStays == TranscriptInd /\ CommitEvents => TranscriptInd'
<1> SUFFICES ASSUME TranscriptInd, CommitEvents PROVE TranscriptInd' OBVIOUS
<1>1. PICK ms : ms = <<User("text")>> OBVIOUS
<1>2. Commit(ms) /\ callIds' = callIds /\ repeats' = repeats BY <1>1, Zenon DEF CommitEvents
<1>3. "text" \in Sayings
  <2>1. PICK e : e = NothingSaid OBVIOUS
  <2> QED BY DEF Sayings
<1>4. FreshPiece(ms, {}) BY <1>1, <1>3, UserIsPiece
<1>5. Len(ms) = 1 BY <1>1
<1>6. callIds \in Nat /\ repeats \in Nat BY DEF TranscriptInd, CountsSound
<1>7. CommitsWell(ms) BY <1>2, <1>4, <1>5, <1>6 DEF CommitsWell, FreshPiece
<1> QED BY <1>2, <1>7, CommitStays

(* A round of new calls: their ids follow the ones used so far.             *)
LEMMA CommitRoundStays ==
    ASSUME TranscriptInd, NEW n \in 1..2, CommitRound(n)
    PROVE  TranscriptInd'
<1>1. callIds \in Nat /\ repeats \in Nat BY DEF TranscriptInd, CountsSound
<1>2. PICK ids : ids = [k \in 1..n |-> callIds + k] OBVIOUS
<1>3. PICK ms : ms = Round(ids) OBVIOUS
<1>4. Commit(ms) /\ callIds' = callIds + n /\ repeats' = repeats BY <1>2, <1>3 DEF CommitRound
<1>5. ids \in Seq(Nat) /\ Len(ids) = n /\ \A k \in 1..n : ids[k] = callIds + k BY <1>1, <1>2
<1>6. \A k, l \in 1..Len(ids) : ids[k] = ids[l] => k = l BY <1>1, <1>5
<1>7. Range(ids) \subseteq (callIds + 1)..(callIds + n) BY <1>1, <1>2 DEF Range
<1>8. BlankId \notin Range(ids) BY <1>1, <1>7 DEF BlankId
<1>9. FreshPiece(ms, Range(ids)) /\ Len(ms) = n + 1 BY <1>3, <1>5, <1>6, <1>8, RoundIsPiece
<1>10. ms \in Seq(MessageType) /\ WellFormedAt(ms) /\ IdsOf(ms) = Range(ids) BY <1>9 DEF FreshPiece
<1>11. IdsOf(ms) \subseteq 0..(callIds + n) /\ IdsOf(ms) \cap (0..callIds) = {} BY <1>1, <1>7, <1>10
<1>12. Len(ms) >= 1 /\ callIds + n \in Nat /\ callIds + n >= callIds BY <1>1, <1>9
<1>13. CommitsWell(ms) BY <1>1, <1>4, <1>10, <1>11, <1>12 DEF CommitsWell
<1> QED BY <1>4, <1>13, CommitStays

(* A round of any ids is typed and has these ids.                           *)
LEMMA AnyRound ==
    ASSUME NEW ids \in Seq(Nat)
    PROVE  Round(ids) \in Seq(MessageType) /\ Len(Round(ids)) >= 1 /\ IdsOf(Round(ids)) = Range(ids)
<1>1. RoundShape(ids, Round(ids)) BY RoundIs
<1>2. Len(ids) \in Nat OBVIOUS
<1> QED BY <1>1, <1>2 DEF RoundShape

(* A round with a call id that is used already, or twice: what is then read   *)
(* is no longer promised anything.                                          *)
LEMMA CommitRepeatingStays ==
    ASSUME TranscriptInd, NEW id \in 1..(callIds + 1), CommitRepeating(id)
    PROVE  TranscriptInd'
<1>1. callIds \in Nat /\ repeats \in Nat /\ repeats' = repeats + 1
  BY DEF TranscriptInd, CountsSound, CommitRepeating
<1>2. id \in Nat /\ id >= 1 BY <1>1
<1>3. ASSUME NEW ids \in Seq(Nat), Range(ids) = {id}, Commit(Round(ids)),
             \/ id \in 1..callIds /\ callIds' = callIds
             \/ id = callIds + 1 /\ callIds' = id
      PROVE  TranscriptInd'
  <2>1. PICK ms : ms = Round(ids) OBVIOUS
  <2>2. ms \in Seq(MessageType) /\ Len(ms) >= 1 /\ IdsOf(ms) = {id} BY <1>3, <2>1, AnyRound
  <2>3. callIds' \in Nat /\ callIds' >= callIds /\ {id} \subseteq 0..callIds' BY <1>1, <1>2, <1>3
  <2>4. repeats' \in Nat /\ repeats' # 0 BY <1>1
  <2>5. CommitsWell(ms) BY <2>2, <2>3, <2>4 DEF CommitsWell
  <2> QED BY <1>3, <2>1, <2>5, CommitStays
<1>4. CASE id \in 1..callIds /\ Commit(Round(<<id>>)) /\ UNCHANGED callIds
  <2>1. PICK ids : ids = <<id>> OBVIOUS
  <2>2. ids \in Seq(Nat) /\ Range(ids) = {id} BY <1>2, <2>1 DEF Range
  <2> QED BY <1>3, <1>4, <2>1, <2>2
<1>5. CASE id = callIds + 1 /\ Commit(Round(<<id, id>>)) /\ callIds' = id
  <2>1. PICK ids : ids = <<id, id>> OBVIOUS
  <2>2. ids \in Seq(Nat) /\ DOMAIN ids = 1..2 /\ ids[1] = id /\ ids[2] = id BY <1>2, <2>1
  <2>3. Range(ids) = {id} BY <2>2 DEF Range
  <2> QED BY <1>3, <1>5, <2>1, <2>2, <2>3
<1> QED BY <1>4, <1>5 DEF CommitRepeating

(* A load installs the projection, from the checkpoint or not.              *)
LEMMA LoadedIs ==
    ASSUME NEW rs, NEW s, LoadTranscript(rs, s)
    PROVE  context' = Projected(rs) /\ headSeen' = s.head /\ up' = TRUE
<1>1. CASE CheckpointHit(rs, s)
  <2>1. checkpoint.messages = Projected(rs) BY <1>1 DEF CheckpointHit, CheckpointMatches
  <2> QED BY <1>1, <2>1 DEF LoadTranscript
<1>2. CASE ~CheckpointHit(rs, s) BY <1>2 DEF LoadTranscript
<1> QED BY <1>1, <1>2

(* What an accepted ledger loads keeps the invariant.                       *)
LEMMA LoadStays ==
    ASSUME NEW rs \in Seq(RowType), NEW s \in StoredType, Accepts(rs, s), LoadTranscript(rs, s),
           rows' = rs, stored' = s, Ordered(rs), KeptBefore(rs), IdsKnown(rs, callIds),
           callIds \in Nat, repeats \in Nat, damage \in Nat, UNCHANGED <<callIds, repeats, damage>>
    PROVE  TranscriptInd'
<1>1. context' = Projected(rs) /\ headSeen' = s.head /\ up' = TRUE BY LoadedIs
<1>2. s.head = LastId(rs) /\ ValidateMessages(Projected(rs)) BY DEF Accepts, Validate
<1>3. Projected(rs) \in Seq(MessageType)
  <2>1. ReadAs(rs, Projected(rs)) BY ProjectedTyped
  <2> QED BY <2>1 DEF ReadAs
<1>4. RowsSound' BY DEF RowsSound, Ordered, KeptBefore, IdsKnown
<1>5. CountsSound' BY <1>1 DEF CountsSound
<1>6. OneCoreSound'
  <2>1. ValidateMessages(context)' BY <1>1, <1>2
  <2> QED BY <1>1, <1>2, <1>3, <2>1 DEF OneCoreSound, LastId
<1>7. WrittenCanBeRead'
  <2>1. Accepts(rows, stored)' OBVIOUS
  <2>2. headSeen' = stored'.head /\ context' = Projected(rows)' BY <1>1
  <2> QED BY <2>1, <2>2 DEF WrittenCanBeRead
<1> QED BY <1>4, <1>5, <1>6, <1>7 DEF TranscriptInd

(* Starting the Core reads what is stored.                                  *)
LEMMA StartStays == TranscriptInd /\ StartCore => TranscriptInd'
<1> SUFFICES ASSUME TranscriptInd, StartCore PROVE TranscriptInd' OBVIOUS
<1>1. /\ rows \in Seq(RowType) /\ Ordered(rows) /\ KeptBefore(rows) /\ IdsKnown(rows, callIds)
      /\ callIds \in Nat /\ repeats \in Nat /\ damage \in Nat /\ stored \in StoredType
  BY DEF TranscriptInd, RowsSound, CountsSound
<1>2. /\ Accepts(rows, stored) /\ LoadTranscript(rows, stored)
      /\ rows' = rows /\ stored' = stored /\ UNCHANGED <<callIds, repeats, damage>>
  BY DEF StartCore
<1> QED BY <1>1, <1>2, LoadStays

(* A row at the end whose id is the next one and which calls nothing keeps   *)
(* the rows sound.                                                          *)
LEMMA CompactionFits ==
    ASSUME NEW rs \in Seq(RowType), Ordered(rs), KeptBefore(rs), NEW most \in Nat, IdsKnown(rs, most),
           NEW r, NEW head \in Nat, IdsUpTo(rs, head), NEW firstKept \in 0..head, NEW previous, NEW keys,
           IsCompactionRow(r, head + 1, firstKept, previous, keys)
    PROVE  /\ Append(rs, r) \in Seq(RowType) /\ Ordered(Append(rs, r)) /\ KeptBefore(Append(rs, r))
           /\ IdsKnown(Append(rs, r), most)
<1>1. /\ r \in RowType /\ r.id = head + 1 /\ r.firstKept = firstKept /\ r.message.calls = <<>>
  BY DEF IsCompactionRow
<1>2. PICK all : all = Append(rs, r) OBVIOUS
<1>3. Len(rs) \in Nat /\ \A i \in 1..Len(rs) : rs[i].id \in Nat /\ rs[i].id <= head
  <2>1. \A x \in RowType : x.id \in Nat BY DEF RowType
  <2> QED BY <2>1 DEF IdsUpTo
<1>4. /\ all \in Seq(RowType) /\ Len(all) = Len(rs) + 1 /\ all[Len(rs) + 1] = r
      /\ \A i \in 1..Len(rs) : all[i] = rs[i]
  BY <1>1, <1>2
<1>5. \A i \in 1..Len(all) : i \in 1..Len(rs) \/ i = Len(rs) + 1 BY <1>3, <1>4
<1>6. Ordered(all)
  <2> SUFFICES ASSUME NEW i \in 1..Len(all), NEW j \in 1..Len(all), i < j PROVE all[i].id < all[j].id
    BY DEF Ordered
  <2>1. i \in 1..Len(rs) BY <1>3, <1>4
  <2>2. CASE j \in 1..Len(rs) BY <1>4, <2>1, <2>2 DEF Ordered
  <2>3. CASE j = Len(rs) + 1 BY <1>1, <1>3, <1>4, <2>1, <2>3
  <2> QED BY <1>5, <2>2, <2>3
<1>7. KeptBefore(all)
  <2> SUFFICES ASSUME NEW i \in 1..Len(all), IsCompaction(all[i]) PROVE all[i].firstKept <= all[i].id
    BY DEF KeptBefore
  <2>1. CASE i \in 1..Len(rs) BY <1>4, <2>1 DEF KeptBefore
  <2>2. CASE i = Len(rs) + 1 BY <1>1, <1>4, <2>2
  <2> QED BY <1>5, <2>1, <2>2
<1>8. IdsKnown(all, most)
  <2> SUFFICES ASSUME NEW i \in 1..Len(all) PROVE Range(all[i].message.calls) \subseteq 0..most
    BY DEF IdsKnown
  <2>1. CASE i \in 1..Len(rs) BY <1>4, <2>1 DEF IdsKnown
  <2>2. CASE i = Len(rs) + 1
    <3>1. Range(<<>>) = {} BY DEF Range
    <3> QED BY <1>1, <1>4, <2>2, <3>1
  <2> QED BY <1>5, <2>1, <2>2
<1> QED BY <1>2, <1>4, <1>6, <1>7, <1>8

(* A compaction adds such a row and loads what it has written.              *)
LEMMA CompactStays ==
    ASSUME TranscriptInd, NEW at \in Cuts, NEW attention \in BOOLEAN, CompactRows(at, attention)
    PROVE  TranscriptInd'
<1>1. /\ rows \in Seq(RowType) /\ Ordered(rows) /\ KeptBefore(rows) /\ IdsKnown(rows, callIds)
      /\ callIds \in Nat /\ repeats \in Nat /\ damage \in Nat /\ stored \in StoredType
  BY DEF TranscriptInd, RowsSound, CountsSound
<1>2. PICK head : head = stored.head OBVIOUS
<1>3. PICK previous : previous = IF CompactionsIn(rows) = {} THEN 0 ELSE Newest(rows).id OBVIOUS
<1>4. PICK r : r = CompactionRow(head + 1, at, previous, attention, "exact") OBVIOUS
<1>5. PICK rs : rs = Append(rows, r) OBVIOUS
<1>6. PICK s : s = [stored EXCEPT !.head = head + 1] OBVIOUS
<1>7. /\ up /\ Accepts(rs, s) /\ rows' = rs /\ stored' = s /\ LoadTranscript(rs, s)
      /\ UNCHANGED <<callIds, repeats, damage>>
  BY <1>2, <1>3, <1>4, <1>5, <1>6, Zenon DEF CompactRows
<1>8. head = LastId(rows) BY <1>2, <1>7 DEF TranscriptInd, OneCoreSound
<1>9. head \in Nat /\ IdsUpTo(rows, head) BY <1>1, <1>8, LastIsGreatest
<1>10. Len(rows) \in Nat /\ DOMAIN rows = 1..Len(rows) /\ \A i \in 1..Len(rows) : rows[i].id \in 0..head
  <2>1. \A x \in RowType : x.id \in Nat BY DEF RowType
  <2> QED BY <1>1, <1>9, <2>1 DEF IdsUpTo
<1>11. at \in 0..head
  <2>1. CASE at = 0 BY <1>9, <2>1
  <2>2. CASE at # 0
    <3>1. PICK i \in DOMAIN rows : at = rows[i].id BY <2>2 DEF Cuts
    <3> QED BY <1>10, <3>1
  <2> QED BY <2>1, <2>2
<1>12. previous \in Nat
  <2>1. CASE CompactionsIn(rows) = {} BY <1>3, <2>1
  <2>2. CASE CompactionsIn(rows) # {}
    <3>1. CompactionsIn(rows) \subseteq 0..Len(rows) BY <1>10 DEF CompactionsIn
    <3>2. Max(CompactionsIn(rows)) \in CompactionsIn(rows) BY <1>10, <2>2, <3>1, MaxIsGreatest
    <3>3. Max(CompactionsIn(rows)) \in DOMAIN rows BY <3>2 DEF CompactionsIn
    <3> QED BY <1>3, <1>10, <2>2, <3>3 DEF Newest
  <2> QED BY <2>1, <2>2
<1>13. IsCompactionRow(r, head + 1, at, previous, "exact")
  <2>1. "exact" \in KeyForms BY DEF KeyForms
  <2>2. head + 1 \in Nat /\ at \in Nat BY <1>9, <1>11
  <2> QED BY <1>4, <1>12, <2>1, <2>2, CompactionRowIs
<1>14. rs \in Seq(RowType) /\ Ordered(rs) /\ KeptBefore(rs) /\ IdsKnown(rs, callIds)
  BY <1>1, <1>5, <1>9, <1>11, <1>13, CompactionFits
<1>15. s \in StoredType
  <2>1. head + 1 \in Nat BY <1>9
  <2> QED BY <1>1, <1>6, <2>1 DEF StoredType
<1> QED BY <1>1, <1>7, <1>14, <1>15, LoadStays

(* A stopped Core promises nothing of a context.                            *)
LEMMA StopStays == TranscriptInd /\ StopCore => TranscriptInd'
<1> SUFFICES ASSUME TranscriptInd, StopCore PROVE TranscriptInd' OBVIOUS
<1>1. /\ up' = FALSE /\ rows' = rows /\ stored' = stored
      /\ callIds' = callIds /\ repeats' = repeats /\ damage' = damage
  BY DEF StopCore
<1>2. RowsSound' BY <1>1 DEF TranscriptInd, RowsSound, Ordered, KeptBefore, IdsKnown
<1>3. CountsSound' BY <1>1 DEF TranscriptInd, CountsSound
<1>4. OneCoreSound' BY <1>1 DEF OneCoreSound
<1>5. WrittenCanBeRead'
  <2>1. Accepts(rows, stored)' <=> Accepts(rows, stored) BY <1>1
  <2> QED BY <1>1, <2>1 DEF TranscriptInd, WrittenCanBeRead
<1> QED BY <1>2, <1>3, <1>4, <1>5 DEF TranscriptInd

(* Something else that changes a row leaves its id and its calls, and keeps   *)
(* from no later row.                                                       *)
ChangedRow(r, was) ==
    /\ r \in RowType /\ r.id = was.id /\ r.message.calls = was.message.calls
    /\ IsCompaction(r) => r.firstKept <= r.id
(* Every way the model damages a row is such a change.                      *)
LEMMA TamperedIs ==
    ASSUME NEW was \in RowType, IsCompaction(was) => was.firstKept <= was.id, callIds \in Nat,
           NEW r \in Tampered(was)
    PROVE  ChangedRow(r, was)
<1>1. /\ was.id \in Nat /\ was.message \in MessageType /\ was.firstKept \in Nat /\ was.previous \in Nat
      /\ was.type \in RowKinds /\ was.keys \in KeyForms /\ was.version \in Nat /\ was.attention \in BOOLEAN
  BY DEF RowType
<1>2. CASE r \in {[was EXCEPT !.version = 2], [was EXCEPT !.keys = "extra"], [was EXCEPT !.type = "unknown"]}
  <2>1. CASE r = [was EXCEPT !.version = 2] BY <1>1, <2>1 DEF ChangedRow, RowType, IsCompaction
  <2>2. CASE r = [was EXCEPT !.keys = "extra"] BY <1>1, <2>2 DEF ChangedRow, RowType, KeyForms, IsCompaction
  <2>3. CASE r = [was EXCEPT !.type = "unknown"] BY <1>1, <2>3 DEF ChangedRow, RowType, RowKinds, IsCompaction
  <2> QED BY <1>2, <2>1, <2>2, <2>3
<1>3. ASSUME NEW m \in MessageType, m.calls = was.message.calls, r = [was EXCEPT !.message = m]
      PROVE ChangedRow(r, was)
  BY <1>1, <1>3 DEF ChangedRow, RowType, IsCompaction
<1>4. CASE IsMessage(was) /\ r = [was EXCEPT !.message.says = "cut"]
  <2>1. PICK m : m = [was.message EXCEPT !.says = "cut"] OBVIOUS
  <2>2. m \in MessageType /\ m.calls = was.message.calls BY <1>1, <2>1 DEF MessageType, Sayings
  <2>3. r = [was EXCEPT !.message = m] BY <1>4, <2>1
  <2> QED BY <1>3, <2>2, <2>3
<1>5. CASE IsMessage(was) /\ \E role \in {"other", "user"} : r = [was EXCEPT !.message.role = role]
  <2>1. PICK role \in {"other", "user"} : r = [was EXCEPT !.message.role = role] BY <1>5
  <2>2. PICK m : m = [was.message EXCEPT !.role = role] OBVIOUS
  <2>3. m \in MessageType /\ m.calls = was.message.calls BY <1>1, <2>1, <2>2 DEF MessageType, RoleNames
  <2>4. r = [was EXCEPT !.message = m] BY <2>1, <2>2
  <2> QED BY <1>3, <2>3, <2>4
<1>6. CASE IsMessage(was) /\ \E id \in 0..callIds : r = [was EXCEPT !.message.answers = id]
  <2>1. PICK id \in 0..callIds : r = [was EXCEPT !.message.answers = id] BY <1>6
  <2>2. PICK m : m = [was.message EXCEPT !.answers = id] OBVIOUS
  <2>3. m \in MessageType /\ m.calls = was.message.calls
    <3>1. id \in Nat OBVIOUS
    <3> QED BY <1>1, <2>2, <3>1 DEF MessageType
  <2>4. r = [was EXCEPT !.message = m] BY <2>1, <2>2
  <2> QED BY <1>3, <2>3, <2>4
<1>7. CASE \E id \in 0..was.id : r = [was EXCEPT !.firstKept = id]
  BY <1>1, <1>7 DEF ChangedRow, RowType
<1>8. CASE ~IsMessage(was) /\ \E id \in 0..was.id : r = [was EXCEPT !.previous = id]
  BY <1>1, <1>8 DEF ChangedRow, RowType, IsCompaction
<1> QED BY <1>2, <1>4, <1>5, <1>6, <1>7, <1>8, Zenon DEF Tampered

(* Damage while the Core is down leaves the rows in order and typed.        *)
LEMMA DamageStays == TranscriptInd /\ DamageRows => TranscriptInd'
<1> SUFFICES ASSUME TranscriptInd, DamageRows PROVE TranscriptInd' OBVIOUS
<1>1. /\ rows \in Seq(RowType) /\ Ordered(rows) /\ KeptBefore(rows) /\ IdsKnown(rows, callIds)
      /\ callIds \in Nat /\ repeats \in Nat /\ damage \in Nat /\ stored \in StoredType
  BY DEF TranscriptInd, RowsSound, CountsSound
<1>2. /\ ~up /\ up' = up /\ damage' = damage + 1 /\ callIds' = callIds /\ repeats' = repeats
  BY DEF DamageRows
<1>3. Len(rows) \in Nat /\ DOMAIN rows = 1..Len(rows) /\ \A i \in 1..Len(rows) : rows[i] \in RowType
  BY <1>1
<1>4. rows' \in Seq(RowType) /\ Ordered(rows') /\ KeptBefore(rows') /\ IdsKnown(rows', callIds)
  <2>1. ASSUME NEW i \in DOMAIN rows, NEW r \in Tampered(rows[i]), rows' = [rows EXCEPT ![i] = r]
        PROVE  rows' \in Seq(RowType) /\ Ordered(rows') /\ KeptBefore(rows') /\ IdsKnown(rows', callIds)
    <3>1. IsCompaction(rows[i]) => rows[i].firstKept <= rows[i].id BY <1>1, <1>3 DEF KeptBefore
    <3>2. ChangedRow(r, rows[i]) BY <1>1, <1>3, <3>1, TamperedIs
    <3>3. PICK rs : rs = rows' OBVIOUS
    <3>4. /\ rs \in Seq(RowType) /\ Len(rs) = Len(rows)
          /\ \A j \in 1..Len(rows) : rs[j] = IF j = i THEN r ELSE rows[j]
      BY <1>1, <1>3, <2>1, <3>2, <3>3 DEF ChangedRow
    <3>5. \A j \in 1..Len(rows) : /\ rs[j].id = rows[j].id /\ rs[j].message.calls = rows[j].message.calls
                                  /\ IsCompaction(rs[j]) => rs[j].firstKept <= rs[j].id
      BY <1>1, <3>2, <3>4 DEF ChangedRow, KeptBefore
    <3>6. Ordered(rs) /\ KeptBefore(rs) /\ IdsKnown(rs, callIds)
      BY <1>1, <3>4, <3>5 DEF Ordered, KeptBefore, IdsKnown
    <3> QED BY <3>3, <3>4, <3>6
  <2>2. ASSUME NEW i \in DOMAIN rows, rows' = RemoveAt(rows, i)
        PROVE  rows' \in Seq(RowType) /\ Ordered(rows') /\ KeptBefore(rows') /\ IdsKnown(rows', callIds)
    <3>1. PICK before : before = SubSeq(rows, 1, i - 1) OBVIOUS
    <3>2. PICK after : after = SubSeq(rows, i + 1, Len(rows)) OBVIOUS
    <3>3. PICK rs : rs = rows' OBVIOUS
    <3>4. rs = before \o after BY <2>2, <3>1, <3>2, <3>3 DEF RemoveAt
    <3>5. i \in 1..Len(rows) BY <1>3
    <3>6. before \in Seq(RowType) /\ Len(before) = i - 1 /\ \A j \in 1..(i - 1) : before[j] = rows[j]
      BY <1>1, <1>3, <3>1, <3>5
    <3>7. /\ after \in Seq(RowType) /\ Len(after) = Len(rows) - i
          /\ \A j \in 1..(Len(rows) - i) : after[j] = rows[i + j]
      <4>1. PICK l : l = Len(rows) OBVIOUS
      <4>2. l \in Nat /\ i \in 1..l /\ after = SubSeq(rows, i + 1, l) BY <1>3, <3>2, <3>5, <4>1
      <4>3. \A j \in (i + 1)..l : rows[j] \in RowType BY <1>3, <4>1, <4>2
      <4>4. /\ after \in Seq(RowType) /\ Len(after) = (IF i + 1 <= l THEN l - (i + 1) + 1 ELSE 0)
            /\ \A j \in 1..(l - (i + 1) + 1) : after[j] = rows[(i + 1) + j - 1]
        <5>1. i + 1 \in Int /\ l \in Int BY <4>2
        <5> QED BY <4>2, <4>3, <5>1, SubSeqProperties
      <4>5. l - (i + 1) + 1 = l - i /\ (i + 1 > l => l - i = 0)
            /\ \A j \in 1..(l - i) : (i + 1) + j - 1 = i + j
        BY <4>2
      <4>6. Len(after) = l - i BY <4>2, <4>4, <4>5
      <4> QED BY <4>1, <4>4, <4>5, <4>6
    <3>8. /\ rs \in Seq(RowType) /\ Len(rs) = Len(rows) - 1
          /\ \A j \in 1..Len(rs) : rs[j] = IF j < i THEN rows[j] ELSE rows[j + 1]
      <4>1. /\ rs \in Seq(RowType) /\ Len(rs) = Len(before) + Len(after)
            /\ \A j \in 1..Len(rs) : rs[j] = IF j <= Len(before) THEN before[j] ELSE after[j - Len(before)]
        BY <3>4, <3>6, <3>7
      <4>2. Len(rs) = Len(rows) - 1 BY <1>3, <3>5, <3>6, <3>7, <4>1
      <4>3. ASSUME NEW j \in 1..Len(rs) PROVE rs[j] = IF j < i THEN rows[j] ELSE rows[j + 1]
        <5>1. CASE j < i
          <6>1. j \in 1..(i - 1) /\ j <= Len(before) BY <3>5, <3>6, <5>1
          <6> QED BY <3>6, <4>1, <5>1, <6>1
        <5>2. CASE ~(j < i)
          <6>1. PICK k : k = j - (i - 1) OBVIOUS
          <6>2. k \in 1..(Len(rows) - i) /\ i + k = j + 1 /\ ~(j <= Len(before)) /\ j - Len(before) = k
            BY <1>3, <3>5, <3>6, <4>2, <5>2, <6>1
          <6>3. rs[j] = after[k] BY <4>1, <6>2
          <6>4. after[k] = rows[i + k] BY <3>7, <6>2
          <6> QED BY <5>2, <6>2, <6>3, <6>4
        <5> QED BY <5>1, <5>2
      <4> QED BY <4>1, <4>2, <4>3
    <3>9. PICK from : from = [j \in 1..Len(rs) |-> IF j < i THEN j ELSE j + 1] OBVIOUS
    <3>10. /\ \A j \in 1..Len(rs) : from[j] \in 1..Len(rows) /\ rs[j] = rows[from[j]]
           /\ \A j, k \in 1..Len(rs) : j < k => from[j] < from[k]
      BY <1>3, <3>5, <3>8, <3>9
    <3>11. Ordered(rs) /\ KeptBefore(rs) /\ IdsKnown(rs, callIds)
      BY <1>1, <3>10 DEF Ordered, KeptBefore, IdsKnown
    <3> QED BY <3>3, <3>8, <3>11
  <2>3. CASE UNCHANGED rows BY <1>1, <2>3
  <2> QED BY <2>1, <2>2, <2>3 DEF DamageRows
<1>5. RowsSound' BY <1>2, <1>4 DEF RowsSound, Ordered, KeptBefore, IdsKnown
<1>6. stored' \in StoredType
  <2>1. ASSUME stored' \in TamperedState PROVE stored' \in StoredType
    BY <1>1, <2>1 DEF TamperedState, StoredType
  <2> QED BY <1>1, <2>1 DEF DamageRows
<1>7. CountsSound' BY <1>1, <1>2, <1>6 DEF TranscriptInd, CountsSound
<1>8. OneCoreSound' BY <1>2 DEF OneCoreSound
<1>9. WrittenCanBeRead' BY <1>1, <1>2 DEF WrittenCanBeRead
<1> QED BY <1>5, <1>7, <1>8, <1>9 DEF TranscriptInd

(* So does a change of the checkpoint, and a step that changes nothing.     *)
LEMMA CheckpointStays == TranscriptInd /\ (ReplaceCheckpoint \/ UNCHANGED transcriptVars) => TranscriptInd'
<1> SUFFICES ASSUME TranscriptInd, ReplaceCheckpoint \/ UNCHANGED transcriptVars PROVE TranscriptInd'
  OBVIOUS
<1>1. /\ rows \in Seq(RowType) /\ Ordered(rows) /\ KeptBefore(rows) /\ IdsKnown(rows, callIds)
      /\ callIds \in Nat /\ repeats \in Nat /\ damage \in Nat /\ stored \in StoredType
  BY DEF TranscriptInd, RowsSound, CountsSound
<1>2. /\ rows' = rows /\ stored' = stored /\ up' = up /\ context' = context /\ headSeen' = headSeen
      /\ callIds' = callIds /\ repeats' = repeats /\ (damage' = damage \/ damage' = damage + 1)
  BY DEF ReplaceCheckpoint, transcriptVars
<1>3. damage' \in Nat /\ (damage' = 0 => damage = 0) BY <1>1, <1>2
<1>4. RowsSound' BY <1>1, <1>2 DEF RowsSound, Ordered, KeptBefore, IdsKnown
<1>5. CountsSound' BY <1>2, <1>3 DEF TranscriptInd, CountsSound
<1>6. OneCoreSound'
  <2>1. ValidateMessages(context)' <=> ValidateMessages(context) BY <1>2
  <2> QED BY <1>2, <2>1 DEF TranscriptInd, OneCoreSound, LastId
<1>7. WrittenCanBeRead'
  <2>1. Accepts(rows, stored)' <=> Accepts(rows, stored) BY <1>2
  <2>2. Projected(rows)' = Projected(rows) BY <1>2
  <2> QED BY <1>2, <1>3, <2>1, <2>2 DEF TranscriptInd, WrittenCanBeRead
<1> QED BY <1>4, <1>5, <1>6, <1>7 DEF TranscriptInd

(* Every step of the transcript keeps it.                                   *)
LEMMA TranscriptStep == TranscriptInd /\ [TranscriptNext]_transcriptVars => TranscriptInd'
<1> SUFFICES ASSUME TranscriptInd, [TranscriptNext]_transcriptVars PROVE TranscriptInd' OBVIOUS
<1>1. CASE StartCore BY <1>1, StartStays
<1>2. CASE StopCore BY <1>2, StopStays
<1>3. CASE CommitEvents BY <1>3, CommitEventsStays
<1>4. CASE \E n \in 1..2 : CommitRound(n) BY <1>4, CommitRoundStays
<1>5. CASE \E id \in 1..(callIds + 1) : CommitRepeating(id) BY <1>5, CommitRepeatingStays
<1>6. CASE \E at \in Cuts, attention \in BOOLEAN : CompactRows(at, attention)
  <2>1. PICK at \in Cuts, attention \in BOOLEAN : CompactRows(at, attention) BY <1>6
  <2> QED BY <2>1, CompactStays
<1>7. CASE DamageRows BY <1>7, DamageStays
<1>8. CASE ReplaceCheckpoint BY <1>8, CheckpointStays
<1>9. CASE UNCHANGED transcriptVars BY <1>9, CheckpointStays
<1> QED BY <1>1, <1>2, <1>3, <1>4, <1>5, <1>6, <1>7, <1>8, <1>9 DEF TranscriptNext

(* What the Agent writes it can read again, and what it runs on is what would *)
(* be read, however long the history and whatever was compacted in between;  *)
(* the pass that decides it accepts exactly the well-formed transcripts, and *)
(* a compaction that starts at no tool result cuts no group.                *)
LEMMA IndImpliesTranscript == TranscriptInd => TranscriptInv
<1> SUFFICES ASSUME TranscriptInd PROVE TranscriptInv OBVIOUS
<1>1. rows \in Seq(RowType) /\ Ordered(rows) /\ KeptBefore(rows) BY DEF TranscriptInd, RowsSound
<1>2. ValidatorIsExact
  <2>1. ReadAs(rows, MessagesOf(rows)) /\ ReadAs(rows, ActiveMessages(rows)) BY <1>1, ActiveTyped
  <2>2. MessagesOf(rows) \in Seq(MessageType) /\ ActiveMessages(rows) \in Seq(MessageType)
    BY <2>1 DEF ReadAs
  <2>3. MessageSeq(MessagesOf(rows)) /\ MessageSeq(ActiveMessages(rows)) BY <2>2, TypedMessages
  <2> QED BY <2>3, ValidatorExact, Zenon DEF ValidatorIsExact
<1>3. BoundaryCutsNoGroup BY <1>1, BoundaryCuts, Zenon DEF BoundaryCutsNoGroup
<1>4. ContextIsSound
  <2> SUFFICES ASSUME up PROVE WellFormed(context) BY DEF ContextIsSound
  <2>1. context \in Seq(MessageType) /\ ValidateMessages(context) BY DEF TranscriptInd, OneCoreSound
  <2>2. MessageSeq(context) BY <2>1, TypedMessages
  <2> QED BY <2>1, <2>2, ValidatorExact
<1>5. WrittenCanBeRead BY DEF TranscriptInd
<1> QED BY <1>2, <1>3, <1>4, <1>5 DEF TranscriptInv

(* So the transcript is sound in every state of its specification.          *)
THEOREM TranscriptStays == TranscriptSpec => []TranscriptInv
<1>1. TranscriptInit => TranscriptInd BY TranscriptBegins
<1>2. TranscriptInd /\ [TranscriptNext]_transcriptVars => TranscriptInd' BY TranscriptStep
<1>3. TranscriptInd => TranscriptInv BY IndImpliesTranscript
<1> QED BY <1>1, <1>2, <1>3, PTL DEF TranscriptSpec

-----------------------------------------------------------------------------
(* How long a mailbox is remembered (agent/mailbox-continuity.ts).           *)

-----------------------------------------------------------------------------
(* What is remembered of the mailboxes.                                    *)

Anchor == [at : Int, round : Nat, tokens : Int, epoch : Nat, until : Int]
Remembered == [round : Nat, tokens : Int, epoch : Nat, anchors : [Mailboxes -> Anchor]]

(* The lease of a group runs from when the Agent was last active there.      *)
LeasesFollow(c, times) ==
    /\ times \in [Mailboxes -> Int]
    /\ \A m \in Mailboxes :
          /\ times[m] = Never => c.anchors[m].until = Never
          /\ times[m] # Never => /\ m \in Groups
                                 /\ 0 <= times[m] /\ times[m] <= clock
                                 /\ c.anchors[m].until = times[m] + Lease

Draining == [pass : Nat, now : Nat, staged : Remembered, activeAt : [Mailboxes -> Int]]

(* A drain changes only anchors, each to one of this round and epoch.       *)
StagedFollows(d) ==
    /\ d \in Draining /\ d.now <= clock
    /\ d.staged.round = continuity.round /\ d.staged.tokens = continuity.tokens
    /\ d.staged.epoch = continuity.epoch
    /\ LeasesFollow(d.staged, d.activeAt)
    /\ \A m \in Mailboxes :
          \/ d.staged.anchors[m] = continuity.anchors[m]
          \/ /\ d.staged.anchors[m].at >= 0
             /\ d.staged.anchors[m].round = continuity.round
             /\ d.staged.anchors[m].epoch = continuity.epoch

ContinuityInd ==
    /\ clock \in Nat
    /\ continuity \in Remembered
    /\ LeasesFollow(continuity, activeAt)
    /\ shown \in [Mailboxes -> Int]
    /\ \A m \in Mailboxes :
          /\ shown[m] = Never => continuity.anchors[m] = NoAnchor
          /\ shown[m] # Never => /\ continuity.anchors[m].at >= 0
                                 /\ continuity.anchors[m].epoch = shown[m]
    /\ AnchorsAreComparable
    /\ drain # NoDrain => StagedFollows(drain) /\ targets = {}

(* It holds before the first notification.                                  *)
LEMMA ContinuityBegins == ContinuityInit => ContinuityInd
<1> SUFFICES ASSUME ContinuityInit PROVE ContinuityInd OBVIOUS
<1>1. NoAnchor \in Anchor BY DEF NoAnchor, Anchor, Never, Unknown
<1>2. continuity \in Remembered /\ \A m \in Mailboxes : continuity.anchors[m] = NoAnchor
  BY <1>1 DEF ContinuityInit, EmptyContinuity, Remembered, Unknown
<1>3. LeasesFollow(continuity, activeAt) BY <1>2 DEF ContinuityInit, LeasesFollow, NoAnchor, Never
<1>4. AnchorsAreComparable
  BY <1>2 DEF ContinuityInit, EmptyContinuity, AnchorsAreComparable, NoAnchor
<1> QED BY <1>2, <1>3, <1>4 DEF ContinuityInit, ContinuityInd, Never

(* The invariant holds what the property says.                              *)
LEMMA IndImpliesContinuity == ContinuityInd => ContinuityInv
<1> SUFFICES ASSUME ContinuityInd PROVE ContinuityInv OBVIOUS
<1>0. Lease \in Nat \ {0} BY ContinuityConstants
<1>1. EngagedAsLongAsLeased
  <2> SUFFICES ASSUME NEW m \in Mailboxes
               PROVE  /\ Engaged(continuity, m, clock) <=> StillActive(activeAt, m, clock)
                      /\ m \notin Groups => ~Engaged(continuity, m, clock)
    BY DEF EngagedAsLongAsLeased
  <2>1. /\ activeAt[m] \in Int /\ clock \in Nat
        /\ activeAt[m] = Never => continuity.anchors[m].until = Never
        /\ activeAt[m] # Never => m \in Groups /\ continuity.anchors[m].until = activeAt[m] + Lease
    BY DEF ContinuityInd, LeasesFollow
  <2> QED BY <1>0, <2>1 DEF Engaged, StillActive, Never
<1>2. ForgottenIsCompensated
  <2> SUFFICES ASSUME NEW m \in Mailboxes, NEW at \in 0..EndOfTime
               PROVE  /\ shown[m] # Never /\ shown[m] < continuity.epoch =>
                            Compensation(continuity, m, at) = "full"
                      /\ shown[m] = Never => Compensation(continuity, m, at) = "none"
    BY DEF ForgottenIsCompensated
  <2>1. /\ shown[m] = Never => continuity.anchors[m] = NoAnchor
        /\ shown[m] # Never => continuity.anchors[m].at >= 0 /\ continuity.anchors[m].epoch = shown[m]
    BY DEF ContinuityInd
  <2>2. shown[m] # Never => continuity.anchors[m] # NoAnchor BY <2>1 DEF NoAnchor, Never
  <2>3. shown[m] # Never /\ shown[m] < continuity.epoch => NeedsFull(continuity, m)
    <3>1. shown[m] \in Int /\ continuity.epoch \in Nat BY DEF ContinuityInd, Remembered
    <3> QED BY <2>1, <3>1 DEF NeedsFull
  <2> QED BY <2>1, <2>2, <2>3 DEF Compensation
<1> QED BY <1>1, <1>2 DEF ContinuityInd, ContinuityInv

(* A disclosure, and an engagement, set one anchor to this round and epoch.  *)
LEMMA DisclosureIs ==
    ASSUME NEW c \in Remembered, NEW m \in Mailboxes, NEW at \in Nat,
           NEW d, d = RecordDisclosure(c, m, at)
    PROVE  /\ d \in Remembered /\ d.round = c.round /\ d.tokens = c.tokens /\ d.epoch = c.epoch
           /\ \A l \in Mailboxes : l # m => d.anchors[l] = c.anchors[l]
           /\ d.anchors[m].until = c.anchors[m].until
           /\ \/ d.anchors[m] = c.anchors[m]
              \/ d.anchors[m].at >= 0 /\ d.anchors[m].round = c.round /\ d.anchors[m].epoch = c.epoch
<1>1. CASE at < c.anchors[m].at BY <1>1 DEF RecordDisclosure
<1>2. CASE ~(at < c.anchors[m].at)
  <2>1. c.anchors \in [Mailboxes -> Anchor] /\ c.round \in Nat /\ c.tokens \in Int /\ c.epoch \in Nat
    BY DEF Remembered
  <2>2. PICK a : a = [c.anchors[m] EXCEPT !.at = at, !.round = c.round, !.tokens = c.tokens, !.epoch = c.epoch]
    OBVIOUS
  <2>3. a \in Anchor /\ a.until = c.anchors[m].until /\ a.at = at /\ a.round = c.round /\ a.epoch = c.epoch
    <3>1. PICK o : o = c.anchors[m] OBVIOUS
    <3>2. o \in Anchor BY <2>1, <3>1
    <3>3. PICK r, t, e : r = c.round /\ t = c.tokens /\ e = c.epoch OBVIOUS
    <3>4. r \in Nat /\ t \in Int /\ e \in Nat BY <2>1, <3>3
    <3>5. a = [o EXCEPT !.at = at, !.round = r, !.tokens = t, !.epoch = e] BY <2>2, <3>1, <3>3
    <3>6. a = [at |-> at, round |-> r, tokens |-> t, epoch |-> e, until |-> o.until]
      BY <3>2, <3>5 DEF Anchor
    <3>7. o.until \in Int BY <3>2 DEF Anchor
    <3> QED BY <3>1, <3>3, <3>4, <3>6, <3>7 DEF Anchor
  <2>4. d = [c EXCEPT !.anchors[m] = a] BY <1>2, <2>2 DEF RecordDisclosure
  <2>5. d = [c EXCEPT !.anchors = [c.anchors EXCEPT ![m] = a]] BY <2>4
  <2>6. d \in Remembered /\ d.anchors = [c.anchors EXCEPT ![m] = a]
        /\ d.round = c.round /\ d.tokens = c.tokens /\ d.epoch = c.epoch
    BY <2>1, <2>3, <2>5 DEF Remembered
  <2> QED BY <2>1, <2>3, <2>6
<1> QED BY <1>1, <1>2

AnchoredAnew(c, m, now, d) ==
    /\ d \in Remembered /\ d.round = c.round /\ d.tokens = c.tokens /\ d.epoch = c.epoch
    /\ \A l \in Mailboxes : l # m => d.anchors[l] = c.anchors[l]
    /\ d.anchors[m].until = Later(c.anchors[m].until, now + Lease)
    /\ d.anchors[m].at >= 0 /\ d.anchors[m].round = c.round /\ d.anchors[m].epoch = c.epoch

(* An engagement anchors its mailbox anew and touches no other.             *)
LEMMA EngagementIs ==
    ASSUME NEW c \in Remembered, NEW m \in Mailboxes, NEW now \in Nat,
           NEW d, d = RecordEngagement(c, m, now)
    PROVE  AnchoredAnew(c, m, now, d)
<1>1. c.anchors \in [Mailboxes -> Anchor] /\ c.round \in Nat /\ c.tokens \in Int /\ c.epoch \in Nat
  BY DEF Remembered
<1>2. PICK a : a = [at |-> Later(c.anchors[m].at, now), round |-> c.round, tokens |-> c.tokens,
                    epoch |-> c.epoch, until |-> Later(c.anchors[m].until, now + Lease)]
  OBVIOUS
<1>3. a \in Anchor /\ a.until = Later(c.anchors[m].until, now + Lease) /\ a.at >= 0 /\ a.round = c.round
      /\ a.epoch = c.epoch
  <2>1. c.anchors[m].at \in Int /\ c.anchors[m].until \in Int /\ Lease \in Nat
    BY <1>1, ContinuityConstants DEF Anchor
  <2> QED BY <1>1, <1>2, <2>1 DEF Anchor, Later
<1>4. d = [c EXCEPT !.anchors[m] = a] BY <1>2 DEF RecordEngagement
<1>5. d = [c EXCEPT !.anchors = [c.anchors EXCEPT ![m] = a]] BY <1>4
<1>6. d \in Remembered /\ d.anchors = [c.anchors EXCEPT ![m] = a]
      /\ d.round = c.round /\ d.tokens = c.tokens /\ d.epoch = c.epoch
  BY <1>1, <1>3, <1>5 DEF Remembered
<1> QED BY <1>1, <1>3, <1>6 DEF AnchoredAnew

(* Time, and the steps that remember nothing.                               *)
LEMMA PlainContinuityStays ==
    ASSUME ContinuityInd,
           TimePasses \/ BeginDisclosing \/ SecondPass \/ DropDisclosed \/ LoseSends \/ UNCHANGED continuityVars
    PROVE  ContinuityInd'
<1>0. clock \in Nat /\ clock' \in Nat /\ clock <= clock'
      /\ UNCHANGED <<continuity, shown, activeAt>>
  BY DEF TimePasses, BeginDisclosing, SecondPass, DropDisclosed, LoseSends, continuityVars, ContinuityInd
<1>1. LeasesFollow(continuity, activeAt)'
  <2>1. ASSUME NEW m \in Mailboxes, activeAt[m] # Never
        PROVE  0 <= activeAt[m] /\ activeAt[m] <= clock' /\ m \in Groups
               /\ continuity.anchors[m].until = activeAt[m] + Lease
    <3>1. /\ activeAt[m] \in Int /\ 0 <= activeAt[m] /\ activeAt[m] <= clock /\ m \in Groups
          /\ continuity.anchors[m].until = activeAt[m] + Lease
      BY <2>1 DEF ContinuityInd, LeasesFollow
    <3> QED BY <1>0, <3>1
  <2>2. activeAt \in [Mailboxes -> Int]
        /\ \A m \in Mailboxes : activeAt[m] = Never => continuity.anchors[m].until = Never
    BY DEF ContinuityInd, LeasesFollow
  <2> QED BY <1>0, <2>1, <2>2 DEF LeasesFollow
<1>2. AnchorsAreComparable' BY <1>0 DEF ContinuityInd, AnchorsAreComparable
<1>3. drain' # NoDrain => StagedFollows(drain)' /\ targets' = {}
  <2>1. CASE drain' = drain /\ drain # NoDrain
    <3>1. targets = {} /\ StagedFollows(drain) BY <2>1 DEF ContinuityInd
    <3>2. targets' = {}
      BY <2>1, <3>1 DEF TimePasses, BeginDisclosing, SecondPass, DropDisclosed, LoseSends, continuityVars
    <3>3. drain'.now <= clock' BY <1>0, <2>1, <3>1 DEF StagedFollows, Draining
    <3>4. LeasesFollow(drain.staged, drain.activeAt)'
      <4>1. LeasesFollow(drain.staged, drain.activeAt) BY <3>1 DEF StagedFollows
      <4>2. ASSUME NEW m \in Mailboxes, drain.activeAt[m] # Never
            PROVE  0 <= drain.activeAt[m] /\ drain.activeAt[m] <= clock' /\ m \in Groups
                   /\ drain.staged.anchors[m].until = drain.activeAt[m] + Lease
        <5>1. /\ drain.activeAt[m] \in Int /\ 0 <= drain.activeAt[m] /\ drain.activeAt[m] <= clock
              /\ m \in Groups /\ drain.staged.anchors[m].until = drain.activeAt[m] + Lease
          BY <4>1, <4>2 DEF LeasesFollow
        <5> QED BY <1>0, <5>1
      <4> QED BY <2>1, <4>1, <4>2 DEF LeasesFollow
    <3> QED BY <1>0, <2>1, <3>1, <3>2, <3>3, <3>4 DEF StagedFollows
  <2>2. CASE BeginDisclosing
    <3>1. drain' = [pass |-> 1, now |-> clock, staged |-> continuity, activeAt |-> activeAt]
          /\ targets' = {} /\ clock' = clock
      BY <2>2 DEF BeginDisclosing
    <3>2. drain'.now = clock /\ drain'.staged = continuity /\ drain'.activeAt = activeAt BY <3>1
    <3>3. LeasesFollow(drain.staged, drain.activeAt)' BY <1>0, <1>1, <3>2 DEF LeasesFollow
    <3>4. drain' \in Draining
      <4>1. continuity \in Remembered /\ activeAt \in [Mailboxes -> Int] BY DEF ContinuityInd, LeasesFollow
      <4> QED BY <1>0, <3>1, <4>1 DEF Draining
    <3> QED BY <1>0, <3>1, <3>2, <3>3, <3>4 DEF StagedFollows, ContinuityInd
  <2>3. CASE SecondPass
    <3>1. drain # NoDrain BY <2>3 DEF SecondPass, NoDrain
    <3>2. targets = {} /\ StagedFollows(drain) BY <3>1 DEF ContinuityInd
    <3>3. drain'.now = clock /\ drain'.staged = drain.staged /\ drain'.activeAt = drain.activeAt
          /\ targets' = targets /\ clock' = clock
      <4>1. drain' = [drain EXCEPT !.pass = 2, !.now = clock] BY <2>3 DEF SecondPass
      <4>2. drain \in Draining BY <3>2 DEF StagedFollows
      <4> QED BY <2>3, <4>1, <4>2 DEF SecondPass, Draining
    <3>4. LeasesFollow(drain.staged, drain.activeAt)' BY <3>2, <3>3 DEF StagedFollows, LeasesFollow
    <3>5. drain' \in Draining /\ drain'.now <= clock'
      <4>1. drain' = [drain EXCEPT !.pass = 2, !.now = clock] /\ drain \in Draining
        BY <2>3, <3>2 DEF SecondPass, StagedFollows
      <4>2. PICK d, now : d = drain /\ now = clock OBVIOUS
      <4>3. [d EXCEPT !.pass = 2, !.now = now] \in Draining BY <1>0, <4>1, <4>2 DEF Draining
      <4> QED BY <1>0, <3>3, <4>1, <4>2, <4>3
    <3> QED BY <1>0, <3>2, <3>3, <3>4, <3>5 DEF StagedFollows
  <2>4. CASE drain' = NoDrain BY <2>4
  <2> QED BY <2>1, <2>2, <2>3, <2>4
        DEF TimePasses, BeginDisclosing, SecondPass, DropDisclosed, LoseSends, continuityVars
<1> QED BY <1>0, <1>1, <1>2, <1>3 DEF ContinuityInd

(* A mailbox disclosed in the drain.                                       *)
LEMMA DiscloseStays ==
    ASSUME ContinuityInd, NEW m \in Mailboxes, NEW at \in 0..EndOfTime, NEW high \in BOOLEAN,
           NEW fits \in BOOLEAN, Disclose(m, at, high, fits)
    PROVE  ContinuityInd'
<1> DEFINE engaged == Engaged(drain.staged, m, drain.now)
           direct == m \in Groups /\ (engaged \/ high) /\ fits
           told == RecordDisclosure(drain.staged, m, at)
           active == m \in Groups /\ fits /\ StillActive(drain.activeAt, m, drain.now)
<1>0. clock \in Nat /\ UNCHANGED <<clock, continuity, targets, shown, activeAt>> /\ drain # NoDrain
      /\ StagedFollows(drain) /\ targets = {}
  BY DEF Disclose, ContinuityInd
<1>1. PICK c : c = drain.staged OBVIOUS
<1>2. PICK ts : ts = drain.activeAt OBVIOUS
<1>3. PICK now : now = drain.now OBVIOUS
<1>4. c \in Remembered /\ ts \in [Mailboxes -> Int] /\ now \in Nat /\ now <= clock /\ LeasesFollow(c, ts)
      /\ c.round = continuity.round /\ c.epoch = continuity.epoch /\ c.tokens = continuity.tokens
  BY <1>0, <1>1, <1>2, <1>3 DEF StagedFollows, Draining
<1>5. PICK c1 : c1 = RecordDisclosure(c, m, at) OBVIOUS
<1>6. PICK c2 : c2 = IF direct /\ engaged THEN RecordEngagement(c1, m, now) ELSE c1 OBVIOUS
<1>7. PICK ts2 : ts2 = [ts EXCEPT ![m] = IF active THEN Later(@, now) ELSE @] OBVIOUS
<1>8. drain' = [drain EXCEPT !.staged = c2, !.activeAt = ts2]
  BY <1>1, <1>2, <1>3, <1>5, <1>6, <1>7 DEF Disclose
<1>9. /\ c1 \in Remembered /\ c1.round = c.round /\ c1.tokens = c.tokens /\ c1.epoch = c.epoch
      /\ \A l \in Mailboxes : l # m => c1.anchors[l] = c.anchors[l]
      /\ c1.anchors[m].until = c.anchors[m].until
      /\ \/ c1.anchors[m] = c.anchors[m]
         \/ c1.anchors[m].at >= 0 /\ c1.anchors[m].round = c.round /\ c1.anchors[m].epoch = c.epoch
  <2>1. at \in Nat OBVIOUS
  <2> QED BY <1>4, <1>5, <2>1, DisclosureIs
<1>10. /\ ts[m] \in Int /\ Lease \in Nat /\ c.anchors[m].until \in Int
       /\ ts[m] = Never => c.anchors[m].until = Never
       /\ ts[m] # Never => m \in Groups /\ 0 <= ts[m] /\ ts[m] <= clock /\ c.anchors[m].until = ts[m] + Lease
  <2>1. c.anchors[m] \in Anchor BY <1>4 DEF Remembered
  <2> QED BY <1>4, <2>1, ContinuityConstants DEF LeasesFollow, Anchor
<1>11. engaged <=> StillActive(ts, m, now)
  BY <1>1, <1>3, <1>4, <1>10 DEF Engaged, StillActive, Never
<1>12. active <=> direct /\ engaged BY <1>2, <1>3, <1>11
<1>13. /\ c2 \in Remembered /\ c2.round = c.round /\ c2.tokens = c.tokens /\ c2.epoch = c.epoch
       /\ \A l \in Mailboxes : l # m => c2.anchors[l] = c.anchors[l]
       /\ \/ c2.anchors[m] = c.anchors[m]
          \/ c2.anchors[m].at >= 0 /\ c2.anchors[m].round = c.round /\ c2.anchors[m].epoch = c.epoch
       /\ c2.anchors[m].until = IF active THEN Later(c.anchors[m].until, now + Lease) ELSE c.anchors[m].until
  <2>1. CASE direct /\ engaged
    <3>1. c2 = RecordEngagement(c1, m, now) BY <1>6, <2>1
    <3>2. /\ c2 \in Remembered /\ c2.round = c1.round /\ c2.tokens = c1.tokens /\ c2.epoch = c1.epoch
          /\ \A l \in Mailboxes : l # m => c2.anchors[l] = c1.anchors[l]
          /\ c2.anchors[m].until = Later(c1.anchors[m].until, now + Lease)
          /\ c2.anchors[m].at >= 0 /\ c2.anchors[m].round = c1.round /\ c2.anchors[m].epoch = c1.epoch
      <4>1. c1 \in Remembered /\ now \in Nat BY <1>4, <1>9
      <4>2. AnchoredAnew(c1, m, now, c2)
        <5> HIDE DEF direct, engaged, told, active
        <5> QED BY <3>1, <4>1, EngagementIs
      <4> QED BY <4>2 DEF AnchoredAnew
    <3>3. active BY <1>12, <2>1
    <3> HIDE DEF active
    <3> QED BY <1>9, <3>2, <3>3
  <2>2. CASE ~(direct /\ engaged)
    <3>1. c2 = c1 BY <1>6, <2>2
    <3>2. ~active BY <1>12, <2>2
    <3> HIDE DEF active
    <3> QED BY <1>9, <3>1, <3>2
  <2> QED BY <2>1, <2>2
<1>14. ts2 \in [Mailboxes -> Int] /\ (\A l \in Mailboxes : l # m => ts2[l] = ts[l])
       /\ ts2[m] = IF active THEN Later(ts[m], now) ELSE ts[m]
  <2>1. Later(ts[m], now) \in Int BY <1>4, <1>10 DEF Later
  <2> HIDE DEF active
  <2> QED BY <1>4, <1>7, <1>10, <2>1
<1>15. LeasesFollow(c2, ts2)
  <2>1. /\ ts2[m] = Never => c2.anchors[m].until = Never
        /\ ts2[m] # Never => m \in Groups /\ 0 <= ts2[m] /\ ts2[m] <= clock /\ c2.anchors[m].until = ts2[m] + Lease
    <3>1. CASE active
      <4>1. ts2[m] = Later(ts[m], now) /\ c2.anchors[m].until = Later(c.anchors[m].until, now + Lease)
        BY <1>13, <1>14, <3>1
      <4>2. m \in Groups /\ ts[m] # Never BY <1>2, <3>1 DEF StillActive
      <4> QED BY <1>0, <1>4, <1>10, <4>1, <4>2 DEF Later, Never
    <3>2. CASE ~active
      <4>1. ts2[m] = ts[m] /\ c2.anchors[m].until = c.anchors[m].until BY <1>13, <1>14, <3>2
      <4> QED BY <1>10, <4>1
    <3> QED BY <3>1, <3>2
  <2>2. ASSUME NEW l \in Mailboxes, l # m
        PROVE  /\ ts2[l] = Never => c2.anchors[l].until = Never
               /\ ts2[l] # Never => l \in Groups /\ 0 <= ts2[l] /\ ts2[l] <= clock
                                    /\ c2.anchors[l].until = ts2[l] + Lease
    <3>1. ts2[l] = ts[l] /\ c2.anchors[l] = c.anchors[l] BY <1>13, <1>14, <2>2
    <3> QED BY <1>4, <3>1 DEF LeasesFollow
  <2> QED BY <1>14, <2>1, <2>2 DEF LeasesFollow
<1>16. drain' \in Draining /\ drain'.now = now /\ drain'.staged = c2 /\ drain'.activeAt = ts2
  <2>1. PICK d : d = drain OBVIOUS
  <2>2. d \in Draining BY <1>0, <2>1 DEF StagedFollows
  <2>3. PICK d2 : d2 = [d EXCEPT !.staged = c2, !.activeAt = ts2] OBVIOUS
  <2>4. d2 \in Draining /\ d2.now = d.now /\ d2.staged = c2 /\ d2.activeAt = ts2
    BY <1>13, <1>14, <2>2, <2>3 DEF Draining
  <2> QED BY <1>3, <1>8, <2>1, <2>3, <2>4
<1>17. \A l \in Mailboxes :
          \/ c2.anchors[l] = continuity.anchors[l]
          \/ c2.anchors[l].at >= 0 /\ c2.anchors[l].round = continuity.round /\ c2.anchors[l].epoch = continuity.epoch
  <2>1. \A l \in Mailboxes :
          \/ c.anchors[l] = continuity.anchors[l]
          \/ c.anchors[l].at >= 0 /\ c.anchors[l].round = continuity.round /\ c.anchors[l].epoch = continuity.epoch
    BY <1>0, <1>1 DEF StagedFollows
  <2> SUFFICES ASSUME NEW l \in Mailboxes
               PROVE  \/ c2.anchors[l] = continuity.anchors[l]
                      \/ /\ c2.anchors[l].at >= 0
                         /\ c2.anchors[l].round = continuity.round /\ c2.anchors[l].epoch = continuity.epoch
    OBVIOUS
  <2>2. c2.anchors[l] = c.anchors[l]
        \/ (c2.anchors[l].at >= 0 /\ c2.anchors[l].round = c.round /\ c2.anchors[l].epoch = c.epoch)
    BY <1>13
  <2> QED BY <1>4, <2>1, <2>2
<1>18. StagedFollows(drain)'
  <2>1. LeasesFollow(drain.staged, drain.activeAt)' BY <1>0, <1>15, <1>16 DEF LeasesFollow
  <2> QED BY <1>0, <1>4, <1>13, <1>16, <1>17, <2>1 DEF StagedFollows
<1>19. LeasesFollow(continuity, activeAt)' /\ AnchorsAreComparable'
  BY <1>0 DEF ContinuityInd, LeasesFollow, AnchorsAreComparable
<1> QED BY <1>0, <1>18, <1>19 DEF ContinuityInd

(* What a commit installs follows the leases and names what it showed.      *)
LEMMA InstalledStays ==
    ASSUME ContinuityInd, NEW c \in Remembered, Installed(c), UNCHANGED clock,
           c.round = continuity.round, c.tokens = continuity.tokens, c.epoch = continuity.epoch,
           LeasesFollow(c, activeAt'),
           \A m \in Mailboxes :
              \/ c.anchors[m] = continuity.anchors[m]
              \/ c.anchors[m].at >= 0 /\ c.anchors[m].round = c.round /\ c.anchors[m].epoch = c.epoch,
           drain' = NoDrain
    PROVE  ContinuityInd'
<1>1. continuity' = c
      /\ shown' = [m \in Mailboxes |-> IF c.anchors[m] # continuity.anchors[m] THEN c.epoch ELSE shown[m]]
  BY DEF Installed
<1>2. c.epoch \in Nat /\ c.round \in Nat /\ shown \in [Mailboxes -> Int] BY DEF Remembered, ContinuityInd
<1>3. shown' \in [Mailboxes -> Int] BY <1>1, <1>2
<1>4. \A m \in Mailboxes :
          /\ shown'[m] = Never => c.anchors[m] = NoAnchor
          /\ shown'[m] # Never => c.anchors[m].at >= 0 /\ c.anchors[m].epoch = shown'[m]
  <2> SUFFICES ASSUME NEW m \in Mailboxes
               PROVE  /\ shown'[m] = Never => c.anchors[m] = NoAnchor
                      /\ shown'[m] # Never => c.anchors[m].at >= 0 /\ c.anchors[m].epoch = shown'[m]
    OBVIOUS
  <2>1. /\ shown[m] = Never => continuity.anchors[m] = NoAnchor
        /\ shown[m] # Never => continuity.anchors[m].at >= 0 /\ continuity.anchors[m].epoch = shown[m]
    BY DEF ContinuityInd
  <2>2. CASE c.anchors[m] = continuity.anchors[m] BY <1>1, <2>1, <2>2
  <2>3. CASE c.anchors[m] # continuity.anchors[m]
    <3>1. shown'[m] = c.epoch /\ c.anchors[m].at >= 0 /\ c.anchors[m].epoch = c.epoch BY <1>1, <2>3
    <3> QED BY <1>2, <3>1 DEF Never
  <2> QED BY <2>2, <2>3
<1>5. AnchorsAreComparable'
  <2> SUFFICES ASSUME NEW m \in Mailboxes
               PROVE  /\ c.anchors[m].round <= c.round /\ c.anchors[m].epoch <= c.epoch
                      /\ c.anchors[m].epoch < c.epoch /\ c.round = c.anchors[m].round => c.tokens = Unknown
    BY <1>1 DEF AnchorsAreComparable
  <2>1. CASE c.anchors[m] = continuity.anchors[m] BY <2>1 DEF ContinuityInd, AnchorsAreComparable
  <2>2. CASE c.anchors[m].round = c.round /\ c.anchors[m].epoch = c.epoch BY <1>2, <2>2
  <2> QED BY <2>1, <2>2
<1>6. LeasesFollow(continuity, activeAt)' BY <1>1 DEF LeasesFollow
<1> QED BY <1>1, <1>3, <1>4, <1>5, <1>6 DEF ContinuityInd

(* The commit of a drain makes its anchors the continuity state's, each of  *)
(* this round and epoch or the old one.                                     *)
LEMMA CommitDisclosedStays ==
    ASSUME ContinuityInd, CommitDisclosed
    PROVE  ContinuityInd'
<1>1. StagedFollows(drain) BY DEF CommitDisclosed, ContinuityInd
<1>2. PICK c : c = drain.staged OBVIOUS
<1>3. /\ Installed(c) /\ activeAt' = drain.activeAt /\ drain' = NoDrain /\ UNCHANGED clock
  BY <1>2 DEF CommitDisclosed
<1>4. c \in Remembered /\ c.round = continuity.round /\ c.tokens = continuity.tokens /\ c.epoch = continuity.epoch
  BY <1>1, <1>2 DEF StagedFollows, Draining
<1>5. LeasesFollow(c, activeAt') BY <1>1, <1>2, <1>3 DEF StagedFollows
<1>6. \A m \in Mailboxes :
          \/ c.anchors[m] = continuity.anchors[m]
          \/ c.anchors[m].at >= 0 /\ c.anchors[m].round = c.round /\ c.anchors[m].epoch = c.epoch
  BY <1>1, <1>2, <1>4 DEF StagedFollows
<1> QED BY <1>3, <1>4, <1>5, <1>6, InstalledStays

(* The sends of a round, recorded after its commit.                         *)
LEMMA RecordSendsStays ==
    ASSUME ContinuityInd, RecordSends
    PROVE  ContinuityInd'
<1>0. clock \in Nat /\ drain = NoDrain /\ targets # {} /\ UNCHANGED clock /\ drain' = NoDrain
      /\ continuity \in Remembered /\ LeasesFollow(continuity, activeAt)
  BY DEF RecordSends, ContinuityInd
<1>1. PICK as : as = [m \in Mailboxes |-> IF m \in targets \cap Groups
                                          THEN RecordEngagement(continuity, m, clock).anchors[m]
                                          ELSE continuity.anchors[m]]
  OBVIOUS
<1>2. PICK c : c = [continuity EXCEPT !.anchors = as] OBVIOUS
<1>3. Installed(c) /\ activeAt' = [m \in Mailboxes |-> IF m \in targets \cap Groups THEN clock ELSE activeAt[m]]
  BY <1>1, <1>2 DEF RecordSends
<1>4. ASSUME NEW m \in Mailboxes, m \in targets \cap Groups
      PROVE  /\ as[m] \in Anchor /\ as[m].until = clock + Lease
             /\ as[m].at >= 0 /\ as[m].round = continuity.round /\ as[m].epoch = continuity.epoch
  <2>1. PICK d : d = RecordEngagement(continuity, m, clock) OBVIOUS
  <2>2. /\ d \in Remembered
        /\ d.anchors[m].until = Later(continuity.anchors[m].until, clock + Lease)
        /\ d.anchors[m].at >= 0 /\ d.anchors[m].round = continuity.round
        /\ d.anchors[m].epoch = continuity.epoch
    <3>1. continuity \in Remembered /\ clock \in Nat BY <1>0
    <3>2. AnchoredAnew(continuity, m, clock, d) BY <2>1, <3>1, EngagementIs
    <3> QED BY <3>2 DEF AnchoredAnew
  <2>3. as[m] = d.anchors[m] BY <1>1, <1>4, <2>1
  <2>4. d.anchors[m] \in Anchor /\ continuity.anchors[m] \in Anchor BY <1>0, <2>2 DEF Remembered
  <2>5. Later(continuity.anchors[m].until, clock + Lease) = clock + Lease
    <3>1. continuity.anchors[m].until \in Int /\ Lease \in Nat BY <2>4, ContinuityConstants DEF Anchor
    <3>2. activeAt[m] \in Int /\ (activeAt[m] = Never => continuity.anchors[m].until = Never)
          /\ (activeAt[m] # Never => activeAt[m] <= clock /\ continuity.anchors[m].until = activeAt[m] + Lease)
      BY <1>0 DEF LeasesFollow
    <3> QED BY <1>0, <3>1, <3>2 DEF Later, Never
  <2> QED BY <2>2, <2>3, <2>4, <2>5
<1>5. ASSUME NEW m \in Mailboxes, m \notin targets \cap Groups
      PROVE  as[m] = continuity.anchors[m] /\ as[m] \in Anchor /\ activeAt'[m] = activeAt[m]
  <2>1. as[m] = continuity.anchors[m] /\ activeAt'[m] = activeAt[m] BY <1>1, <1>3, <1>5
  <2> QED BY <1>0, <2>1 DEF Remembered
<1>6. as \in [Mailboxes -> Anchor]
  <2>1. \A m \in Mailboxes : as[m] \in Anchor BY <1>4, <1>5
  <2> QED BY <1>1, <2>1
<1>7. c \in Remembered /\ c.anchors = as /\ c.round = continuity.round /\ c.tokens = continuity.tokens
      /\ c.epoch = continuity.epoch
  BY <1>0, <1>2, <1>6 DEF Remembered
<1>8. LeasesFollow(c, activeAt')
  <2>1. activeAt' \in [Mailboxes -> Int]
    <3>1. activeAt \in [Mailboxes -> Int] BY <1>0 DEF LeasesFollow
    <3> QED BY <1>0, <1>3, <3>1
  <2>2. ASSUME NEW m \in Mailboxes
        PROVE  /\ activeAt'[m] = Never => as[m].until = Never
               /\ activeAt'[m] # Never => m \in Groups /\ 0 <= activeAt'[m] /\ activeAt'[m] <= clock
                                          /\ as[m].until = activeAt'[m] + Lease
    <3>1. CASE m \in targets \cap Groups
      <4>1. activeAt'[m] = clock /\ as[m].until = clock + Lease BY <1>3, <1>4, <3>1
      <4> QED BY <1>0, <3>1, <4>1 DEF Never
    <3>2. CASE m \notin targets \cap Groups
      <4>1. activeAt'[m] = activeAt[m] /\ as[m] = continuity.anchors[m] BY <1>5, <3>2
      <4> QED BY <1>0, <4>1 DEF LeasesFollow
    <3> QED BY <3>1, <3>2
  <2> QED BY <1>7, <2>1, <2>2 DEF LeasesFollow
<1>9. \A m \in Mailboxes :
          \/ c.anchors[m] = continuity.anchors[m]
          \/ c.anchors[m].at >= 0 /\ c.anchors[m].round = c.round /\ c.anchors[m].epoch = c.epoch
  <2> SUFFICES ASSUME NEW m \in Mailboxes
               PROVE  \/ c.anchors[m] = continuity.anchors[m]
                      \/ c.anchors[m].at >= 0 /\ c.anchors[m].round = c.round /\ c.anchors[m].epoch = c.epoch
    OBVIOUS
  <2>1. CASE m \in targets \cap Groups BY <1>4, <1>7, <2>1
  <2>2. CASE m \notin targets \cap Groups BY <1>5, <1>7, <2>2
  <2> QED BY <2>1, <2>2
<1> QED BY <1>0, <1>3, <1>7, <1>8, <1>9, InstalledStays

(* A round's usage, and a compaction, change the state's own numbers.       *)
LEMMA NumbersStay ==
    ASSUME ContinuityInd,
           \/ \E tokens \in {Unknown} \cup 0..MaxTokens, sends \in SUBSET Mailboxes : CommitUsage(tokens, sends)
           \/ Compaction
    PROVE  ContinuityInd'
<1>0. /\ drain = NoDrain /\ drain' = NoDrain /\ UNCHANGED <<clock, shown, activeAt>>
      /\ continuity \in Remembered /\ clock \in Nat
  BY DEF CommitUsage, Compaction, ContinuityInd
<1>1. /\ continuity' \in Remembered /\ continuity'.anchors = continuity.anchors
      /\ \/ continuity'.round = continuity.round + 1 /\ continuity'.epoch = continuity.epoch
         \/ /\ continuity'.round = continuity.round /\ continuity'.epoch = continuity.epoch + 1
            /\ continuity'.tokens = Unknown
  <2>0. PICK c : c = continuity OBVIOUS
  <2>1. PICK r \in Nat, t \in Int, e \in Nat, as \in [Mailboxes -> Anchor] :
           c = [round |-> r, tokens |-> t, epoch |-> e, anchors |-> as]
    BY <1>0, <2>0 DEF Remembered
  <2>2. CASE Compaction
    <3>1. PICK d : d = [c EXCEPT !.epoch = @ + 1, !.tokens = Unknown] OBVIOUS
    <3>2. continuity' = d BY <2>0, <2>2, <3>1 DEF Compaction, RecordCompaction
    <3>3. d \in Remembered /\ d.anchors = c.anchors /\ d.round = c.round /\ d.epoch = c.epoch + 1
          /\ d.tokens = Unknown
      <4>1. d = [round |-> r, tokens |-> Unknown, epoch |-> e + 1, anchors |-> as] BY <2>1, <3>1
      <4>2. PICK e2 : e2 = e + 1 OBVIOUS
      <4>3. d = [round |-> r, tokens |-> -1, epoch |-> e2, anchors |-> as] BY <4>1, <4>2 DEF Unknown
      <4>4. e2 \in Nat /\ -1 \in Int BY <4>2
      <4>5. d \in Remembered BY <4>3, <4>4 DEF Remembered
      <4>6. c.anchors = as /\ c.round = r /\ c.epoch = e BY <2>1
      <4>7. d.anchors = as /\ d.round = r /\ d.epoch = e + 1 /\ d.tokens = Unknown
        BY <4>2, <4>3 DEF Unknown
      <4> QED BY <4>5, <4>6, <4>7
    <3> QED BY <2>0, <3>2, <3>3
  <2>3. CASE \E tokens \in {Unknown} \cup 0..MaxTokens, sends \in SUBSET Mailboxes : CommitUsage(tokens, sends)
    <3>1. PICK tokens \in {Unknown} \cup 0..MaxTokens, sends \in SUBSET Mailboxes : CommitUsage(tokens, sends)
      BY <2>3
    <3>2. tokens \in Int BY DEF Unknown
    <3>3. PICK d : d = [c EXCEPT !.round = @ + 1, !.tokens = IF tokens = Unknown THEN @ ELSE tokens] OBVIOUS
    <3>4. continuity' = d BY <2>0, <3>1, <3>3 DEF CommitUsage
    <3>5. d \in Remembered /\ d.anchors = c.anchors /\ d.round = c.round + 1 /\ d.epoch = c.epoch
      <4>1. PICK u : u = IF tokens = Unknown THEN t ELSE tokens OBVIOUS
      <4>2. d = [round |-> r + 1, tokens |-> u, epoch |-> e, anchors |-> as] BY <2>1, <3>3, <4>1
      <4>3. PICK r2 : r2 = r + 1 OBVIOUS
      <4>4. u \in Int /\ r2 \in Nat BY <3>2, <4>1, <4>3
      <4>5. d = [round |-> r2, tokens |-> u, epoch |-> e, anchors |-> as] BY <4>2, <4>3
      <4>6. d \in Remembered BY <4>4, <4>5 DEF Remembered
      <4>7. c.anchors = as /\ c.round = r /\ c.epoch = e BY <2>1
      <4>8. d.anchors = as /\ d.round = r + 1 /\ d.epoch = e BY <4>3, <4>5
      <4> QED BY <4>6, <4>7, <4>8
    <3> QED BY <2>0, <3>4, <3>5
  <2> QED BY <2>2, <2>3
<1>2. LeasesFollow(continuity, activeAt)' BY <1>0, <1>1 DEF ContinuityInd, LeasesFollow
<1>3. AnchorsAreComparable'
  <2> SUFFICES ASSUME NEW m \in Mailboxes
               PROVE  LET a == continuity'.anchors[m] IN
                      /\ a.round <= continuity'.round /\ a.epoch <= continuity'.epoch
                      /\ a.epoch < continuity'.epoch /\ continuity'.round = a.round => continuity'.tokens = Unknown
    BY <1>0 DEF AnchorsAreComparable
  <2>1. PICK a : a = continuity.anchors[m] OBVIOUS
  <2>2. a \in Anchor /\ continuity.round \in Nat /\ continuity.epoch \in Nat BY <1>0, <2>1 DEF Remembered
  <2>3. a.round \in Nat /\ a.epoch \in Nat BY <2>2 DEF Anchor
  <2>4. a.round <= continuity.round /\ a.epoch <= continuity.epoch BY <2>1 DEF ContinuityInd, AnchorsAreComparable
  <2>5. continuity'.anchors[m] = a BY <1>1, <2>1
  <2> QED BY <1>1, <2>2, <2>3, <2>4, <2>5
<1> QED BY <1>0, <1>1, <1>2, <1>3 DEF ContinuityInd

(* MailboxContinuity.tla, ContinuityInv: the Agent is engaged as long as its  *)
(* leases say, and a mailbox shown before a compaction is told of in full.   *)
THEOREM ContinuityStays == ContinuitySpec => []ContinuityInv
<1>1. ContinuityInd /\ [ContinuityNext]_continuityVars => ContinuityInd'
  <2> SUFFICES ASSUME ContinuityInd, [ContinuityNext]_continuityVars PROVE ContinuityInd' OBVIOUS
  <2>1. CASE \E m \in Mailboxes, at \in 0..EndOfTime, high, fits \in BOOLEAN : Disclose(m, at, high, fits)
    BY <2>1, DiscloseStays
  <2>2. CASE CommitDisclosed BY <2>2, CommitDisclosedStays
  <2>3. CASE RecordSends BY <2>3, RecordSendsStays
  <2>4. CASE \/ \E tokens \in {Unknown} \cup 0..MaxTokens, sends \in SUBSET Mailboxes : CommitUsage(tokens, sends)
             \/ Compaction
    BY <2>4, NumbersStay
  <2>5. CASE TimePasses \/ BeginDisclosing \/ SecondPass \/ DropDisclosed \/ LoseSends \/ UNCHANGED continuityVars
    BY <2>5, PlainContinuityStays
  <2> QED BY <2>1, <2>2, <2>3, <2>4, <2>5 DEF ContinuityNext
<1> QED BY <1>1, ContinuityBegins, IndImpliesContinuity, PTL DEF ContinuitySpec

-----------------------------------------------------------------------------
(* Both, for the behaviours that exercise one of them at a time.             *)

(* A behaviour of the ledger's parts is one of each of them.                *)
LEMMA PartsOfTheLedger == LedgerSpec => TranscriptSpec /\ ContinuitySpec
<1>1. LedgerInit => TranscriptInit /\ ContinuityInit BY DEF LedgerInit
<1>2. [LedgerNext]_ledgerVars => [TranscriptNext]_transcriptVars /\ [ContinuityNext]_continuityVars
  <2>1. ASSUME UNCHANGED ledgerVars PROVE UNCHANGED transcriptVars /\ UNCHANGED continuityVars
    BY <2>1, Zenon DEF ledgerVars
  <2>2. ASSUME InCores(Next) \/ InRequests(RequestNext)
        PROVE UNCHANGED transcriptVars /\ UNCHANGED continuityVars
    BY <2>2, Zenon DEF InCores, InRequests
  <2>3. ASSUME InTranscript(TranscriptNext) PROVE TranscriptNext /\ UNCHANGED continuityVars
    BY <2>3, Zenon DEF InTranscript
  <2>4. ASSUME InContinuity(ContinuityNext) PROVE ContinuityNext /\ UNCHANGED transcriptVars
    BY <2>4, Zenon DEF InContinuity
  <2> QED BY <2>1, <2>2, <2>3, <2>4, Zenon DEF LedgerNext
<1> QED BY <1>1, <1>2, PTL DEF LedgerSpec, TranscriptSpec, ContinuitySpec

(* HistoryInv: what the Agent reads of its history is what it wrote, whole    *)
(* and in groups, and a mailbox it no longer remembers is told of in full.   *)
THEOREM HistoryStays == LedgerSpec => []HistoryInv
<1>1. TranscriptInv /\ ContinuityInv => HistoryInv BY DEF HistoryInv
<1> QED BY <1>1, PartsOfTheLedger, TranscriptStays, ContinuityStays, PTL

-----------------------------------------------------------------------------
(* The requests made of the messages.                                      *)

(* Sequences put one after the other: the n-th of these is the first n.     *)
Runs(seqs, N, S, p) ==
    /\ p \in [0..N -> Seq(S)] /\ p[0] = <<>>
    /\ \A m \in 1..N : p[m] = p[m - 1] \o seqs[m]

(* FlattenSeq ends where they end.                                          *)
LEMMA FlattenRuns ==
    ASSUME NEW S, NEW N \in Nat, NEW seqs \in [1..N -> Seq(S)]
    PROVE  \E p : Runs(seqs, N, S, p) /\ p[N] = FlattenSeq(seqs)
<1>0. Len(seqs) = N /\ \A i \in 1..N : seqs[i] \in Seq(S)
  <2>1. seqs \in Seq(Seq(S)) OBVIOUS
  <2> QED BY <2>1, LenProperties
<1>1. CASE N = 0
  <2>1. PICK e : e = <<>> OBVIOUS
  <2>2. e \in Seq(S) BY <2>1
  <2>3. seqs = e BY <1>0, <1>1, <2>1
  <2>4. FlattenSeq(seqs) = e BY <1>0, <1>1, <2>3, Zenon DEF FlattenSeq
  <2>5. PICK p : p = [m \in 0..N |-> e] OBVIOUS
  <2>6. p \in [0..N -> Seq(S)] /\ p[0] = e /\ p[N] = e /\ 1..N = {} BY <1>1, <2>2, <2>5
  <2>7. Runs(seqs, N, S, p) BY <2>1, <2>6, Zenon DEF Runs
  <2> QED BY <2>4, <2>6, <2>7
<1>2. CASE N # 0
  <2> DEFINE Puts(m, f) == \A i \in 1..m : f[i] = (IF i = 1 THEN seqs[i] ELSE f[i - 1] \o seqs[i])
             fl == CHOOSE f : f = [i \in 1..N |-> IF i = 1 THEN seqs[i] ELSE f[i - 1] \o seqs[i]]
             Fine == {m \in 0..N : \E f : f = [i \in 1..m |-> f[i]] /\ Puts(m, f)}
  <2>1. 0 \in Fine
    <3>1. PICK f : f = [i \in 1..0 |-> seqs[i]] OBVIOUS
    <3>2. f = [i \in 1..0 |-> f[i]] /\ Puts(0, f) BY <3>1
    <3>3. 0 \in 0..N OBVIOUS
    <3> HIDE DEF Puts
    <3> QED BY <3>2, <3>3, Zenon
  <2>2. ASSUME NEW m \in 1..N, m - 1 \in Fine PROVE m \in Fine
    <3>2. PICK f : f = [i \in 1..(m - 1) |-> f[i]] /\ Puts(m - 1, f) BY <2>2
    <3>3. PICK g : g = [i \in 1..m |-> IF i = 1 THEN seqs[i] ELSE IF i = m THEN f[m - 1] \o seqs[m] ELSE f[i]]
      OBVIOUS
    <3>4. \A i \in 1..m : i # m => i \in 1..(m - 1) /\ (i # 1 => i - 1 \in 1..(m - 1) /\ i - 1 # m) OBVIOUS
    <3>5. g = [i \in 1..m |-> g[i]] BY <3>3
    <3>5a. \A i \in 1..m : i # m => g[i] = f[i]
      <4> SUFFICES ASSUME NEW i \in 1..m, i # m PROVE g[i] = f[i] OBVIOUS
      <4>1. i = 1 => f[i] = seqs[i] BY <3>2, <3>4
      <4> QED BY <3>3, <4>1
    <3>6. Puts(m, g)
      <4> SUFFICES ASSUME NEW i \in 1..m PROVE g[i] = (IF i = 1 THEN seqs[i] ELSE g[i - 1] \o seqs[i])
        OBVIOUS
      <4>1. CASE i = 1 BY <3>3, <4>1
      <4>2. CASE i # 1 /\ i = m
        <5>1. m - 1 \in 1..m /\ m - 1 # m BY <4>2
        <5>2. g[m] = f[m - 1] \o seqs[m] /\ g[m - 1] = f[m - 1] BY <3>3, <3>5a, <4>2, <5>1
        <5> QED BY <4>2, <5>2, Zenon
      <4>3. CASE i # 1 /\ i # m
        <5>1. g[i] = f[i] /\ i - 1 \in 1..m /\ g[i - 1] = f[i - 1] BY <3>4, <3>5a, <4>3
        <5>2. f[i] = f[i - 1] \o seqs[i] BY <3>2, <3>4, <4>3, Zenon
        <5> QED BY <4>3, <5>1, <5>2, Zenon
      <4> QED BY <4>1, <4>2, <4>3
    <3>7. \E h : h = [i \in 1..m |-> h[i]] /\ Puts(m, h)
      <4> HIDE DEF Puts
      <4> QED BY <3>5, <3>6, Zenon
    <3>8. m \in 0..N OBVIOUS
    <3> HIDE DEF Puts
    <3> QED BY <3>7, <3>8, Zenon
  <2>3. N \in Fine
    <3>1. \A m \in 1..N : m - 1 \in Fine => m \in Fine BY <2>2
    <3> HIDE DEF Fine
    <3>2. \A m \in 0..N : m \in Fine BY <2>1, <3>1, StepByStep, Zenon
    <3> QED BY <3>2
  <2>4. fl = [i \in 1..N |-> IF i = 1 THEN seqs[i] ELSE fl[i - 1] \o seqs[i]]
    <3>2. PICK f : f = [i \in 1..N |-> f[i]] /\ Puts(N, f) BY <2>3
    <3>3. f = [i \in 1..N |-> IF i = 1 THEN seqs[i] ELSE f[i - 1] \o seqs[i]] BY <3>2
    <3> QED BY <3>3, Zenon
  <2>5. FlattenSeq(seqs) = fl[N] BY <1>0, <1>2 DEF FlattenSeq
  <2> HIDE DEF fl
  <2>6. PICK s : s = fl OBVIOUS
  <2>7. \A i \in 1..N : s[i] = (IF i = 1 THEN seqs[i] ELSE s[i - 1] \o seqs[i])
    <3>1. PICK t : t = [i \in 1..N |-> IF i = 1 THEN seqs[i] ELSE s[i - 1] \o seqs[i]] OBVIOUS
    <3>2. s = t BY <2>4, <2>6, <3>1
    <3>3. \A i \in 1..N : t[i] = (IF i = 1 THEN seqs[i] ELSE s[i - 1] \o seqs[i]) BY <3>1
    <3> QED BY <3>2, <3>3
  <2> DEFINE Typed == {m \in 0..N : m # 0 => s[m] \in Seq(S)}
  <2>8. \A m \in 0..N : m \in Typed
    <3>1. 0 \in Typed OBVIOUS
    <3>2. ASSUME NEW m \in 1..N, m - 1 \in Typed PROVE m \in Typed
      <4>1. CASE m = 1 BY <1>0, <2>7, <4>1
      <4>2. CASE m # 1
        <5>1. s[m] = s[m - 1] \o seqs[m] BY <2>7, <4>2
        <5>2. s[m - 1] \in Seq(S) /\ seqs[m] \in Seq(S) BY <1>0, <3>2, <4>2
        <5>3. s[m] \in Seq(S) BY <5>1, <5>2, ConcatProperties
        <5> QED BY <5>3
      <4> QED BY <4>1, <4>2
    <3>3. \A m \in 1..N : m - 1 \in Typed => m \in Typed BY <3>2
    <3> HIDE DEF Typed
    <3> QED BY <3>1, <3>3, StepByStep, Zenon
  <2>9. PICK e : e = <<>> OBVIOUS
  <2>10. PICK p : p = [m \in 0..N |-> IF m = 0 THEN e ELSE s[m]] OBVIOUS
  <2>11. e \in Seq(S) BY <2>9
  <2>12. p \in [0..N -> Seq(S)] /\ p[0] = e /\ \A m \in 1..N : p[m] = s[m]
    <3>1. \A m \in 0..N : m # 0 => s[m] \in Seq(S) BY <2>8
    <3> QED BY <2>10, <2>11, <3>1
  <2>13. ASSUME NEW m \in 1..N PROVE p[m] = p[m - 1] \o seqs[m]
    <3>1. CASE m = 1
      <4>1. p[1] = seqs[1] /\ p[m - 1] = e BY <2>7, <2>12, <3>1
      <4>2. <<>> \o seqs[m] = seqs[m] BY <1>0, ConcatEmptySeq
      <4> QED BY <2>9, <3>1, <4>1, <4>2
    <3>2. CASE m # 1
      <4>1. m - 1 \in 1..N /\ p[m - 1] = s[m - 1] /\ p[m] = s[m] BY <2>12, <3>2
      <4>2. s[m] = s[m - 1] \o seqs[m] BY <2>7, <3>2
      <4> QED BY <4>1, <4>2
    <3> QED BY <3>1, <3>2
  <2>14. Runs(seqs, N, S, p) BY <2>9, <2>12, <2>13 DEF Runs
  <2>15. p[N] = FlattenSeq(seqs) BY <1>2, <2>5, <2>6, <2>12
  <2> QED BY <2>14, <2>15
<1> QED BY <1>1, <1>2

(* Where the sequences agree, so do the runs.                               *)
LEMMA RunsAgree ==
    ASSUME NEW S, NEW N \in Nat, NEW M \in Nat, NEW s, NEW t, NEW p, NEW q,
           Runs(s, N, S, p), Runs(t, M, S, q),
           NEW n \in Nat, n <= N, n <= M, \A i \in 1..n : s[i] = t[i]
    PROVE  p[n] = q[n]
<1> DEFINE Fine == {m \in 0..n : p[m] = q[m]}
<1>1. 0 \in Fine BY DEF Runs
<1>2. ASSUME NEW m \in 1..n, m - 1 \in Fine PROVE m \in Fine
  <2>1. m \in 1..N /\ m \in 1..M /\ s[m] = t[m] OBVIOUS
  <2>2. p[m] = p[m - 1] \o s[m] /\ q[m] = q[m - 1] \o t[m] BY <2>1 DEF Runs
  <2>3. p[m - 1] = q[m - 1] BY <1>2
  <2>4. p[m] = q[m] BY <2>1, <2>2, <2>3
  <2> QED BY <2>4
<1>3. \A m \in 1..n : m - 1 \in Fine => m \in Fine BY <1>2
<1>4. \A m \in 0..n : m \in Fine
  <2> HIDE DEF Fine
  <2> QED BY <1>1, <1>3, StepByStep, Zenon
<1>5. n \in Fine BY <1>4
<1> QED BY <1>5

(* A run only gets longer.                                                  *)
LEMMA RunsGrow ==
    ASSUME NEW S, NEW N \in Nat, NEW s, NEW p, s \in [1..N -> Seq(S)], Runs(s, N, S, p), NEW n \in 0..N
    PROVE  SubSeq(p[N], 1, Len(p[n])) = p[n] /\ Len(p[n]) <= Len(p[N])
<1> DEFINE a == p[n]
           Fine == {m \in 0..N : n <= m => /\ Len(a) <= Len(p[m])
                                           /\ \A i \in 1..Len(a) : p[m][i] = a[i]}
<1>0. \A m \in 0..N : p[m] \in Seq(S) BY DEF Runs
<1>1. a \in Seq(S) /\ Len(a) \in Nat BY <1>0
<1> HIDE DEF a
<1>2. 0 \in Fine BY <1>1 DEF a
<1>3. ASSUME NEW m \in 1..N, m - 1 \in Fine PROVE m \in Fine
  <2>1. CASE n <= m - 1
    <3>1. PICK b : b = p[m - 1] OBVIOUS
    <3>2. p[m] = b \o s[m] /\ b \in Seq(S) /\ s[m] \in Seq(S) /\ m - 1 \in 0..N
      <4>1. m - 1 \in 0..N OBVIOUS
      <4>2. p[m] = p[m - 1] \o s[m] BY DEF Runs
      <4>3. p[m - 1] \in Seq(S) BY <1>0, <4>1
      <4>4. s[m] \in Seq(S) OBVIOUS
      <4> QED BY <3>1, <4>1, <4>2, <4>3, <4>4
    <3>3. Len(a) <= Len(b) /\ \A i \in 1..Len(a) : b[i] = a[i] BY <1>3, <2>1, <3>1
    <3>4. PICK c : c = b \o s[m] OBVIOUS
    <3>5. Joins(b, s[m], c) /\ c \in Seq(S) BY <3>2, <3>4, ConcatJoins
    <3>6. Len(b) \in Nat /\ Len(s[m]) \in Nat BY <3>2
    <3>7. Len(b) <= Len(c) /\ \A i \in 1..Len(b) : c[i] = b[i] BY <3>5, <3>6 DEF Joins
    <3>8. Len(a) <= Len(c) /\ \A i \in 1..Len(a) : c[i] = a[i]
      <4>1. Len(c) \in Nat BY <3>5
      <4>2. \A i \in 1..Len(a) : i \in 1..Len(b) BY <1>1, <3>3, <3>6
      <4> QED BY <1>1, <3>3, <3>6, <3>7, <4>1, <4>2
    <3>9. p[m] = c /\ m \in 0..N BY <3>2, <3>4
    <3> QED BY <3>8, <3>9
  <2>2. CASE ~(n <= m - 1)
    <3>1. n <= m => n = m BY <2>2
    <3> QED BY <1>1, <3>1 DEF a
  <2> QED BY <2>1, <2>2
<1>4. N \in Fine
  <2>1. \A m \in 1..N : m - 1 \in Fine => m \in Fine BY <1>3
  <2> HIDE DEF Fine
  <2>2. \A m \in 0..N : m \in Fine BY <1>2, <2>1, StepByStep, Zenon
  <2> QED BY <2>2
<1>5. PICK z : z = p[N] OBVIOUS
<1>6. z \in Seq(S) /\ Len(a) <= Len(z) /\ \A i \in 1..Len(a) : z[i] = a[i] BY <1>0, <1>4, <1>5
<1>7. SubSeq(z, 1, Len(a)) = a
  <2>1. PICK b : b = SubSeq(z, 1, Len(a)) OBVIOUS
  <2>2. b \in Seq(S) /\ Len(b) = Len(a) /\ \A i \in 1..Len(a) : b[i] = z[i] BY <1>1, <1>6, <2>1
  <2>3. b = a BY <1>1, <1>6, <2>2
  <2> QED BY <2>1, <2>3
<1> QED BY <1>5, <1>6, <1>7 DEF a

(* What a wire message may be.                                             *)
BlockKinds == {"text", "tool_use", "tool_result", "thinking", "image_url"}
BlockType == [kind : BlockKinds, id : Nat, says : Sayings \cup {"see next"}]
WireType == [role : {"user", "assistant", "tool", "developer"}, blocks : Seq(BlockType)]
NoCalls(s) == \A l \in 1..Len(s) : s[l].kind # "tool_use" /\ s[l].kind # "tool_result"

(* A block is what it is made of.                                          *)
IsBlock(b, kind, id) == b \in BlockType /\ b.kind = kind /\ b.id = id

(* A block has the kind and the id it is made with.                         *)
LEMMA BlockIs ==
    ASSUME NEW kind \in BlockKinds, NEW id \in Nat, NEW says \in Sayings \cup {"see next"}
    PROVE  IsBlock(Block(kind, id, says), kind, id)
<1>1. PICK b : b = [kind |-> kind, id |-> id, says |-> says] OBVIOUS
<1>2. Block(kind, id, says) = b BY <1>1, Zenon DEF Block
<1>3. b.kind = kind /\ b.id = id BY <1>1
<1>4. b \in BlockType BY <1>1 DEF BlockType
<1> QED BY <1>2, <1>3, <1>4, Zenon DEF IsBlock

(* Whose calls and results a wire message shows.                            *)
ShowsIds(w, s) ==
    /\ \A id : id \in UsesOf(w) <=> \E l \in DOMAIN s : s[l].kind = "tool_use" /\ s[l].id = id
    /\ \A id : id \in ResultsOf(w) <=> \E l \in DOMAIN s : s[l].kind = "tool_result" /\ s[l].id = id

(* Which calls and results a wire message shows, by its blocks.             *)
LEMMA ShownIds ==
    ASSUME NEW w, NEW s, w.blocks = s
    PROVE  ShowsIds(w, s)
BY DEF UsesOf, ResultsOf, ShowsIds

(* A sequence of one.                                                      *)
IsOneOf(s, b, S) == s \in Seq(S) /\ DOMAIN s = {1} /\ s[1] = b

(* A sequence of one element.                                               *)
LEMMA OneIs ==
    ASSUME NEW S, NEW b \in S
    PROVE  IsOneOf(<<b>>, b, S)
<1>1. PICK s : s = <<b>> OBVIOUS
<1>2. s \in Seq(S) /\ Len(s) = 1 /\ s[1] = b BY <1>1
<1>3. DOMAIN s = 1..1 BY <1>2
<1>4. 1..1 = {1} OBVIOUS
<1> QED BY <1>1, <1>2, <1>3, <1>4 DEF IsOneOf

WireOf(w, role, uses, results) ==
    /\ w \in WireType /\ w.role = role /\ UsesOf(w) = uses /\ ResultsOf(w) = results

(* A message of one block that is no call.                                  *)
LEMMA OneBlockIs ==
    ASSUME NEW role \in {"user", "tool"}, NEW kind \in {"text", "tool_result", "image_url"}, NEW id \in Nat,
           NEW says \in Sayings \cup {"see next"}
    PROVE  WireOf(Wire(role, <<Block(kind, id, says)>>), role, {}, IF kind = "tool_result" THEN {id} ELSE {})
<1>1. PICK b : b = Block(kind, id, says) OBVIOUS
<1>2. b \in BlockType /\ b.kind = kind /\ b.id = id
  <2>1. kind \in BlockKinds BY DEF BlockKinds
  <2>2. IsBlock(b, kind, id) BY <1>1, <2>1, BlockIs
  <2> QED BY <2>2 DEF IsBlock
<1>3. PICK s : s = <<b>> OBVIOUS
<1>4. s \in Seq(BlockType) /\ DOMAIN s = {1} /\ s[1] = b
  <2>1. IsOneOf(<<b>>, b, BlockType) BY <1>2, OneIs
  <2> QED BY <1>3, <2>1, Zenon DEF IsOneOf
<1>5. PICK w : w = [role |-> role, blocks |-> s] OBVIOUS
<1>6. Wire(role, <<Block(kind, id, says)>>) = w BY <1>1, <1>3, <1>5, Zenon DEF Wire
<1>7. w \in WireType /\ w.role = role /\ w.blocks = s BY <1>4, <1>5 DEF WireType
<1>7a. ShowsIds(w, s) BY <1>7, ShownIds
<1>8. UsesOf(w) = {}
  <2>1. \A x : x \in UsesOf(w) => kind = "tool_use" BY <1>2, <1>4, <1>7a DEF ShowsIds
  <2> QED BY <2>1
<1>9. ResultsOf(w) = IF kind = "tool_result" THEN {id} ELSE {}
  <2>1. \A x : x \in ResultsOf(w) <=> kind = "tool_result" /\ id = x BY <1>2, <1>4, <1>7a DEF ShowsIds
  <2> QED BY <2>1
<1> QED BY <1>6, <1>7, <1>8, <1>9 DEF WireOf

(* What is shown of the calls of a message.                                 *)
LEMMA CallBlocksAre ==
    ASSUME NEW m \in MessageType
    PROVE  /\ CallBlocks(m) \in Seq(BlockType) /\ Len(CallBlocks(m)) = Len(m.calls)
           /\ \A k \in 1..Len(m.calls) : CallBlocks(m)[k].kind = "tool_use" /\ CallBlocks(m)[k].id = m.calls[k]
<1>1. PICK ids : ids = m.calls OBVIOUS
<1>2. ids \in Seq(Nat) /\ DOMAIN ids = 1..Len(ids) /\ \A k \in 1..Len(ids) : ids[k] \in Nat
  BY <1>1 DEF MessageType
<1>3. PICK s : s = [k \in DOMAIN ids |-> Block("tool_use", ids[k], NothingSaid)] OBVIOUS
<1>4. CallBlocks(m) = s BY <1>1, <1>3, Zenon DEF CallBlocks, NothingSaid
<1>5. ASSUME NEW k \in 1..Len(ids)
      PROVE s[k] \in BlockType /\ s[k].kind = "tool_use" /\ s[k].id = ids[k]
  <2>1. "tool_use" \in BlockKinds /\ NothingSaid \in Sayings \cup {"see next"} /\ ids[k] \in Nat
    BY <1>2 DEF BlockKinds, Sayings
  <2>2. s[k] = Block("tool_use", ids[k], NothingSaid) BY <1>2, <1>3
  <2>3. IsBlock(s[k], "tool_use", ids[k]) BY <2>1, <2>2, BlockIs
  <2> QED BY <2>3 DEF IsBlock
<1>6. s = [k \in 1..Len(ids) |-> s[k]] BY <1>2, <1>3
<1>7. s \in Seq(BlockType) /\ Len(s) = Len(ids)
  <2>1. Len(ids) \in Nat BY <1>2
  <2>2. \A k \in 1..Len(ids) : s[k] \in BlockType BY <1>5
  <2> QED BY <1>6, <2>1, <2>2
<1> QED BY <1>1, <1>4, <1>5, <1>7

(* What is shown of an assistant message: what precedes its calls, and they. *)
LEMMA AssistantWireIs ==
    ASSUME NEW m \in MessageType, NEW pre \in Seq(BlockType), NoCalls(pre),
           NEW b, b = pre \o CallBlocks(m)
    PROVE  /\ WireOf(Wire("assistant", b), "assistant", Range(m.calls), {})
           /\ b = <<>> => pre = <<>> /\ m.calls = <<>>
           /\ pre # <<>> => Wire("assistant", b).blocks[1] = pre[1]
<1>1. PICK c : c = CallBlocks(m) OBVIOUS
<1>2. PICK ids : ids = m.calls OBVIOUS
<1>3. /\ c \in Seq(BlockType) /\ Len(c) = Len(ids)
      /\ \A k \in 1..Len(ids) : c[k].kind = "tool_use" /\ c[k].id = ids[k]
  BY <1>1, <1>2, CallBlocksAre
<1>4. ids \in Seq(Nat) /\ DOMAIN ids = 1..Len(ids) /\ Len(ids) \in Nat BY <1>2 DEF MessageType
<1>5. Joins(pre, c, b) /\ b \in Seq(BlockType) BY <1>1, <1>3, ConcatJoins
<1>6. /\ Len(pre) \in Nat /\ Len(b) = Len(pre) + Len(ids) /\ DOMAIN b = 1..Len(b)
      /\ \A i \in 1..Len(pre) : b[i] = pre[i]
      /\ \A k \in 1..Len(ids) : b[Len(pre) + k] = c[k]
  BY <1>3, <1>5 DEF Joins
<1>7. PICK w : w = [role |-> "assistant", blocks |-> b] OBVIOUS
<1>8. Wire("assistant", b) = w BY <1>7, Zenon DEF Wire
<1>9. w \in WireType /\ w.role = "assistant" /\ w.blocks = b BY <1>5, <1>7 DEF WireType
<1>10. ASSUME NEW l \in 1..Len(b)
       PROVE  \/ b[l].kind # "tool_use" /\ b[l].kind # "tool_result"
              \/ \E k \in 1..Len(ids) : b[l] = c[k]
  <2>1. CASE l \in 1..Len(pre) BY <1>6, <2>1 DEF NoCalls
  <2>2. CASE l \notin 1..Len(pre)
    <3>1. l - Len(pre) \in 1..Len(ids) /\ Len(pre) + (l - Len(pre)) = l BY <1>4, <1>6, <2>2
    <3> QED BY <1>6, <3>1
  <2> QED BY <2>1, <2>2
<1>10a. ShowsIds(w, b) BY <1>9, ShownIds
<1>11. UsesOf(w) = Range(ids)
  <2>1. ASSUME NEW x \in UsesOf(w) PROVE x \in Range(ids)
    <3>1. PICK l \in 1..Len(b) : b[l].kind = "tool_use" /\ b[l].id = x BY <1>6, <1>10a DEF ShowsIds
    <3>2. PICK k \in 1..Len(ids) : b[l] = c[k] BY <1>10, <3>1
    <3>3. ids[k] = x BY <1>3, <3>1, <3>2
    <3> QED BY <1>4, <3>3 DEF Range
  <2>2. ASSUME NEW x \in Range(ids) PROVE x \in UsesOf(w)
    <3>1. PICK k \in 1..Len(ids) : ids[k] = x BY <1>4 DEF Range
    <3>2. Len(pre) + k \in 1..Len(b) BY <1>4, <1>6
    <3>3. b[Len(pre) + k].kind = "tool_use" /\ b[Len(pre) + k].id = x BY <1>3, <1>6, <3>1
    <3> QED BY <1>6, <1>10a, <3>2, <3>3 DEF ShowsIds
  <2> QED BY <2>1, <2>2
<1>12. ResultsOf(w) = {}
  <2>1. ASSUME NEW x \in ResultsOf(w) PROVE FALSE
    <3>1. PICK l \in 1..Len(b) : b[l].kind = "tool_result" BY <1>6, <1>10a, <2>1 DEF ShowsIds
    <3>2. PICK k \in 1..Len(ids) : b[l] = c[k] BY <1>10, <3>1
    <3> QED BY <1>3, <3>1, <3>2
  <2> QED BY <2>1
<1>13. b = <<>> => pre = <<>> /\ ids = <<>>
  <2> SUFFICES ASSUME b = <<>> PROVE pre = <<>> /\ ids = <<>> OBVIOUS
  <2>1. Len(b) = 0 OBVIOUS
  <2>2. Len(pre) = 0 /\ Len(ids) = 0 BY <1>4, <1>6, <2>1
  <2>3. pre = <<>> BY <2>2, EmptySeq
  <2> QED BY <1>4, <2>2, <2>3, EmptySeq
<1>14. pre # <<>> => w.blocks[1] = pre[1]
  <2> SUFFICES ASSUME pre # <<>> PROVE b[1] = pre[1] BY <1>9
  <2>1. Len(pre) # 0 BY EmptySeq
  <2>2. 1 \in 1..Len(pre) BY <1>6, <2>1
  <2> QED BY <1>6, <2>2
<1> QED BY <1>2, <1>8, <1>9, <1>11, <1>12, <1>13, <1>14 DEF WireOf

(* What an assistant message says is text, if anything.                     *)
LEMMA SaidBlockIs ==
    ASSUME NEW m \in MessageType
    PROVE  SaidBlock(m) \in Seq(BlockType) /\ NoCalls(SaidBlock(m))
<1>1. CASE SaidBlock(m) = <<>>
  <2>1. PICK e : e = <<>> OBVIOUS
  <2>2. e \in Seq(BlockType) /\ NoCalls(e) BY <2>1 DEF NoCalls
  <2> QED BY <1>1, <2>1, <2>2, Zenon
<1>2. CASE SaidBlock(m) = <<Block("text", BlankId, m.says)>>
  <2>1. PICK b : b = Block("text", BlankId, m.says) OBVIOUS
  <2>2. b \in BlockType /\ b.kind = "text"
    <3>1. "text" \in BlockKinds /\ BlankId \in Nat /\ m.says \in Sayings \cup {"see next"}
      BY DEF BlockKinds, BlankId, MessageType
    <3>2. IsBlock(b, "text", BlankId) BY <2>1, <3>1, BlockIs
    <3> QED BY <3>2 DEF IsBlock
  <2>3. PICK s : s = <<b>> OBVIOUS
  <2>4. s \in Seq(BlockType) /\ NoCalls(s) BY <2>2, <2>3 DEF NoCalls
  <2> QED BY <1>2, <2>1, <2>3, <2>4, Zenon
<1>3. SaidBlock(m) = <<>> \/ SaidBlock(m) = <<Block("text", BlankId, m.says)>> BY Zenon DEF SaidBlock
<1> QED BY <1>1, <1>2, <1>3

(* What the wire messages made of one message show.                         *)
Shows(es, m, replays) ==
    /\ es \in Seq(WireType)
    /\ \A a \in 1..Len(es) : es[a].role = "assistant" <=> m.role = "assistant"
    /\ m.role = "assistant" =>
          /\ Len(es) <= 1 /\ (m.calls # <<>> => Len(es) = 1)
          /\ \A a \in 1..Len(es) : UsesOf(es[a]) = Range(m.calls) /\ ResultsOf(es[a]) = {}
          /\ route.provider = "claude" /\ replays =>
                Len(es) = 1 /\ es[1].blocks[1].kind = "thinking"
    /\ m.role # "assistant" => \A a \in 1..Len(es) : UsesOf(es[a]) = {}
    /\ m.role = "user" => \A a \in 1..Len(es) : ResultsOf(es[a]) = {}
    /\ m.role = "tool" =>
          /\ Len(es) > 0 /\ ResultsOf(es[1]) = {m.answers}
          /\ \A a \in 1..Len(es) : /\ ResultsOf(es[a]) \subseteq {m.answers}
                                   /\ route.provider = "claude" => ResultsOf(es[a]) # {}

(* One wire message, or two.                                               *)
LEMMA OneShows ==
    ASSUME NEW w, NEW m, NEW r, NEW uses, NEW results, NEW role, WireOf(w, role, uses, results),
           role = "assistant" <=> m.role = "assistant",
           m.role = "assistant" => uses = Range(m.calls) /\ results = {},
           m.role = "assistant" /\ r /\ route.provider = "claude" => w.blocks[1].kind = "thinking",
           m.role # "assistant" => uses = {},
           m.role = "user" => results = {}, m.role = "tool" => results = {m.answers}
    PROVE  Shows(<<w>>, m, r)
<1>1. w \in WireType /\ w.role = role /\ UsesOf(w) = uses /\ ResultsOf(w) = results BY DEF WireOf
<1>2. PICK s : s = <<w>> OBVIOUS
<1>3. IsOneOf(s, w, WireType) BY <1>1, <1>2, OneIs
<1>4. s \in Seq(WireType) /\ Len(s) = 1 /\ s[1] = w BY <1>2, <1>3 DEF IsOneOf
<1>5. \A a \in 1..Len(s) : s[a] = w BY <1>4
<1>6. Shows(s, m, r)
  <2>1. {m.answers} # {} OBVIOUS
  <2>2. \A a \in 1..Len(s) : s[a].role = role /\ UsesOf(s[a]) = uses /\ ResultsOf(s[a]) = results
    BY <1>1, <1>5
  <2>3. 1 \in 1..Len(s) /\ Len(s) <= 1 /\ Len(s) > 0 BY <1>4
  <2>4. UsesOf(s[1]) = uses /\ ResultsOf(s[1]) = results /\ s[1].blocks = w.blocks BY <1>4, <2>2, <2>3
  <2> QED BY <1>4, <2>1, <2>2, <2>3, <2>4, Zenon DEF Shows
<1> QED BY <1>2, <1>6

(* The text of a user.                                                     *)
LEMMA UserShows ==
    ASSUME NEW m \in MessageType, m.role = "user", NEW r
    PROVE  Shows(<<Wire("user", <<Block("text", BlankId, m.says)>>)>>, m, r)
<1>1. m.says \in Sayings \cup {"see next"} /\ BlankId \in Nat BY DEF MessageType, BlankId
<1>2. WireOf(Wire("user", <<Block("text", BlankId, m.says)>>), "user", {}, {}) BY <1>1, OneBlockIs
<1> QED BY <1>2, OneShows

(* What Claude is shown of one message.                                     *)
LEMMA ClaudeShows ==
    ASSUME NEW ms, NEW i, ms[i] \in MessageType, ms[i].role \in {"user", "assistant", "tool"},
           route.provider = "claude"
    PROVE  Shows(ClaudeEmits(ms, i), ms[i], Replays(ms, i))
<1> DEFINE r == Replays(ms, i)
<1>0. PICK m : m = ms[i] OBVIOUS
<1>1. CASE m.role = "user"
  <2>1. ClaudeEmits(ms, i) = <<Wire("user", <<Block("text", BlankId, m.says)>>)>>
    BY <1>0, <1>1 DEF ClaudeEmits
  <2>2. Shows(<<Wire("user", <<Block("text", BlankId, m.says)>>)>>, m, r) BY <1>0, <1>1, UserShows
  <2> QED BY <1>0, <2>1, <2>2
<1>2. CASE m.role = "tool"
  <2>1. ClaudeEmits(ms, i) = <<Wire("user", <<Block("tool_result", m.answers, m.says)>>)>>
    BY <1>0, <1>2 DEF ClaudeEmits
  <2>2. m.says \in Sayings \cup {"see next"} /\ m.answers \in Nat BY <1>0 DEF MessageType
  <2>3. WireOf(Wire("user", <<Block("tool_result", m.answers, m.says)>>), "user", {}, {m.answers})
    BY <2>2, OneBlockIs
  <2>4. Shows(<<Wire("user", <<Block("tool_result", m.answers, m.says)>>)>>, m, r)
    BY <1>2, <2>3, OneShows
  <2> QED BY <1>0, <2>1, <2>4
<1>3. CASE m.role = "assistant"
  <2>1. PICK think : think = IF r THEN <<Block("thinking", BlankId, NothingSaid)>> ELSE <<>> OBVIOUS
  <2>2. PICK b : b = (think \o SaidBlock(m)) \o CallBlocks(m) OBVIOUS
  <2>3. PICK w : w = Wire("assistant", b) OBVIOUS
  <2>4. ClaudeEmits(ms, i) = IF b = <<>> THEN <<>> ELSE <<w>>
    <3>1. think = IF Replays(ms, i) THEN <<Block("thinking", BlankId, "")>> ELSE <<>> BY <2>1, Zenon DEF NothingSaid
    <3>2. "assistant" # "user" OBVIOUS
    <3> HIDE DEF r
    <3> QED BY <1>0, <1>3, <2>2, <2>3, <3>1, <3>2 DEF ClaudeEmits
  <2>5. think \in Seq(BlockType) /\ NoCalls(think) /\ (r => think # <<>> /\ think[1].kind = "thinking")
    <3> HIDE DEF r
    <3>1. CASE r
      <4>1. PICK t : t = Block("thinking", BlankId, NothingSaid) OBVIOUS
      <4>2. "thinking" \in BlockKinds /\ BlankId \in Nat /\ NothingSaid \in Sayings \cup {"see next"}
        BY DEF BlockKinds, BlankId, Sayings
      <4>3. IsBlock(t, "thinking", BlankId) BY <4>1, <4>2, BlockIs
      <4>4. t \in BlockType /\ t.kind = "thinking" BY <4>3 DEF IsBlock
      <4>5. think = <<t>> BY <2>1, <3>1, <4>1
      <4>6. IsOneOf(think, t, BlockType) BY <4>4, <4>5, OneIs
      <4>7. think \in Seq(BlockType) /\ Len(think) = 1 /\ think[1] = t BY <4>5, <4>6 DEF IsOneOf
      <4>8. NoCalls(think) BY <4>4, <4>7 DEF NoCalls
      <4>9. think # <<>> /\ think[1].kind = "thinking" BY <4>4, <4>7
      <4> QED BY <4>7, <4>8, <4>9, Zenon
    <3>2. CASE ~r
      <4>1. think = <<>> BY <2>1, <3>2
      <4> QED BY <3>2, <4>1 DEF NoCalls
    <3> QED BY <3>1, <3>2
  <2>6. SaidBlock(m) \in Seq(BlockType) /\ NoCalls(SaidBlock(m)) BY <1>0, SaidBlockIs
  <2>7. PICK pre : pre = think \o SaidBlock(m) OBVIOUS
  <2>8. Joins(think, SaidBlock(m), pre) /\ pre \in Seq(BlockType) BY <2>5, <2>6, <2>7, ConcatJoins
  <2>9. NoCalls(pre)
    <3> SUFFICES ASSUME NEW l \in 1..Len(pre) PROVE pre[l].kind # "tool_use" /\ pre[l].kind # "tool_result"
      BY DEF NoCalls
    <3>1. PICK s : s = SaidBlock(m) OBVIOUS
    <3>2. Len(think) \in Nat /\ Len(s) \in Nat /\ Len(pre) = Len(think) + Len(s)
      BY <2>5, <2>6, <2>8, <3>1 DEF Joins
    <3>3. CASE l \in 1..Len(think) BY <2>5, <2>8, <3>3 DEF Joins, NoCalls
    <3>4. CASE l \notin 1..Len(think)
      <4>1. l - Len(think) \in 1..Len(s) /\ Len(think) + (l - Len(think)) = l BY <3>2, <3>4
      <4>2. pre[l] = s[l - Len(think)] BY <2>8, <3>1, <4>1 DEF Joins
      <4> QED BY <2>6, <3>1, <4>1, <4>2 DEF NoCalls
    <3> QED BY <3>3, <3>4
  <2>10. r => pre # <<>> /\ pre[1].kind = "thinking"
    <3> SUFFICES ASSUME r PROVE pre # <<>> /\ pre[1].kind = "thinking" OBVIOUS
    <3>1. Len(think) # 0 /\ Len(think) \in Nat BY <2>5, EmptySeq
    <3>2. 1 \in 1..Len(think) /\ Len(SaidBlock(m)) \in Nat BY <2>6, <3>1
    <3>3. pre[1] = think[1] /\ Len(pre) # 0 BY <2>8, <3>2 DEF Joins
    <3> QED BY <2>5, <2>8, <3>3, EmptySeq
  <2>11. b = pre \o CallBlocks(m) BY <2>2, <2>7
  <2>12. /\ WireOf(w, "assistant", Range(m.calls), {})
         /\ b = <<>> => pre = <<>> /\ m.calls = <<>>
         /\ pre # <<>> => w.blocks[1] = pre[1]
    BY <1>0, <2>3, <2>8, <2>9, <2>11, AssistantWireIs
  <2>13. CASE b = <<>>
    <3>1. PICK e : e = <<>> OBVIOUS
    <3>2. e \in Seq(WireType) /\ Len(e) = 0 BY <3>1
    <3>3. m.calls = <<>> /\ ~r BY <2>10, <2>12, <2>13
    <3>4. Shows(e, m, r)
      <4> HIDE DEF r
      <4> QED BY <1>3, <3>2, <3>3 DEF Shows
    <3> QED BY <1>0, <2>4, <2>13, <3>1, <3>4
  <2>14. CASE b # <<>>
    <3>1. r => w.blocks[1].kind = "thinking" BY <2>10, <2>12
    <3>2. Shows(<<w>>, m, r)
      <4> HIDE DEF r
      <4> QED BY <1>3, <2>12, <3>1, OneShows
    <3> QED BY <1>0, <2>4, <2>14, <3>2
  <2> QED BY <2>13, <2>14
<1> QED BY <1>0, <1>1, <1>2, <1>3

(* What OpenAI is shown of one message.                                     *)
LEMMA OpenAIShows ==
    ASSUME NEW m \in MessageType, m.role \in {"user", "assistant", "tool"},
           NEW r, route.provider = "openai"
    PROVE  Shows(OpenAIEmits(m), m, r)
<1>1. CASE m.role = "user"
  <2>1. OpenAIEmits(m) = <<Wire("user", <<Block("text", BlankId, m.says)>>)>> BY <1>1 DEF OpenAIEmits
  <2> QED BY <1>1, <2>1, UserShows
<1>2. CASE m.role = "assistant"
  <2>1. PICK pre : pre = SaidBlock(m) OBVIOUS
  <2>2. PICK b : b = pre \o CallBlocks(m) OBVIOUS
  <2>3. PICK w : w = Wire("assistant", b) OBVIOUS
  <2>4. OpenAIEmits(m) = <<w>> BY <1>2, <2>1, <2>2, <2>3 DEF OpenAIEmits
  <2>5. pre \in Seq(BlockType) /\ NoCalls(pre) BY <2>1, SaidBlockIs
  <2>6. WireOf(w, "assistant", Range(m.calls), {}) BY <2>2, <2>3, <2>5, AssistantWireIs
  <2>7. Shows(<<w>>, m, r) BY <1>2, <2>6, OneShows
  <2> QED BY <2>4, <2>7
<1>3. CASE m.role = "tool"
  <2>0. m.answers \in Nat /\ m.says \in Sayings \cup {"see next"} BY DEF MessageType
  <2>1. CASE m.says = "picture"
    <3>1. PICK v : v = Wire("tool", <<Block("tool_result", m.answers, "see next")>>) OBVIOUS
    <3>2. PICK w : w = Wire("user", <<Block("image_url", m.answers, m.says)>>) OBVIOUS
    <3>3. OpenAIEmits(m) = <<v, w>> BY <1>3, <2>1, <3>1, <3>2 DEF OpenAIEmits
    <3>4. WireOf(v, "tool", {}, {m.answers})
      <4>1. "see next" \in Sayings \cup {"see next"} OBVIOUS
      <4> QED BY <2>0, <3>1, <4>1, OneBlockIs
    <3>5. WireOf(w, "user", {}, {}) BY <2>0, <3>2, OneBlockIs
    <3>6. /\ v \in WireType /\ v.role = "tool" /\ UsesOf(v) = {} /\ ResultsOf(v) = {m.answers}
          /\ w \in WireType /\ w.role = "user" /\ UsesOf(w) = {} /\ ResultsOf(w) = {}
      BY <3>4, <3>5 DEF WireOf
    <3>7. PICK es : es = <<v, w>> OBVIOUS
    <3>8. es \in Seq(WireType) /\ Len(es) = 2 /\ es[1] = v /\ es[2] = w BY <3>6, <3>7
    <3>9. \A a \in 1..Len(es) : es[a] = v \/ es[a] = w BY <3>8
    <3>10. Shows(es, m, r) BY <1>3, <3>6, <3>8, <3>9 DEF Shows
    <3> QED BY <3>3, <3>7, <3>10
  <2>2. CASE m.says # "picture"
    <3>1. PICK v : v = Wire("tool", <<Block("tool_result", m.answers, m.says)>>) OBVIOUS
    <3>2. OpenAIEmits(m) = <<v>> BY <1>3, <2>2, <3>1 DEF OpenAIEmits
    <3>3. WireOf(v, "tool", {}, {m.answers}) BY <2>0, <3>1, OneBlockIs
    <3>4. Shows(<<v>>, m, r) BY <1>3, <3>3, OneShows
    <3> QED BY <3>2, <3>4
  <2> QED BY <2>1, <2>2
<1> QED BY <1>1, <1>2, <1>3

(* Whoever is asked.                                                       *)
LEMMA EmissionShows ==
    ASSUME NEW ms, NEW i, ms[i] \in MessageType, ms[i].role \in {"user", "assistant", "tool"}, route \in Routes
    PROVE  Shows(Emits(ms, i), ms[i], Replays(ms, i))
<1>1. route.provider = "claude" \/ route.provider = "openai" BY DEF Routes
<1>2. CASE route.provider = "claude"
  <2>1. Emits(ms, i) = ClaudeEmits(ms, i) BY <1>2, Zenon DEF Emits
  <2> QED BY <1>2, <2>1, ClaudeShows
<1>3. CASE route.provider = "openai"
  <2>1. Emits(ms, i) = OpenAIEmits(ms[i])
    <3>1. route.provider # "claude" BY <1>3
    <3> QED BY <3>1, Zenon DEF Emits
  <2> QED BY <1>3, <2>1, OpenAIShows
<1> QED BY <1>1, <1>2, <1>3

(* Which message each wire message of a body was made of; 0: of none.        *)
Silent(w) == w.role # "assistant" /\ UsesOf(w) = {} /\ ResultsOf(w) = {}
Traces(B, f, em, m) ==
    /\ B \in Seq(WireType) /\ f \in [1..Len(B) -> 0..m]
    /\ \A j, l \in 1..Len(B) : j < l => f[j] <= f[l]
    /\ \A j \in 1..Len(B) : f[j] = 0 => Silent(B[j]) /\ route.provider # "claude"
    /\ \A j \in 1..Len(B) : f[j] # 0 => \E a \in 1..Len(em[f[j]]) : B[j] = em[f[j]][a]
    /\ \A i \in 1..m : \A a \in 1..Len(em[i]) : \E j \in 1..Len(B) : f[j] = i /\ B[j] = em[i][a]
    /\ \A j, l \in 1..Len(B) : j < l /\ f[j] = f[l] /\ f[j] # 0 => Len(em[f[j]]) >= 2

(* The wire messages of one more message are put behind the others.         *)
LEMMA TraceGrows ==
    ASSUME NEW m \in Nat \ {0}, NEW em, em[m] \in Seq(WireType), NEW B, NEW f, Traces(B, f, em, m - 1)
    PROVE  \E g : Traces(B \o em[m], g, em, m)
<1>1. PICK e : e = em[m] OBVIOUS
<1>2. PICK C : C = B \o e OBVIOUS
<1>3. B \in Seq(WireType) /\ e \in Seq(WireType) BY <1>1 DEF Traces
<1>4. Joins(B, e, C) /\ C \in Seq(WireType) BY <1>2, <1>3, ConcatJoins
<1>5. PICK b : b = Len(B) OBVIOUS
<1>6. PICK n : n = Len(e) OBVIOUS
<1>7. b \in Nat /\ n \in Nat /\ Len(C) = b + n BY <1>3, <1>4, <1>5, <1>6 DEF Joins
<1>8. PICK g : g = [j \in 1..(b + n) |-> IF j <= b THEN f[j] ELSE m] OBVIOUS
<1>9. /\ f \in [1..b -> 0..(m - 1)]
      /\ \A j, l \in 1..b : j < l => f[j] <= f[l]
      /\ \A j \in 1..b : f[j] = 0 => Silent(B[j]) /\ route.provider # "claude"
      /\ \A j \in 1..b : f[j] # 0 => \E a \in 1..Len(em[f[j]]) : B[j] = em[f[j]][a]
      /\ \A i \in 1..(m - 1) : \A a \in 1..Len(em[i]) : \E j \in 1..b : f[j] = i /\ B[j] = em[i][a]
      /\ \A j, l \in 1..b : j < l /\ f[j] = f[l] /\ f[j] # 0 => Len(em[f[j]]) >= 2
  BY <1>5 DEF Traces
<1>10. /\ \A j \in 1..b : j \in 1..(b + n) /\ C[j] = B[j] /\ g[j] = f[j] /\ f[j] \in 0..(m - 1) /\ f[j] < m
       /\ \A a \in 1..n : b + a \in 1..(b + n) /\ C[b + a] = e[a] /\ g[b + a] = m
  <2>1. \A j \in 1..b : C[j] = B[j] BY <1>4, <1>5 DEF Joins
  <2>2. \A a \in 1..n : C[b + a] = e[a] BY <1>4, <1>5, <1>6 DEF Joins
  <2>3. \A j \in 1..b : f[j] \in 0..(m - 1) BY <1>9
  <2>4. \A j \in 1..b : f[j] < m BY <2>3
  <2>5. \A j \in 1..b : j \in 1..(b + n) /\ j <= b BY <1>7
  <2>6. \A j \in 1..b : g[j] = f[j] BY <1>8, <2>5
  <2>7. \A a \in 1..n : b + a \in 1..(b + n) /\ ~(b + a <= b) BY <1>7
  <2>8. \A a \in 1..n : g[b + a] = m BY <1>8, <2>7
  <2> QED BY <2>1, <2>2, <2>3, <2>4, <2>5, <2>6, <2>7, <2>8
<1>11. \A j \in 1..(b + n) : j \in 1..b \/ \E a \in 1..n : j = b + a
  <2> SUFFICES ASSUME NEW j \in 1..(b + n), j \notin 1..b PROVE \E a \in 1..n : j = b + a OBVIOUS
  <2>1. j - b \in 1..n /\ j = b + (j - b) BY <1>7
  <2> QED BY <2>1
<1>12. g \in [1..(b + n) -> 0..m]
  <2>1. \A j \in 1..(b + n) : g[j] \in 0..m
    <3> SUFFICES ASSUME NEW j \in 1..(b + n) PROVE g[j] \in 0..m OBVIOUS
    <3>1. CASE j \in 1..b BY <1>10, <3>1
    <3>2. CASE \E a \in 1..n : j = b + a BY <1>10, <3>2
    <3> QED BY <1>11, <3>1, <3>2
  <2>2. g = [j \in 1..(b + n) |-> g[j]] BY <1>8
  <2> QED BY <2>1, <2>2
<1>13. ASSUME NEW j \in 1..(b + n), NEW l \in 1..(b + n), j < l
       PROVE  g[j] <= g[l] /\ (g[j] = g[l] /\ g[j] # 0 => Len(em[g[j]]) >= 2)
  <2>1. CASE l \in 1..b
    <3>1. j \in 1..b BY <1>7, <1>13, <2>1
    <3> QED BY <1>9, <1>10, <1>13, <2>1, <3>1
  <2>2. CASE j \in 1..b /\ l \notin 1..b
    <3>1. g[l] = m BY <1>10, <1>11, <2>2
    <3> QED BY <1>10, <2>2, <3>1
  <2>3. CASE j \notin 1..b /\ l \notin 1..b
    <3>1. PICK c \in 1..n : j = b + c BY <1>11, <2>3
    <3>2. PICK d \in 1..n : l = b + d BY <1>11, <2>3
    <3>3. n >= 2 BY <1>7, <1>13, <3>1, <3>2
    <3>4. g[j] = m /\ g[l] = m BY <1>10, <3>1, <3>2
    <3> QED BY <1>1, <1>6, <3>3, <3>4
  <2>4. j \notin 1..b => l \notin 1..b BY <1>7, <1>13
  <2> QED BY <2>1, <2>2, <2>3, <2>4
<1>14. ASSUME NEW j \in 1..(b + n)
       PROVE  /\ g[j] = 0 => Silent(C[j]) /\ route.provider # "claude"
              /\ g[j] # 0 => \E a \in 1..Len(em[g[j]]) : C[j] = em[g[j]][a]
  <2>1. CASE j \in 1..b
    <3>1. g[j] = f[j] /\ C[j] = B[j] BY <1>10, <2>1
    <3> QED BY <1>9, <2>1, <3>1
  <2>2. CASE \E a \in 1..n : j = b + a
    <3>1. PICK a \in 1..n : j = b + a BY <2>2
    <3>2. g[j] = m /\ C[j] = e[a] /\ m # 0 BY <1>10, <3>1
    <3>3. a \in 1..Len(em[m]) /\ C[j] = em[m][a] BY <1>1, <1>6, <3>2
    <3> QED BY <3>2, <3>3
  <2> QED BY <1>11, <2>1, <2>2
<1>15. ASSUME NEW i \in 1..m, NEW a \in 1..Len(em[i])
       PROVE  \E j \in 1..(b + n) : g[j] = i /\ C[j] = em[i][a]
  <2>1. CASE i = m
    <3>1. a \in 1..n BY <1>1, <1>6, <2>1
    <3>2. b + a \in 1..(b + n) /\ C[b + a] = e[a] /\ g[b + a] = m BY <1>10, <3>1
    <3> QED BY <1>1, <2>1, <3>2
  <2>2. CASE i # m
    <3>1. i \in 1..(m - 1) BY <2>2
    <3>2. PICK j \in 1..b : f[j] = i /\ B[j] = em[i][a] BY <1>9, <3>1
    <3>3. j \in 1..(b + n) /\ C[j] = B[j] /\ g[j] = f[j] BY <1>10
    <3> QED BY <3>2, <3>3
  <2> QED BY <2>1, <2>2
<1>16. Traces(C, g, em, m)
  <2>1. Len(C) = b + n BY <1>7
  <2>2. g \in [1..Len(C) -> 0..m] BY <1>12, <2>1
  <2>3. \A j, l \in 1..Len(C) : j < l => g[j] <= g[l] BY <1>13, <2>1
  <2>4. \A j, l \in 1..Len(C) : j < l /\ g[j] = g[l] /\ g[j] # 0 => Len(em[g[j]]) >= 2
    BY <1>13, <2>1
  <2>5. \A j \in 1..Len(C) : g[j] = 0 => Silent(C[j]) /\ route.provider # "claude" BY <1>14, <2>1
  <2>6. \A j \in 1..Len(C) : g[j] # 0 => \E a \in 1..Len(em[g[j]]) : C[j] = em[g[j]][a]
    BY <1>14, <2>1
  <2>7. \A i \in 1..m : \A a \in 1..Len(em[i]) : \E j \in 1..Len(C) : g[j] = i /\ C[j] = em[i][a]
    <3> SUFFICES ASSUME NEW i \in 1..m, NEW a \in 1..Len(em[i])
                 PROVE  \E j \in 1..Len(C) : g[j] = i /\ C[j] = em[i][a]
      OBVIOUS
    <3>1. PICK j \in 1..(b + n) : g[j] = i /\ C[j] = em[i][a] BY <1>15
    <3> QED BY <2>1, <3>1
  <2> QED BY <1>4, <2>2, <2>3, <2>4, <2>5, <2>6, <2>7, Zenon DEF Traces
<1> QED BY <1>1, <1>2, <1>16

(* The roles of a request's messages; the messages as they are shown.        *)
Speaks(ms) == ms \in Seq(MessageType) /\ \A i \in 1..Len(ms) : ms[i].role \in {"user", "assistant", "tool"}
Emissions(ms, n) == [i \in 1..n |-> Emits(ms, i)]

(* Each is shown, and what is shown is put one after the other.             *)
LEMMA EmissionsRun ==
    ASSUME NEW ms, Speaks(ms), route \in Routes, NEW n \in 0..Len(ms)
    PROVE  /\ \A i \in 1..n : Emissions(ms, n)[i] = Emits(ms, i) /\ Shows(Emits(ms, i), ms[i], Replays(ms, i))
           /\ Emissions(ms, n) \in [1..n -> Seq(WireType)]
           /\ \E p : Runs(Emissions(ms, n), n, WireType, p) /\ p[n] = EmittedBy(ms, n)
<1>0. Len(ms) \in Nat /\ n \in Nat /\ \A i \in 1..n : i \in 1..Len(ms) BY DEF Speaks
<1>1. \A i \in 1..n : ms[i] \in MessageType /\ ms[i].role \in {"user", "assistant", "tool"} BY <1>0 DEF Speaks
<1>2. \A i \in 1..n : Shows(Emits(ms, i), ms[i], Replays(ms, i)) BY <1>1, EmissionShows
<1>3. \A i \in 1..n : Emits(ms, i) \in Seq(WireType) BY <1>2 DEF Shows
<1>4. PICK em : em = Emissions(ms, n) OBVIOUS
<1>5. em = [i \in 1..n |-> Emits(ms, i)] BY <1>4 DEF Emissions
<1>6. em \in [1..n -> Seq(WireType)] /\ \A i \in 1..n : em[i] = Emits(ms, i) BY <1>3, <1>5
<1>7. \E p : Runs(em, n, WireType, p) /\ p[n] = FlattenSeq(em) BY <1>0, <1>6, FlattenRuns
<1>8. EmittedBy(ms, n) = FlattenSeq(em) BY <1>5 DEF EmittedBy
<1> QED BY <1>2, <1>4, <1>6, <1>7, <1>8

(* Every wire message of a body comes of a message, in the messages' order.  *)
LEMMA BodyIsTraced ==
    ASSUME NEW ms, Speaks(ms), route \in Routes
    PROVE  \E f : Traces(Body(ms), f, Emissions(ms, Len(ms)), Len(ms))
<1> DEFINE N == Len(ms)
<1>0. N \in Nat /\ N \in 0..N BY DEF Speaks
<1>1. PICK em : em = Emissions(ms, N) OBVIOUS
<1>2. em \in [1..N -> Seq(WireType)] BY <1>0, <1>1, EmissionsRun
<1>3. PICK p : Runs(em, N, WireType, p) /\ p[N] = EmittedBy(ms, N) BY <1>0, <1>1, EmissionsRun
<1>4. PICK pre : pre = IF route.provider = "openai" THEN <<Wire("developer", <<>>)>> ELSE <<>> OBVIOUS
<1>5. Body(ms) = pre \o p[N] BY <1>3, <1>4 DEF Body
<1>6. /\ pre \in Seq(WireType)
      /\ \A j \in 1..Len(pre) : Silent(pre[j]) /\ route.provider # "claude"
  <2>1. CASE route.provider = "openai"
    <3>1. PICK e : e = <<>> OBVIOUS
    <3>2. PICK w : w = [role |-> "developer", blocks |-> e] OBVIOUS
    <3>3. e \in Seq(BlockType) /\ DOMAIN e = {} BY <3>1
    <3>4. w \in WireType /\ w.role = "developer" /\ w.blocks = e BY <3>2, <3>3 DEF WireType
    <3>5. UsesOf(w) = {} /\ ResultsOf(w) = {} BY <3>3, <3>4 DEF UsesOf, ResultsOf
    <3>6. Silent(w) BY <3>4, <3>5 DEF Silent
    <3>7. Wire("developer", <<>>) = w BY <3>1, <3>2, Zenon DEF Wire
    <3>8. pre = <<w>> BY <1>4, <2>1, <3>7
    <3>9. IsOneOf(pre, w, WireType) BY <3>4, <3>8, OneIs
    <3>10. pre \in Seq(WireType) /\ Len(pre) = 1 /\ pre[1] = w BY <3>8, <3>9 DEF IsOneOf
    <3> QED BY <2>1, <3>6, <3>10
  <2>2. CASE route.provider # "openai"
    <3>1. pre = <<>> BY <1>4, <2>2
    <3> QED BY <3>1
  <2> QED BY <2>1, <2>2
<1>7. \A m \in 0..N : p[m] \in Seq(WireType) BY <1>3 DEF Runs
<1> HIDE DEF N
<1> DEFINE Fine == {m \in 0..N : \E f : Traces(pre \o p[m], f, em, m)}
<1>8. 0 \in Fine
  <2>1. p[0] = <<>> BY <1>3 DEF Runs
  <2>2. pre \o <<>> = pre BY <1>6, ConcatEmptySeq
  <2>3. PICK f : f = [j \in 1..Len(pre) |-> 0] OBVIOUS
  <2>4. f \in [1..Len(pre) -> 0..0] /\ \A j \in 1..Len(pre) : f[j] = 0 BY <2>3
  <2>5. Traces(pre, f, em, 0)
    <3>1. \A i \in 1..0 : FALSE OBVIOUS
    <3>2. \A j, l \in 1..Len(pre) : j < l => f[j] <= f[l] BY <2>4
    <3> QED BY <1>6, <2>4, <3>1, <3>2 DEF Traces
  <2>6. \E g : Traces(pre \o p[0], g, em, 0) BY <2>1, <2>2, <2>5
  <2> QED BY <1>0, <2>6
<1>9. ASSUME NEW m \in 1..N, m - 1 \in Fine PROVE m \in Fine
  <2>1. PICK f : Traces(pre \o p[m - 1], f, em, m - 1) BY <1>9
  <2>2. p[m] = p[m - 1] \o em[m] /\ m - 1 \in 0..N /\ m \in 0..N
    <3>1. m - 1 \in 0..N /\ m \in 0..N BY <1>0
    <3>2. p[m] = p[m - 1] \o em[m] BY <1>3 DEF Runs
    <3> QED BY <3>1, <3>2
  <2>3. p[m - 1] \in Seq(WireType) /\ em[m] \in Seq(WireType) BY <1>2, <1>7, <2>2
  <2>4. pre \o p[m] = (pre \o p[m - 1]) \o em[m]
    <3>1. PICK q : q = p[m - 1] OBVIOUS
    <3>2. PICK e : e = em[m] OBVIOUS
    <3>3. q \in Seq(WireType) /\ e \in Seq(WireType) BY <2>3, <3>1, <3>2
    <3>4. (pre \o q) \o e = pre \o (q \o e) BY <1>6, <3>3, ConcatAssociative
    <3> QED BY <2>2, <3>1, <3>2, <3>4
  <2>5. m \in Nat \ {0} BY <1>0
  <2>6. PICK B : B = pre \o p[m - 1] OBVIOUS
  <2>7. \E g : Traces(B \o em[m], g, em, m) BY <2>1, <2>3, <2>5, <2>6, TraceGrows
  <2> QED BY <2>2, <2>4, <2>6, <2>7
<1>10. N \in Fine
  <2>1. \A m \in 1..N : m - 1 \in Fine => m \in Fine BY <1>9
  <2> HIDE DEF Fine
  <2>2. \A m \in 0..N : m \in Fine BY <1>0, <1>8, <2>1, StepByStep, Zenon
  <2> QED BY <1>0, <2>2
<1> QED BY <1>1, <1>5, <1>10 DEF N

(* Every call of a request's messages has its result, and every result its   *)
(* call, where the reply and its results were put.                          *)
Paired(ms) ==
    /\ \A i \in 1..Len(ms) : ms[i].calls # <<>> => ms[i].role = "assistant"
    /\ \A i \in 1..Len(ms) : \A k \in 1..Len(ms[i].calls) :
          i + k <= Len(ms) /\ ms[i + k].role = "tool" /\ ms[i + k].answers = ms[i].calls[k]
    /\ \A j \in 1..Len(ms) : ms[j].role = "tool" =>
          \E i \in 1..Len(ms) : \E k \in 1..Len(ms[i].calls) : j = i + k
Talk(ms) == Speaks(ms) /\ Paired(ms)

(* The body of such a request shows no call without its result and no        *)
(* result without its call.                                                *)
LEMMA TalkMeets ==
    ASSUME NEW ms, Talk(ms), route \in Routes
    PROVE  CallsMeetResults(Body(ms))
<1> DEFINE N == Len(ms)
<1>0. /\ N \in Nat /\ N \in 0..N /\ Speaks(ms) /\ Paired(ms)
      /\ \A i \in 1..N : ms[i].role \in {"user", "assistant", "tool"} /\ ms[i].calls \in Seq(Nat)
  <2>1. \A m \in MessageType : m.calls \in Seq(Nat) BY DEF MessageType
  <2> QED BY <2>1 DEF Talk, Speaks
<1>1. PICK em : em = Emissions(ms, N) OBVIOUS
<1>2. \A i \in 1..N : em[i] = Emits(ms, i) /\ Shows(em[i], ms[i], Replays(ms, i))
  <2>1. \A i \in 1..N : em[i] = Emits(ms, i) /\ Shows(Emits(ms, i), ms[i], Replays(ms, i))
    BY <1>0, <1>1, EmissionsRun
  <2> QED BY <2>1
<1>3. PICK B : B = Body(ms) OBVIOUS
<1>4. PICK f : Traces(B, f, em, N) BY <1>0, <1>1, <1>3, BodyIsTraced
<1>5. PICK b : b = Len(B) OBVIOUS
<1>6. /\ b \in Nat /\ DOMAIN B = 1..b /\ f \in [1..b -> 0..N]
      /\ \A j, l \in 1..b : j < l => f[j] <= f[l]
      /\ \A j \in 1..b : f[j] = 0 => Silent(B[j]) /\ route.provider # "claude"
      /\ \A j \in 1..b : f[j] # 0 => \E a \in 1..Len(em[f[j]]) : B[j] = em[f[j]][a]
      /\ \A i \in 1..N : \A a \in 1..Len(em[i]) : \E j \in 1..b : f[j] = i /\ B[j] = em[i][a]
      /\ \A j, l \in 1..b : j < l /\ f[j] = f[l] /\ f[j] # 0 => Len(em[f[j]]) >= 2
  <2>1. B \in Seq(WireType) BY <1>4 DEF Traces
  <2>2. b \in Nat /\ DOMAIN B = 1..b BY <1>5, <2>1
  <2> HIDE DEF N
  <2> QED BY <1>4, <1>5, <2>2, Zenon DEF Traces
<1> HIDE DEF N
<1>7. \A j \in 1..b : f[j] \in 0..N /\ (f[j] # 0 => f[j] \in 1..N) BY <1>0, <1>6
(* What a wire message shows, by the message it is made of.                 *)
<1>8. ASSUME NEW j \in 1..b, f[j] # 0
      PROVE  /\ B[j].role = "assistant" <=> ms[f[j]].role = "assistant"
             /\ ms[f[j]].role = "assistant" => Len(em[f[j]]) <= 1 /\ UsesOf(B[j]) = Range(ms[f[j]].calls) /\ ResultsOf(B[j]) = {}
             /\ ms[f[j]].role # "assistant" => UsesOf(B[j]) = {}
             /\ ms[f[j]].role = "user" => ResultsOf(B[j]) = {}
             /\ ms[f[j]].role = "tool" => /\ ResultsOf(B[j]) \subseteq {ms[f[j]].answers}
                                          /\ route.provider = "claude" => ResultsOf(B[j]) # {}
  <2>1. PICK i : i = f[j] OBVIOUS
  <2>2. i \in 1..N BY <1>7, <1>8, <2>1
  <2>3. PICK a \in 1..Len(em[i]) : B[j] = em[i][a] BY <1>6, <1>8, <2>1
  <2>4. Shows(em[i], ms[i], Replays(ms, i)) BY <1>2, <2>2
  <2>5. PICK w : w = B[j] OBVIOUS
  <2>6. /\ w.role = "assistant" <=> ms[i].role = "assistant"
        /\ ms[i].role = "assistant" => Len(em[i]) <= 1 /\ UsesOf(w) = Range(ms[i].calls) /\ ResultsOf(w) = {}
        /\ ms[i].role # "assistant" => UsesOf(w) = {}
        /\ ms[i].role = "user" => ResultsOf(w) = {}
        /\ ms[i].role = "tool" => /\ ResultsOf(w) \subseteq {ms[i].answers}
                                  /\ route.provider = "claude" => ResultsOf(w) # {}
    BY <2>3, <2>4, <2>5, Zenon DEF Shows
  <2> QED BY <2>1, <2>5, <2>6, Zenon
<1>9. \A j \in 1..b : f[j] = 0 => B[j].role # "assistant" /\ UsesOf(B[j]) = {} /\ ResultsOf(B[j]) = {}
  BY <1>6 DEF Silent
(* Between a reply and the result of one of its calls.                      *)
<1>10. ASSUME NEW i \in 1..N, NEW k \in 1..Len(ms[i].calls), NEW j \in 1..b, NEW l \in 1..b,
              f[j] = i, f[l] = i + k
       PROVE  /\ j < l
              /\ \A x \in (j + 1)..(l - 1) : /\ x \in 1..b /\ B[x].role # "assistant"
                                             /\ route.provider = "claude" => ResultsOf(B[x]) # {}
  <2>1. k \in Nat /\ k > 0 /\ ms[i].role = "assistant"
    <3>1. ms[i].calls \in Seq(Nat) BY <1>0
    <3>2. Len(ms[i].calls) \in Nat BY <3>1
    <3>3. ms[i].calls # <<>>
      <4>1. Len(ms[i].calls) # 0 BY <3>2
      <4> QED BY <3>1, <4>1, EmptySeq
    <3> QED BY <1>0, <3>2, <3>3 DEF Paired, N
  <2>2. i \in Nat /\ i # 0 /\ i < i + k BY <1>0, <2>1
  <2>3. j < l
    <3>1. ~(l < j)
      <4> SUFFICES ASSUME l < j PROVE FALSE OBVIOUS
      <4>1. f[l] <= f[j] BY <1>6
      <4> QED BY <1>10, <2>1, <2>2, <4>1
    <3>2. l # j BY <1>10, <2>2
    <3> QED BY <1>6, <3>1, <3>2
  <2>4. ASSUME NEW x \in (j + 1)..(l - 1)
        PROVE  /\ x \in 1..b /\ B[x].role # "assistant"
               /\ route.provider = "claude" => ResultsOf(B[x]) # {}
    <3>1. x \in 1..b /\ j < x /\ x < l BY <1>6
    <3>2. i <= f[x] /\ f[x] <= i + k
      <4>1. f[j] <= f[x] /\ f[x] <= f[l] BY <1>6, <3>1
      <4> QED BY <1>10, <4>1
    <3>3. f[x] # i
      <4> SUFFICES ASSUME f[x] = i PROVE FALSE OBVIOUS
      <4>1. Len(em[i]) >= 2 BY <1>6, <1>10, <2>2, <3>1
      <4>2. Len(em[i]) <= 1 BY <1>8, <1>10, <2>1, <2>2
      <4>3. Len(em[i]) \in Nat
        <5>1. em[i] \in Seq(WireType) BY <1>2 DEF Shows
        <5> QED BY <5>1
      <4> QED BY <4>1, <4>2, <4>3
    <3>4. PICK y : y = f[x] - i OBVIOUS
    <3>5. f[x] \in 0..N BY <1>7, <3>1
    <3>6. y \in 1..k /\ i + y = f[x] /\ f[x] # 0 BY <2>1, <2>2, <3>2, <3>3, <3>4, <3>5
    <3>7. y \in 1..Len(ms[i].calls)
      <4>1. Len(ms[i].calls) \in Nat
        <5>1. ms[i].calls \in Seq(Nat) BY <1>0
        <5> QED BY <5>1
      <4> QED BY <3>6, <4>1
    <3>8. ms[i + y].role = "tool" BY <1>0, <3>7 DEF Paired, N
    <3>9. ms[f[x]].role = "tool" BY <3>6, <3>8
    <3> QED BY <1>8, <3>1, <3>6, <3>9
  <2> QED BY <2>3, <2>4
<1>11. ASSUME NEW i \in 1..b, NEW id \in UsesOf(B[i])
       PROVE  \E j \in (i + 1)..b :
                 /\ id \in ResultsOf(B[j])
                 /\ \A l \in (i + 1)..(j - 1) :
                       /\ B[l].role # "assistant"
                       /\ route.provider = "claude" => ResultsOf(B[l]) # {}
  <2>1. f[i] # 0 BY <1>9
  <2>2. PICK n : n = f[i] OBVIOUS
  <2>3. n \in 1..N BY <1>7, <2>1, <2>2
  <2>4. ms[n].role = "assistant" /\ id \in Range(ms[n].calls) BY <1>8, <2>1, <2>2
  <2>5. PICK k \in 1..Len(ms[n].calls) : ms[n].calls[k] = id
    <3>1. ms[n].calls \in Seq(Nat) BY <1>0, <2>3
    <3>2. DOMAIN ms[n].calls = 1..Len(ms[n].calls) BY <3>1
    <3> QED BY <2>4, <3>2 DEF Range
  <2>6. n + k <= N /\ ms[n + k].role = "tool" /\ ms[n + k].answers = id
    <3>1. \A x \in 1..N : \A y \in 1..Len(ms[x].calls) :
             x + y <= N /\ ms[x + y].role = "tool" /\ ms[x + y].answers = ms[x].calls[y]
      BY <1>0, Zenon DEF Paired, N
    <3>2. n + k <= N /\ ms[n + k].role = "tool" /\ ms[n + k].answers = ms[n].calls[k] BY <2>3, <2>5, <3>1, Zenon
    <3> QED BY <2>5, <3>2
  <2>7. k \in Nat /\ k > 0 /\ n + k \in 1..N
    <3>1. ms[n].calls \in Seq(Nat) BY <1>0, <2>3
    <3>2. Len(ms[n].calls) \in Nat BY <3>1
    <3> QED BY <1>0, <2>3, <2>6, <3>2
  <2>8. Len(em[n + k]) > 0 /\ ResultsOf(em[n + k][1]) = {id} /\ em[n + k] \in Seq(WireType)
    <3>1. Shows(em[n + k], ms[n + k], Replays(ms, n + k)) BY <1>2, <2>7
    <3> QED BY <2>6, <3>1 DEF Shows
  <2>9. 1 \in 1..Len(em[n + k]) BY <2>8
  <2>10. PICK j \in 1..b : f[j] = n + k /\ B[j] = em[n + k][1] BY <1>6, <2>7, <2>9
  <2>11. /\ i < j
         /\ \A x \in (i + 1)..(j - 1) : /\ B[x].role # "assistant"
                                        /\ route.provider = "claude" => ResultsOf(B[x]) # {}
    BY <1>10, <2>2, <2>3, <2>10
  <2>12. id \in ResultsOf(B[j]) BY <2>8, <2>10
  <2>13. j \in (i + 1)..b BY <1>6, <2>11
  <2> QED BY <2>11, <2>12, <2>13
<1>12. ASSUME NEW j \in 1..b, NEW id \in ResultsOf(B[j])
       PROVE  \E i \in 1..(j - 1) :
                 id \in UsesOf(B[i]) /\ \A l \in (i + 1)..(j - 1) : B[l].role # "assistant"
  <2>1. f[j] # 0 BY <1>9
  <2>2. PICK n : n = f[j] OBVIOUS
  <2>3. n \in 1..N BY <1>7, <2>1, <2>2
  <2>4. ms[n].role = "tool" /\ id = ms[n].answers
    <3>1. ms[n].role \in {"user", "assistant", "tool"} BY <1>0, <2>3
    <3> QED BY <1>8, <2>1, <2>2, <3>1
  <2>5. PICK i \in 1..N : \E k \in 1..Len(ms[i].calls) : n = i + k BY <1>0, <2>3, <2>4 DEF Paired, N
  <2>6. PICK k \in 1..Len(ms[i].calls) : n = i + k BY <2>5
  <2>7. ms[i].calls[k] = id BY <1>0, <2>4, <2>6 DEF Paired, N
  <2>8. ms[i].calls \in Seq(Nat) /\ DOMAIN ms[i].calls = 1..Len(ms[i].calls) /\ Len(ms[i].calls) \in Nat
    <3>1. ms[i].calls \in Seq(Nat) BY <1>0
    <3> QED BY <3>1
  <2>9. ms[i].calls # <<>>
    <3>1. Len(ms[i].calls) # 0 BY <2>8
    <3> QED BY <2>8, <3>1, EmptySeq
  <2>10. ms[i].role = "assistant" BY <1>0, <2>9 DEF Paired, N
  <2>11. em[i] \in Seq(WireType) /\ Len(em[i]) = 1
    <3>1. Shows(em[i], ms[i], Replays(ms, i)) BY <1>2
    <3> QED BY <2>9, <2>10, <3>1 DEF Shows
  <2>12. 1 \in 1..Len(em[i]) BY <2>11
  <2>13. PICK h \in 1..b : f[h] = i /\ B[h] = em[i][1] BY <1>6, <2>12
  <2>14. id \in UsesOf(B[h])
    <3>1. i # 0 BY <1>0
    <3>2. UsesOf(B[h]) = Range(ms[i].calls) BY <1>8, <2>10, <2>13, <3>1
    <3> QED BY <2>7, <2>8, <3>2 DEF Range
  <2>15. h < j /\ \A x \in (h + 1)..(j - 1) : B[x].role # "assistant" BY <1>10, <2>2, <2>6, <2>13
  <2>16. h \in 1..(j - 1) BY <1>6, <2>15
  <2> QED BY <2>14, <2>15, <2>16
<1>13. CallsMeetResults(B)
  <2>1. DOMAIN B = 1..b /\ Len(B) = b BY <1>5, <1>6
  <2> QED BY <1>11, <1>12, <2>1, Zenon DEF CallsMeetResults
<1> QED BY <1>3, <1>13

(* The lengths of a request's messages and of their calls.                  *)
LEMMA TalkIs ==
    ASSUME NEW ms, Talk(ms)
    PROVE  /\ ms \in Seq(MessageType) /\ Len(ms) \in Nat /\ DOMAIN ms = 1..Len(ms)
           /\ \A i \in 1..Len(ms) : /\ ms[i] \in MessageType /\ ms[i].calls \in Seq(Nat)
                                    /\ Len(ms[i].calls) \in Nat /\ DOMAIN ms[i].calls = 1..Len(ms[i].calls)
                                    /\ ms[i].role \in {"user", "assistant", "tool"}
<1>1. ms \in Seq(MessageType) /\ \A i \in 1..Len(ms) : ms[i].role \in {"user", "assistant", "tool"}
  BY DEF Talk, Speaks
<1>2. Len(ms) \in Nat /\ DOMAIN ms = 1..Len(ms) /\ \A i \in 1..Len(ms) : ms[i] \in MessageType BY <1>1
<1>3. \A m \in MessageType : m.calls \in Seq(Nat) BY DEF MessageType
<1>4. \A c \in Seq(Nat) : Len(c) \in Nat /\ DOMAIN c = 1..Len(c) OBVIOUS
<1> QED BY <1>1, <1>2, <1>3, <1>4

(* A message among other messages, shown as one of a request's messages is.  *)
LEMMA TalkFrom ==
    ASSUME NEW ms, ms \in Seq(MessageType),
           \A i \in 1..Len(ms) : /\ ms[i].role \in {"user", "assistant", "tool"}
                                 /\ ms[i].calls # <<>> => ms[i].role = "assistant",
           \A i \in 1..Len(ms) : \A k \in 1..Len(ms[i].calls) :
              i + k <= Len(ms) /\ ms[i + k].role = "tool" /\ ms[i + k].answers = ms[i].calls[k],
           \A j \in 1..Len(ms) : ms[j].role = "tool" =>
              \E i \in 1..Len(ms) : \E k \in 1..Len(ms[i].calls) : j = i + k
    PROVE  Talk(ms)
BY Zenon DEF Talk, Speaks, Paired

(* Requests' messages one after the other.                                  *)
LEMMA TalksJoin ==
    ASSUME NEW a, NEW b, Talk(a), Talk(b)
    PROVE  Talk(a \o b) /\ Joins(a, b, a \o b)
<1>1. PICK c : c = a \o b OBVIOUS
<1>2. a \in Seq(MessageType) /\ b \in Seq(MessageType) BY TalkIs
<1>3. Joins(a, b, c) /\ c \in Seq(MessageType) BY <1>1, <1>2, ConcatJoins
<1>4. MessageSeq(a) /\ MessageSeq(b) BY <1>2, TypedMessages
<1>5. /\ \A i \in 1..Len(a) : i \in 1..Len(c) /\ c[i] = a[i]
      /\ \A i \in 1..Len(b) : Len(a) + i \in 1..Len(c) /\ c[Len(a) + i] = b[i]
      /\ \A j \in 1..Len(c) : j \in 1..Len(a) \/ \E i \in 1..Len(b) : j = Len(a) + i
  BY <1>3, <1>4, JoinedPositions
<1>6. Len(a) \in Nat /\ Len(b) \in Nat /\ Len(c) = Len(a) + Len(b) BY <1>3, <1>4 DEF Joins, MessageSeq
<1>7. /\ \A i \in 1..Len(a) : a[i].role \in {"user", "assistant", "tool"} /\ (a[i].calls # <<>> => a[i].role = "assistant")
      /\ \A i \in 1..Len(b) : b[i].role \in {"user", "assistant", "tool"} /\ (b[i].calls # <<>> => b[i].role = "assistant")
  BY DEF Talk, Speaks, Paired
<1>8. ASSUME NEW j \in 1..Len(c)
      PROVE  /\ c[j].role \in {"user", "assistant", "tool"} /\ (c[j].calls # <<>> => c[j].role = "assistant")
             /\ \A k \in 1..Len(c[j].calls) :
                   j + k <= Len(c) /\ c[j + k].role = "tool" /\ c[j + k].answers = c[j].calls[k]
             /\ c[j].role = "tool" => \E i \in 1..Len(c) : \E k \in 1..Len(c[i].calls) : j = i + k
  <2>1. CASE j \in 1..Len(a)
    <3>1. c[j] = a[j] BY <1>5, <2>1
    <3>2. ASSUME NEW k \in 1..Len(a[j].calls)
          PROVE  j + k <= Len(c) /\ c[j + k].role = "tool" /\ c[j + k].answers = a[j].calls[k]
      <4>1. j + k <= Len(a) /\ a[j + k].role = "tool" /\ a[j + k].answers = a[j].calls[k]
        BY <2>1, <3>2 DEF Talk, Paired
      <4>2. k \in Nat /\ k > 0
        <5>1. Len(a[j].calls) \in Nat BY <2>1, TalkIs
        <5> QED BY <5>1
      <4>3. j + k \in 1..Len(a) BY <1>6, <2>1, <4>1, <4>2
      <4>4. c[j + k] = a[j + k] /\ j + k \in 1..Len(c) BY <1>5, <4>3
      <4> QED BY <4>1, <4>4
    <3>3. ASSUME a[j].role = "tool" PROVE \E i \in 1..Len(c) : \E k \in 1..Len(c[i].calls) : j = i + k
      <4>1. PICK i \in 1..Len(a) : \E k \in 1..Len(a[i].calls) : j = i + k
        BY <2>1, <3>3 DEF Talk, Paired
      <4>2. i \in 1..Len(c) /\ c[i] = a[i] BY <1>5
      <4> QED BY <4>1, <4>2
    <3> QED BY <1>7, <2>1, <3>1, <3>2, <3>3
  <2>2. CASE \E n \in 1..Len(b) : j = Len(a) + n
    <3>0. PICK n \in 1..Len(b) : j = Len(a) + n BY <2>2
    <3>1. c[j] = b[n] BY <1>5, <3>0
    <3>2. ASSUME NEW k \in 1..Len(b[n].calls)
          PROVE  j + k <= Len(c) /\ c[j + k].role = "tool" /\ c[j + k].answers = b[n].calls[k]
      <4>1. n + k <= Len(b) /\ b[n + k].role = "tool" /\ b[n + k].answers = b[n].calls[k]
        BY <3>2 DEF Talk, Paired
      <4>2. k \in Nat /\ k > 0
        <5>1. Len(b[n].calls) \in Nat BY TalkIs
        <5> QED BY <5>1
      <4>3. n + k \in 1..Len(b) /\ j + k = Len(a) + (n + k) BY <1>6, <3>0, <4>1, <4>2
      <4>4. c[j + k] = b[n + k] BY <1>5, <4>3
      <4>5. j + k <= Len(c) BY <1>6, <4>3
      <4> QED BY <4>1, <4>4, <4>5
    <3>3. ASSUME b[n].role = "tool" PROVE \E i \in 1..Len(c) : \E k \in 1..Len(c[i].calls) : j = i + k
      <4>1. PICK i \in 1..Len(b) : \E k \in 1..Len(b[i].calls) : n = i + k BY <3>3 DEF Talk, Paired
      <4>2. PICK k \in 1..Len(b[i].calls) : n = i + k BY <4>1
      <4>3. Len(a) + i \in 1..Len(c) /\ c[Len(a) + i] = b[i] BY <1>5
      <4>4. Len(b[i].calls) \in Nat BY TalkIs
      <4>5. j = (Len(a) + i) + k BY <1>6, <3>0, <4>2, <4>4
      <4> QED BY <4>3, <4>5
    <3> QED BY <1>7, <3>1, <3>2, <3>3
  <2> QED BY <1>5, <2>1, <2>2
<1>9. Talk(c) BY <1>3, <1>8, TalkFrom
<1> QED BY <1>1, <1>3, <1>9

(* The messages from one on that is no result.                              *)
LEMMA TalkFromOn ==
    ASSUME NEW ms, Talk(ms), NEW n \in 1..(Len(ms) + 1), n <= Len(ms) => ms[n].role # "tool"
    PROVE  Talk(SubSeq(ms, n, Len(ms)))
<1>1. PICK c : c = SubSeq(ms, n, Len(ms)) OBVIOUS
<1>2. PICK z : z = Len(ms) OBVIOUS
<1>3. z \in Nat /\ ms \in Seq(MessageType) /\ \A i \in 1..z : ms[i] \in MessageType BY <1>2, TalkIs
<1>4. /\ c \in Seq(MessageType) /\ Len(c) = (IF n <= z THEN z - n + 1 ELSE 0)
      /\ \A i \in 1..(z - n + 1) : c[i] = ms[n + i - 1]
  <2>1. n \in Int /\ z \in Int /\ \A i \in n..z : ms[i] \in MessageType BY <1>2, <1>3
  <2> QED BY <1>1, <1>2, <2>1, SubSeqProperties
<1>5. PICK d : d = n - 1 OBVIOUS
<1>6. d \in Nat /\ d <= z /\ Len(c) = z - d /\ n = d + 1 /\ z - n + 1 = z - d BY <1>2, <1>3, <1>4, <1>5
<1>7. \A i \in 1..(z - d) : i \in 1..Len(c) /\ d + i \in 1..z /\ c[i] = ms[d + i]
  <2> SUFFICES ASSUME NEW i \in 1..(z - d) PROVE i \in 1..Len(c) /\ d + i \in 1..z /\ c[i] = ms[d + i] OBVIOUS
  <2>1. n + i - 1 = d + i /\ i \in 1..(z - n + 1) /\ d + i \in 1..z BY <1>3, <1>6
  <2> QED BY <1>4, <1>6, <2>1
<1>8. ASSUME NEW i \in 1..z, NEW k \in 1..Len(ms[i].calls), d < i + k, i <= d PROVE FALSE
  <2>1. PICK y : y = n - i OBVIOUS
  <2>2. k \in Nat /\ k > 0 /\ Len(ms[i].calls) \in Nat
    <3>1. Len(ms[i].calls) \in Nat BY <1>2, TalkIs
    <3> QED BY <3>1
  <2>3. y \in 1..k /\ i + y = n BY <1>3, <1>6, <1>8, <2>1, <2>2
  <2>4. y \in 1..Len(ms[i].calls) BY <2>2, <2>3
  <2>5. i + y <= z /\ ms[i + y].role = "tool" BY <1>2, <2>4 DEF Talk, Paired
  <2> QED BY <1>2, <2>3, <2>5
<1>9. ASSUME NEW j \in 1..Len(c)
      PROVE  /\ c[j].role \in {"user", "assistant", "tool"} /\ (c[j].calls # <<>> => c[j].role = "assistant")
             /\ \A k \in 1..Len(c[j].calls) :
                   j + k <= Len(c) /\ c[j + k].role = "tool" /\ c[j + k].answers = c[j].calls[k]
             /\ c[j].role = "tool" => \E i \in 1..Len(c) : \E k \in 1..Len(c[i].calls) : j = i + k
  <2>0. j \in 1..(z - d) BY <1>6
  <2>1. d + j \in 1..z /\ c[j] = ms[d + j] BY <1>7, <2>0
  <2>2. ms[d + j].role \in {"user", "assistant", "tool"} /\ (ms[d + j].calls # <<>> => ms[d + j].role = "assistant")
    BY <1>2, <2>1 DEF Talk, Speaks, Paired
  <2>3. ASSUME NEW k \in 1..Len(ms[d + j].calls)
        PROVE  j + k <= Len(c) /\ c[j + k].role = "tool" /\ c[j + k].answers = ms[d + j].calls[k]
    <3>1. (d + j) + k <= z /\ ms[(d + j) + k].role = "tool" /\ ms[(d + j) + k].answers = ms[d + j].calls[k]
      BY <1>2, <2>1, <2>3 DEF Talk, Paired
    <3>2. k \in Nat /\ k > 0
      <4>1. Len(ms[d + j].calls) \in Nat BY <1>2, <2>1, TalkIs
      <4> QED BY <4>1
    <3>3. j + k \in 1..(z - d) /\ d + (j + k) = (d + j) + k
      <4>1. j \in Nat /\ j > 0 /\ (d + j) + k <= z /\ z \in Nat /\ d \in Nat BY <1>3, <1>6, <2>0, <3>1
      <4> QED BY <3>2, <4>1
    <3>4. c[j + k] = ms[(d + j) + k] /\ j + k <= Len(c) BY <1>6, <1>7, <3>3
    <3> QED BY <3>1, <3>4
  <2>4. ASSUME ms[d + j].role = "tool" PROVE \E i \in 1..Len(c) : \E k \in 1..Len(c[i].calls) : j = i + k
    <3>1. PICK i \in 1..z : \E k \in 1..Len(ms[i].calls) : d + j = i + k BY <1>2, <2>1, <2>4 DEF Talk, Paired
    <3>2. PICK k \in 1..Len(ms[i].calls) : d + j = i + k BY <3>1
    <3>3. d < i + k BY <1>6, <2>0, <3>2
    <3>4. ~(i <= d) BY <1>8, <3>3
    <3>5. i - d \in 1..(z - d) /\ d + (i - d) = i BY <1>3, <1>6, <3>4
    <3>6. i - d \in 1..Len(c) /\ c[i - d] = ms[i]
      <4>1. PICK h : h = i - d OBVIOUS
      <4>2. h \in 1..(z - d) /\ d + h = i BY <3>5, <4>1
      <4>3. h \in 1..Len(c) /\ c[h] = ms[d + h] BY <1>7, <4>2
      <4> QED BY <4>1, <4>2, <4>3
    <3>7. k \in Nat
      <4>1. Len(ms[i].calls) \in Nat BY <1>2, TalkIs
      <4> QED BY <4>1
    <3>8. j = (i - d) + k BY <1>6, <2>0, <3>2, <3>7
    <3> QED BY <3>6, <3>8
  <2> QED BY <2>1, <2>2, <2>3, <2>4
<1>10. Talk(c) BY <1>4, <1>9, TalkFrom
<1> QED BY <1>1, <1>10

(* The messages up to one, when the next is no result.                      *)
LEMMA TalkUpTo ==
    ASSUME NEW ms, Talk(ms), NEW n \in 0..Len(ms), n < Len(ms) => ms[n + 1].role # "tool"
    PROVE  Talk(SubSeq(ms, 1, n))
<1>1. PICK c : c = SubSeq(ms, 1, n) OBVIOUS
<1>2. PICK z : z = Len(ms) OBVIOUS
<1>3. z \in Nat /\ ms \in Seq(MessageType) /\ \A i \in 1..z : ms[i] \in MessageType BY <1>2, TalkIs
<1>3a. n \in Nat /\ n <= z BY <1>2, <1>3
<1>4. c \in Seq(MessageType) /\ Len(c) = n /\ \A i \in 1..n : c[i] = ms[i]
  <2>1. 1 \in Int /\ n \in Int /\ \A i \in 1..n : ms[i] \in MessageType BY <1>3, <1>3a
  <2>2. /\ c \in Seq(MessageType) /\ Len(c) = (IF 1 <= n THEN n - 1 + 1 ELSE 0)
        /\ \A i \in 1..(n - 1 + 1) : c[i] = ms[1 + i - 1]
    BY <1>1, <2>1, SubSeqProperties
  <2>3. n - 1 + 1 = n /\ \A i \in 1..n : 1 + i - 1 = i BY <1>3a
  <2>4. Len(c) = n BY <1>3a, <2>2
  <2> QED BY <2>2, <2>3, <2>4
<1>5. ASSUME NEW i \in 1..n, NEW k \in 1..Len(ms[i].calls) PROVE i \in 1..z /\ i + k <= n
  <2>0. i \in 1..z BY <1>3, <1>3a
  <2>1. k \in Nat /\ k > 0 /\ Len(ms[i].calls) \in Nat
    <3>1. Len(ms[i].calls) \in Nat BY <1>2, <2>0, TalkIs
    <3> QED BY <3>1
  <2> SUFFICES ASSUME n < i + k PROVE FALSE BY <1>3a, <2>0, <2>1
  <2>2. PICK y : y = (n + 1) - i OBVIOUS
  <2>3. y \in 1..k /\ i + y = n + 1 BY <1>3a, <2>1, <2>2
  <2>4. y \in 1..Len(ms[i].calls) BY <2>1, <2>3
  <2>5. i + y <= z /\ ms[i + y].role = "tool" BY <1>2, <2>0, <2>4 DEF Talk, Paired
  <2> QED BY <1>2, <1>3a, <2>3, <2>5
<1>6. ASSUME NEW j \in 1..n
      PROVE  /\ c[j].role \in {"user", "assistant", "tool"} /\ (c[j].calls # <<>> => c[j].role = "assistant")
             /\ \A k \in 1..Len(c[j].calls) :
                   j + k <= n /\ c[j + k].role = "tool" /\ c[j + k].answers = c[j].calls[k]
             /\ c[j].role = "tool" => \E i \in 1..n : \E k \in 1..Len(c[i].calls) : j = i + k
  <2>1. j \in 1..z /\ c[j] = ms[j] BY <1>3, <1>3a, <1>4
  <2>2. ms[j].role \in {"user", "assistant", "tool"} /\ (ms[j].calls # <<>> => ms[j].role = "assistant")
    BY <1>2, <2>1 DEF Talk, Speaks, Paired
  <2>3. ASSUME NEW k \in 1..Len(ms[j].calls)
        PROVE  j + k <= n /\ c[j + k].role = "tool" /\ c[j + k].answers = ms[j].calls[k]
    <3>1. j + k <= n BY <1>5
    <3>2. ms[j + k].role = "tool" /\ ms[j + k].answers = ms[j].calls[k]
      BY <1>2, <2>1, <2>3 DEF Talk, Paired
    <3>3. k \in Nat /\ k > 0
      <4>1. Len(ms[j].calls) \in Nat BY <1>2, <2>1, TalkIs
      <4> QED BY <4>1
    <3>4. j + k \in 1..n BY <1>3a, <3>1, <3>3
    <3> QED BY <1>4, <3>1, <3>2, <3>4
  <2>4. ASSUME ms[j].role = "tool" PROVE \E i \in 1..n : \E k \in 1..Len(c[i].calls) : j = i + k
    <3>1. PICK i \in 1..z : \E k \in 1..Len(ms[i].calls) : j = i + k BY <1>2, <2>1, <2>4 DEF Talk, Paired
    <3>2. PICK k \in 1..Len(ms[i].calls) : j = i + k BY <3>1
    <3>3. k \in Nat /\ k > 0
      <4>1. Len(ms[i].calls) \in Nat BY <1>2, TalkIs
      <4> QED BY <4>1
    <3>4. i \in 1..n BY <1>3a, <3>2, <3>3
    <3>5. c[i] = ms[i] BY <1>4, <3>4
    <3> QED BY <3>2, <3>4, <3>5
  <2> QED BY <2>1, <2>2, <2>3, <2>4
<1>7. ASSUME NEW j \in 1..Len(c)
      PROVE  /\ c[j].role \in {"user", "assistant", "tool"} /\ (c[j].calls # <<>> => c[j].role = "assistant")
             /\ \A k \in 1..Len(c[j].calls) :
                   j + k <= Len(c) /\ c[j + k].role = "tool" /\ c[j + k].answers = c[j].calls[k]
             /\ c[j].role = "tool" => \E i \in 1..Len(c) : \E k \in 1..Len(c[i].calls) : j = i + k
  <2>1. Len(c) = n BY <1>4
  <2> QED BY <1>6, <2>1, Zenon
<1>8. c \in Seq(MessageType) BY <1>4
<1>9. Talk(c) BY <1>7, <1>8, TalkFrom
<1> QED BY <1>1, <1>9

(* The working projection changes what a message says, and nothing else.     *)
AlikeAt(a, b, i) ==
    /\ a[i].role = b[i].role /\ a[i].calls = b[i].calls
    /\ a[i].answers = b[i].answers /\ a[i].native = b[i].native
Alike(a, b) ==
    /\ a \in Seq(MessageType) /\ Len(a) = Len(b)
    /\ \A i \in 1..Len(b) : AlikeAt(a, b, i)

(* So it has the same roles, calls and answers.                             *)
LEMMA WorkingIs ==
    ASSUME NEW ms \in Seq(MessageType), NEW gone
    PROVE  Alike(Working(ms, gone), ms)
<1>1. PICK w : w = Working(ms, gone) OBVIOUS
<1>2. /\ DOMAIN ms = 1..Len(ms) /\ Len(ms) \in Nat
      /\ \A i \in 1..Len(ms) : ms[i] \in MessageType
  OBVIOUS
<1>3. /\ w = [i \in 1..Len(ms) |-> w[i]]
      /\ \A i \in 1..Len(ms) : w[i] =
            IF ms[i].says = "image" THEN [ms[i] EXCEPT !.says = ShownPicture(ms[i].answers, gone)] ELSE ms[i]
  BY <1>1, <1>2 DEF Working
<1>4. ASSUME NEW i \in 1..Len(ms) PROVE w[i] \in MessageType /\ AlikeAt(w, ms, i)
  <2>1. PICK m : m = ms[i] OBVIOUS
  <2>2. m \in MessageType BY <1>2, <2>1
  <2>3. PICK s : s = ShownPicture(m.answers, gone) OBVIOUS
  <2>4. s \in Sayings
    <3>1. s \in {"omitted", "unavailable", "picture"} BY <2>3 DEF ShownPicture
    <3> QED BY <3>1 DEF Sayings
  <2>5. PICK v : v = [m EXCEPT !.says = s] OBVIOUS
  <2>6. v \in MessageType /\ v.role = m.role /\ v.calls = m.calls /\ v.answers = m.answers /\ v.native = m.native
    BY <2>2, <2>4, <2>5 DEF MessageType
  <2>7. w[i] = m \/ w[i] = v BY <1>3, <2>1, <2>3, <2>5
  <2> QED BY <2>1, <2>2, <2>6, <2>7 DEF AlikeAt
<1>5. w \in Seq(MessageType) /\ Len(w) = Len(ms)
  <2>1. PICK z : z = Len(ms) OBVIOUS
  <2>2. z \in Nat /\ w = [i \in 1..z |-> w[i]] /\ \A i \in 1..z : w[i] \in MessageType BY <1>2, <1>3, <1>4, <2>1
  <2>3. w \in [1..z -> MessageType] BY <2>2
  <2>4. w \in Seq(MessageType) /\ Len(w) = z BY <2>2, <2>3
  <2> QED BY <2>1, <2>4
<1> QED BY <1>1, <1>4, <1>5 DEF Alike

(* So the calls and results stay where they are.                            *)
LEMMA AlikeTalks ==
    ASSUME NEW a, NEW b, Talk(b), Alike(a, b)
    PROVE  Talk(a)
<1>1. PICK z : z = Len(b) OBVIOUS
<1>2. a \in Seq(MessageType) /\ Len(a) = z BY <1>1 DEF Alike
<1>3. \A i \in 1..z : a[i].role = b[i].role /\ a[i].calls = b[i].calls /\ a[i].answers = b[i].answers
  BY <1>1 DEF Alike, AlikeAt
<1>4. ASSUME NEW j \in 1..z
      PROVE  /\ a[j].role \in {"user", "assistant", "tool"} /\ (a[j].calls # <<>> => a[j].role = "assistant")
             /\ \A k \in 1..Len(a[j].calls) :
                   j + k <= z /\ a[j + k].role = "tool" /\ a[j + k].answers = a[j].calls[k]
             /\ a[j].role = "tool" => \E i \in 1..z : \E k \in 1..Len(a[i].calls) : j = i + k
  <2>1. b[j].role \in {"user", "assistant", "tool"} /\ (b[j].calls # <<>> => b[j].role = "assistant")
    BY <1>1 DEF Talk, Speaks, Paired
  <2>2. ASSUME NEW k \in 1..Len(b[j].calls)
        PROVE  j + k <= z /\ a[j + k].role = "tool" /\ a[j + k].answers = b[j].calls[k]
    <3>1. j + k <= z /\ b[j + k].role = "tool" /\ b[j + k].answers = b[j].calls[k]
      BY <1>1, <2>2 DEF Talk, Paired
    <3>2. Len(b[j].calls) \in Nat /\ z \in Nat BY <1>1, TalkIs
    <3>3. j + k \in 1..z BY <3>1, <3>2
    <3> QED BY <1>3, <3>1, <3>3
  <2>3. ASSUME b[j].role = "tool" PROVE \E i \in 1..z : \E k \in 1..Len(a[i].calls) : j = i + k
    <3>1. PICK i \in 1..z : \E k \in 1..Len(b[i].calls) : j = i + k BY <1>1, <2>3 DEF Talk, Paired
    <3>2. a[i].calls = b[i].calls BY <1>3
    <3> QED BY <3>1, <3>2
  <2> QED BY <1>3, <2>1, <2>2, <2>3
<1> QED BY <1>2, <1>4, TalkFrom

(* The working projection of such messages are such messages.               *)
LEMMA WorkingTalks ==
    ASSUME NEW ms, Talk(ms), NEW gone
    PROVE  Talk(Working(ms, gone)) /\ Alike(Working(ms, gone), ms)
<1>1. ms \in Seq(MessageType) BY TalkIs
<1>2. PICK w : w = Working(ms, gone) OBVIOUS
<1>3. Alike(w, ms) BY <1>1, <1>2, WorkingIs
<1>4. Talk(w) BY <1>3, AlikeTalks
<1> QED BY <1>2, <1>3, <1>4

(* What Claude is shown of a message, by its thinking blocks.                *)
Thought(ms, i) == IF Replays(ms, i) THEN <<Block("thinking", BlankId, "")>> ELSE <<>>
ClaudeSays(m, thinking) ==
    LET blocks == thinking \o SaidBlock(m) \o CallBlocks(m)
    IN  CASE m.role = "user" -> <<Wire("user", <<Block("text", BlankId, m.says)>>)>>
          [] m.role = "assistant" -> IF blocks = <<>> THEN <<>> ELSE <<Wire("assistant", blocks)>>
          [] m.role = "tool" -> <<Wire("user", <<Block("tool_result", m.answers, m.says)>>)>>

(* What a message becomes does not depend on the messages after it, unless    *)
(* its thinking is kept for the running tool cycle only.                    *)
LEMMA EmitsTheSame ==
    ASSUME NEW a, NEW b, NEW i, a[i] = b[i],
           route.thinking # "active-tool-cycle" \/ ~a[i].native
    PROVE  Emits(a, i) = Emits(b, i)
<1>1. Replays(a, i) <=> Replays(b, i) BY DEF Replays
<1>2. ClaudeEmits(a, i) = ClaudeEmits(b, i)
  <2>1. Thought(a, i) = Thought(b, i) BY <1>1, Zenon DEF Thought
  <2>2. ClaudeEmits(a, i) = ClaudeSays(a[i], Thought(a, i)) BY Zenon DEF ClaudeEmits, ClaudeSays, Thought
  <2>3. ClaudeEmits(b, i) = ClaudeSays(b[i], Thought(b, i)) BY Zenon DEF ClaudeEmits, ClaudeSays, Thought
  <2> QED BY <2>1, <2>2, <2>3, Zenon
<1> QED BY <1>2, Zenon DEF Emits

(* What two requests have in common.                                       *)
LEMMA CommonIs ==
    ASSUME NEW S, NEW a \in Seq(S), NEW b \in Seq(S), NEW n, n = Len(LongestCommonPrefix({a, b}))
    PROVE  n \in Nat /\ n <= Len(a) /\ n <= Len(b) /\ \A i \in 1..n : a[i] = b[i]
<1> DEFINE C == CommonPrefixes({a, b})
<1>1. Len(a) \in Nat /\ Len(b) \in Nat OBVIOUS
<1>2. ASSUME NEW p \in C
      PROVE  /\ Len(p) \in Nat /\ Len(p) <= Len(a) /\ Len(p) <= Len(b)
             /\ \A i \in 1..Len(p) : a[i] = b[i]
  <2>1. \E s \in {a, b} : p \in Prefixes(s) BY DEF CommonPrefixes
  <2>2. PICK s \in {a, b} : \E l \in 0..Len(s) : p = SubSeq(s, 1, l) BY <2>1 DEF Prefixes
  <2>3. PICK l \in 0..Len(s) : p = SubSeq(s, 1, l) BY <2>2
  <2>4. s \in Seq(S) OBVIOUS
  <2>5. p \in Seq(S) BY <2>3, <2>4
  <2>6. IsPrefix(p, a) /\ IsPrefix(p, b) BY DEF CommonPrefixes
  <2>7. PICK m : m = Len(p) OBVIOUS
  <2>8. m \in Nat /\ m <= Len(a) /\ m <= Len(b) /\ SubSeq(p, 1, m) = SubSeq(a, 1, m) /\ SubSeq(p, 1, m) = SubSeq(b, 1, m)
    BY <2>5, <2>6, <2>7 DEF IsPrefix
  <2>9. ASSUME NEW i \in 1..m PROVE a[i] = b[i]
    <3>1. i \in 1..Len(a) /\ i \in 1..Len(b) BY <1>1, <2>8
    <3>2. SubSeq(a, 1, m)[i] = a[i] BY <1>1, <2>8, <3>1
    <3>3. SubSeq(b, 1, m)[i] = b[i] BY <1>1, <2>8, <3>1
    <3> QED BY <2>8, <3>2, <3>3
  <2> QED BY <2>7, <2>8, <2>9
<1>3. <<>> \in C
  <2>1. PICK e : e = SubSeq(a, 1, 0) OBVIOUS
  <2>2. e = <<>> BY <1>1, <2>1
  <2>3. e \in Prefixes(a) BY <1>1, <2>1 DEF Prefixes
  <2>4. IsPrefix(e, a) /\ IsPrefix(e, b)
    <3>1. Len(e) = 0 /\ SubSeq(e, 1, 0) = <<>> /\ SubSeq(a, 1, 0) = <<>> /\ SubSeq(b, 1, 0) = <<>> BY <1>1, <2>2
    <3> QED BY <1>1, <3>1 DEF IsPrefix
  <2>5. e \in C BY <2>3, <2>4 DEF CommonPrefixes
  <2> QED BY <2>2, <2>5
<1>4. \E longest \in C : \A other \in C : Len(other) <= Len(longest)
  <2> DEFINE L == {Len(p) : p \in C}
  <2>1. L \subseteq 0..Len(a)
    <3>1. ASSUME NEW p \in C PROVE Len(p) \in 0..Len(a)
      <4>1. Len(p) \in Nat /\ Len(p) <= Len(a) BY <1>2
      <4> QED BY <1>1, <4>1
    <3> HIDE DEF C
    <3> QED BY <3>1
  <2>2. L # {} BY <1>3
  <2>3. Max(L) \in L /\ \A y \in L : y <= Max(L)
    <3> HIDE DEF L
    <3> QED BY <1>1, <2>1, <2>2, MaxIsGreatest
  <2>4. PICK p \in C : Len(p) = Max(L)
    <3> HIDE DEF C
    <3> QED BY <2>3
  <2> HIDE DEF C
  <2> QED BY <2>3, <2>4
<1>5. LongestCommonPrefix({a, b}) \in C
  <2>1. LongestCommonPrefix({a, b}) = CHOOSE longest \in C : \A other \in C : Len(other) <= Len(longest)
    BY Zenon DEF LongestCommonPrefix
  <2> HIDE DEF C
  <2> QED BY <1>4, <2>1, Zenon
<1> HIDE DEF C
<1> QED BY <1>2, <1>5

(* What a request repeats of the last one it repeats byte for byte.          *)
LEMMA PrefixIsKept ==
    ASSUME route \in Routes, Speaks(Working(asked.source, asked.gone)), NEW new, Speaks(new)
    PROVE  KeepsPrefix(new)
<1>1. PICK old : old = Working(asked.source, asked.gone) OBVIOUS
<1>2. PICK c : c = Common(new) OBVIOUS
<1>3. /\ c \in Nat /\ c <= Len(old) /\ c <= Len(new) /\ \A i \in 1..c : old[i] = new[i]
      /\ Speaks(old) /\ Len(old) \in Nat /\ Len(new) \in Nat
  <2>1. old \in Seq(MessageType) /\ new \in Seq(MessageType) /\ Speaks(old) BY <1>1 DEF Speaks
  <2>2. c = Len(LongestCommonPrefix({old, new})) BY <1>1, <1>2 DEF Common
  <2>3. c \in Nat /\ c <= Len(old) /\ c <= Len(new) /\ \A i \in 1..c : old[i] = new[i]
    BY <2>1, <2>2, CommonIs
  <2> QED BY <2>1, <2>3
<1> DEFINE Steady(i) == route.thinking # "active-tool-cycle" \/ ~old[i].native
           Stops(m) == (\A i \in 1..m : Steady(i)) /\ (m = c \/ ~Steady(m + 1))
           n == CHOOSE m \in 0..c : Stops(m)
<1>4. \E m \in 0..c : Stops(m)
  <2> DEFINE Bad == {m \in 1..c : ~Steady(m)}
  <2> HIDE DEF Steady
  <2>1. CASE Bad = {}
    <3>1. \A i \in 1..c : Steady(i) BY <2>1
    <3> QED BY <1>3, <3>1
  <2>2. CASE Bad # {}
    <3>1. PICK x \in Bad : \A y \in Bad : x <= y
      <4>1. Bad \subseteq Nat BY <1>3
      <4> HIDE DEF Bad
      <4> QED BY <2>2, <4>1, MinIsLeast
    <3>2. x \in 1..c /\ ~Steady(x) OBVIOUS
    <3>3. x - 1 \in 0..c /\ (x - 1) + 1 = x BY <1>3, <3>2
    <3>4. ASSUME NEW i \in 1..(x - 1) PROVE Steady(i)
      <4>1. i \in 1..c /\ ~(x <= i) BY <1>3, <3>2
      <4> QED BY <3>1, <4>1
    <3>5. Stops(x - 1) BY <3>2, <3>3, <3>4
    <3> QED BY <3>3, <3>5
  <2> QED BY <2>1, <2>2
<1>5. n \in 0..c /\ \A i \in 1..n : Steady(i)
  <2>1. n \in 0..c /\ Stops(n)
    <3> HIDE DEF Stops
    <3> QED BY <1>4, Zenon
  <2> HIDE DEF n
  <2> QED BY <2>1
<1>6. PICK k : k = n OBVIOUS
<1>7. /\ k \in Nat /\ k \in 0..Len(old) /\ k \in 0..Len(new)
      /\ \A i \in 1..k : Steady(i) /\ old[i] = new[i]
  <2> HIDE DEF n, Steady
  <2>1. k \in 0..c /\ \A i \in 1..k : Steady(i) BY <1>5, <1>6
  <2>2. k \in Nat /\ k <= c BY <1>3, <2>1
  <2>3. k \in 0..Len(old) /\ k \in 0..Len(new) /\ \A i \in 1..k : i \in 1..c BY <1>3, <2>2
  <2> QED BY <1>3, <2>1, <2>2, <2>3
<1>8. \A i \in 1..k : Emits(old, i) = Emits(new, i) BY <1>7, EmitsTheSame
<1> HIDE DEF n, Steady
<1>9. PICK e : e = EmittedBy(old, k) OBVIOUS
(* The messages both requests begin with are shown alike.                   *)
<1>10. ASSUME NEW ms, Speaks(ms), Len(ms) \in Nat, k \in 0..Len(ms), \A i \in 1..k : Emits(ms, i) = Emits(old, i)
       PROVE  SubSeq(EmittedBy(ms, Len(ms)), 1, Len(e)) = e
  <2>1. PICK z : z = Len(ms) OBVIOUS
  <2>2. z \in Nat /\ z \in 0..Len(ms) /\ k \in 0..z /\ k <= z BY <1>7, <1>10, <2>1
  <2>3. PICK em : em = Emissions(ms, z) OBVIOUS
  <2>4. em \in [1..z -> Seq(WireType)] /\ \A i \in 1..z : em[i] = Emits(ms, i)
    BY <1>10, <2>2, <2>3, EmissionsRun
  <2>5. PICK p : Runs(em, z, WireType, p) /\ p[z] = EmittedBy(ms, z) BY <1>10, <2>2, <2>3, EmissionsRun
  <2>6. PICK el : el = Emissions(old, k) OBVIOUS
  <2>7. \A i \in 1..k : el[i] = Emits(old, i) BY <1>3, <1>7, <2>6, EmissionsRun
  <2>8. PICK q : Runs(el, k, WireType, q) /\ q[k] = e BY <1>3, <1>7, <1>9, <2>6, EmissionsRun
  <2>9. \A i \in 1..k : em[i] = el[i]
    <3>1. \A i \in 1..k : i \in 1..z BY <1>7, <2>2
    <3> QED BY <1>10, <2>4, <2>7, <3>1
  <2>10. p[k] = q[k]
    <3>1. k \in Nat /\ k \in 0..z /\ k \in 0..k /\ z \in Nat BY <1>7, <2>2
    <3>2. Runs(em, z, WireType, p) /\ Runs(el, k, WireType, q) BY <2>5, <2>8
    <3> HIDE DEF Runs
    <3> QED BY <2>9, <3>1, <3>2, RunsAgree
  <2>11. SubSeq(p[z], 1, Len(p[k])) = p[k] BY <2>2, <2>4, <2>5, RunsGrow
  <2> QED BY <2>1, <2>5, <2>8, <2>10, <2>11
<1>11. SubSeq(EmittedBy(old, Len(old)), 1, Len(e)) = e BY <1>3, <1>7, <1>10
<1>12. SubSeq(EmittedBy(new, Len(new)), 1, Len(e)) = e BY <1>3, <1>7, <1>8, <1>10
<1>13. KeepsPrefix(new) <=> SubSeq(EmittedBy(new, Len(new)), 1, Len(e)) = SubSeq(EmittedBy(old, Len(old)), 1, Len(e))
  <2>1. n = CHOOSE m \in 0..Common(new) :
              /\ \A i \in 1..m : route.thinking # "active-tool-cycle" \/ ~old[i].native
              /\ m = Common(new) \/ ~(route.thinking # "active-tool-cycle" \/ ~old[m + 1].native)
    BY <1>2, Zenon DEF n, Steady
  <2>2. KeepsPrefix(new) <=> SubSeq(EmittedBy(new, Len(new)), 1, Len(EmittedBy(old, n)))
                               = SubSeq(EmittedBy(old, Len(old)), 1, Len(EmittedBy(old, n)))
    BY <1>1, <2>1, Zenon DEF KeepsPrefix
  <2> QED BY <1>6, <1>9, <2>2
<1> QED BY <1>11, <1>12, <1>13

(* The thinking of calls whose results end the request is shown with them.   *)
LEMMA ThinkingIsShown ==
    ASSUME route \in Routes, Talk(asked.source)
    PROVE  ThinkingStaysWithItsCalls
<1> SUFFICES ASSUME NEW i \in DOMAIN asked.source, route.thinking # "disabled", asked.source[i].native,
                    asked.source[i].calls # <<>>, i + Len(asked.source[i].calls) = Len(asked.source)
             PROVE  \E w \in Range(AskedBody) :
                       w.blocks[1].kind = "thinking" /\ Range(asked.source[i].calls) \subseteq UsesOf(w)
  BY Zenon DEF ThinkingStaysWithItsCalls
<1>1. PICK ms : ms = Working(asked.source, asked.gone) OBVIOUS
<1>2. PICK src : src = asked.source OBVIOUS
<1>3. Talk(ms) /\ Alike(ms, src) /\ Talk(src) BY <1>1, <1>2, WorkingTalks
<1>4. PICK ids : ids = src[i].calls OBVIOUS
<1>5. PICK N : N = Len(ms) OBVIOUS
<1>6. PICK n : n = Len(ids) OBVIOUS
<1>7. /\ N = Len(src) /\ N \in Nat /\ N \in 0..N /\ i \in 1..N /\ n \in Nat /\ ids \in Seq(Nat) /\ DOMAIN ids = 1..n
      /\ i + n = N /\ ids # <<>>
  <2>1. N = Len(src) /\ Len(src) \in Nat /\ DOMAIN src = 1..Len(src) BY <1>3, <1>5, TalkIs DEF Alike
  <2>2. i \in 1..N BY <1>2, <2>1
  <2>3. ids \in Seq(Nat) /\ n \in Nat /\ DOMAIN ids = 1..n BY <1>3, <1>4, <1>6, <2>1, <2>2, TalkIs
  <2> QED BY <1>2, <1>4, <1>6, <2>1, <2>2, <2>3
<1>8. ms[i].native /\ ms[i].calls = ids
  <2>1. AlikeAt(ms, src, i) BY <1>3, <1>7 DEF Alike
  <2> QED BY <1>2, <1>4, <2>1 DEF AlikeAt
<1>9. ms[i].role = "assistant" BY <1>3, <1>5, <1>7, <1>8 DEF Talk, Paired
<1>10. \A k \in 1..n : ms[i + k].role = "tool" /\ ms[i + k].answers = ids[k]
  <2>1. Paired(ms) BY <1>3 DEF Talk
  <2>2. \A k \in 1..Len(ms[i].calls) : ms[i + k].role = "tool" /\ ms[i + k].answers = ms[i].calls[k]
    <3>1. i \in 1..Len(ms) BY <1>5, <1>7
    <3>2. \A j \in 1..Len(ms) : \A k \in 1..Len(ms[j].calls) :
             j + k <= Len(ms) /\ ms[j + k].role = "tool" /\ ms[j + k].answers = ms[j].calls[k]
      BY <2>1, Zenon DEF Paired
    <3> QED BY <3>1, <3>2, Zenon
  <2> QED BY <1>6, <1>8, <2>2
<1>10a. i \in Nat /\ N \in Nat /\ n \in Nat /\ i + n = N BY <1>7
<1>11. route.provider = "claude" /\ route.thinking \in {"always", "active-tool-cycle"} BY DEF Routes
<1>12. Replays(ms, i)
  <2>1. PICK rest : rest = SubSeq(ms, i + 1, Len(ms)) OBVIOUS
  <2>2. ms \in Seq(MessageType) /\ \A j \in 1..N : ms[j] \in MessageType BY <1>3, <1>5, TalkIs
  <2>3. Len(rest) = n /\ DOMAIN rest = 1..n /\ \A k \in 1..n : rest[k] = ms[i + k]
    <3>0. i + 1 \in Int /\ N \in Int /\ \A j \in (i + 1)..N : j \in 1..N BY <1>10a
    <3>1. i + 1 \in Int /\ N \in Int /\ \A j \in (i + 1)..N : ms[j] \in MessageType BY <2>2, <3>0
    <3>1a. PICK a : a = i + 1 OBVIOUS
    <3>1b. a \in Int /\ N \in Int /\ \A j \in a..N : ms[j] \in MessageType BY <3>1, <3>1a
    <3>1c. rest = SubSeq(ms, a, N) BY <1>5, <2>1, <3>1a
    <3>2. /\ rest \in Seq(MessageType) /\ Len(rest) = (IF a <= N THEN N - a + 1 ELSE 0)
          /\ \A k \in 1..(N - a + 1) : rest[k] = ms[a + k - 1]
      BY <3>1b, <3>1c, SubSeqProperties
    <3>3. N - a + 1 = n /\ (a > N => n = 0) /\ \A k \in 1..n : a + k - 1 = i + k
      <4>1. N = i + n /\ a = i + 1 /\ i \in Nat /\ n \in Nat BY <1>10a, <3>1a
      <4>2. N - a + 1 = n BY <4>1
      <4>3. a > N => n = 0 BY <4>1
      <4>4. \A k \in 1..n : a + k - 1 = i + k BY <4>1
      <4> QED BY <4>2, <4>3, <4>4
    <3>4. Len(rest) = n BY <1>10a, <3>1b, <3>2, <3>3
    <3>5. DOMAIN rest = 1..n BY <3>2, <3>4
    <3> QED BY <3>2, <3>3, <3>4, <3>5
  <2>4. \A k \in 1..n : rest[k].role = "tool" /\ rest[k].answers = ids[k] BY <1>10, <2>3
  <2>5. {rest[k].answers : k \in DOMAIN rest} = Range(ids)
    <3>1. DOMAIN ids = 1..n BY <1>7
    <3>2. ASSUME NEW x PROVE (\E k \in DOMAIN rest : x = rest[k].answers) <=> (\E k \in 1..n : x = ids[k])
      <4>1. DOMAIN rest = 1..n BY <2>3
      <4> QED BY <2>4, <4>1, Zenon
    <3>3. {rest[k].answers : k \in DOMAIN rest} = {ids[k] : k \in DOMAIN ids}
      <4>1. ASSUME NEW x
            PROVE  x \in {rest[k].answers : k \in DOMAIN rest} <=> x \in {ids[k] : k \in DOMAIN ids}
        <5>1. x \in {rest[k].answers : k \in DOMAIN rest} <=> \E k \in DOMAIN rest : x = rest[k].answers
          BY Zenon
        <5>2. x \in {ids[k] : k \in DOMAIN ids} <=> \E k \in DOMAIN ids : x = ids[k] BY Zenon
        <5>3. (\E k \in DOMAIN ids : x = ids[k]) <=> \E k \in 1..n : x = ids[k] BY <3>1
        <5> QED BY <3>2, <5>1, <5>2, <5>3, Zenon
      <4> QED BY <4>1, Zenon
    <3> QED BY <3>3 DEF Range
  <2>6. Len(ms[i].calls) = n /\ ms[i].calls # <<>> /\ Range(ms[i].calls) = Range(ids) BY <1>6, <1>7, <1>8
  <2>7. \A k \in DOMAIN rest : rest[k].role = "tool" BY <2>3, <2>4
  <2>8. route.thinking = "always" \/ route.thinking = "active-tool-cycle" BY <1>11
  <2> QED BY <1>8, <2>1, <2>3, <2>5, <2>6, <2>7, <2>8, Zenon DEF Replays
<1>13. Speaks(ms) BY <1>3 DEF Talk
<1>14. PICK em : em = Emissions(ms, N) OBVIOUS
<1>15. em[i] = Emits(ms, i) /\ Shows(Emits(ms, i), ms[i], Replays(ms, i)) BY <1>5, <1>7, <1>13, <1>14, EmissionsRun
<1>16. Len(em[i]) = 1 /\ em[i][1].blocks[1].kind = "thinking" /\ UsesOf(em[i][1]) = Range(ids)
  <2>1. /\ Len(em[i]) = 1 /\ em[i][1].blocks[1].kind = "thinking"
        /\ \A a \in 1..Len(em[i]) : UsesOf(em[i][a]) = Range(ids)
    BY <1>8, <1>9, <1>11, <1>12, <1>15, Zenon DEF Shows
  <2>2. 1 \in 1..Len(em[i]) BY <2>1
  <2> QED BY <2>1, <2>2
<1>17. PICK B : B = Body(ms) OBVIOUS
<1>18. PICK f : Traces(B, f, em, N) BY <1>5, <1>13, <1>14, <1>17, BodyIsTraced
<1>19. 1 \in 1..Len(em[i]) BY <1>16
<1>20. PICK j \in 1..Len(B) : f[j] = i /\ B[j] = em[i][1] BY <1>7, <1>18, <1>19, Zenon DEF Traces
<1>21. B[j] \in Range(B)
  <2>1. B \in Seq(WireType) BY <1>18 DEF Traces
  <2>2. DOMAIN B = 1..Len(B) BY <2>1
  <2> QED BY <2>2 DEF Range
<1>22. AskedBody = B BY <1>1, <1>17 DEF AskedBody
<1>23. B[j].blocks[1].kind = "thinking" /\ Range(ids) \subseteq UsesOf(B[j]) BY <1>16, <1>20
<1> QED BY <1>2, <1>4, <1>21, <1>22, <1>23

(* What the rounds and the compactions of a Core write are such messages.    *)

(* Messages that neither call nor answer.                                   *)
LEMMA QuietTalks ==
    ASSUME NEW ms, ms \in Seq(MessageType),
           \A i \in 1..Len(ms) : ms[i].role \in {"user", "assistant"} /\ ms[i].calls = <<>>
    PROVE  Talk(ms)
<1>1. \A i \in 1..Len(ms) : 1..Len(ms[i].calls) = {}
  <2> SUFFICES ASSUME NEW i \in 1..Len(ms) PROVE 1..Len(ms[i].calls) = {} OBVIOUS
  <2>1. Len(ms[i].calls) = 0 OBVIOUS
  <2> QED BY <2>1
<1>2. \A i \in 1..Len(ms) : ms[i].role \in {"user", "assistant", "tool"} /\ ms[i].role # "tool" OBVIOUS
<1>3. \A i \in 1..Len(ms) : \A k \in 1..Len(ms[i].calls) :
         i + k <= Len(ms) /\ ms[i + k].role = "tool" /\ ms[i + k].answers = ms[i].calls[k]
  BY <1>1, Zenon
<1> QED BY <1>2, <1>3, TalkFrom

(* No message, one of a user, and the two of a reply that was cut off.       *)
LEMMA NothingTalks == Talk(<<>>)
<1>1. PICK ms : ms = <<>> OBVIOUS
<1>2. ms \in Seq(MessageType) /\ Len(ms) = 0 BY <1>1
<1>3. \A i \in 1..Len(ms) : ms[i].role \in {"user", "assistant"} /\ ms[i].calls = <<>>
  <2>1. 1..Len(ms) = {} BY <1>2
  <2> QED BY <2>1
<1>4. ms \in Seq(MessageType) BY <1>2
<1>5. Talk(ms) BY <1>3, <1>4, QuietTalks
<1> QED BY <1>1, <1>5

(* One message of a user.                                                   *)
LEMMA UserTalks ==
    ASSUME NEW says, says \in Sayings
    PROVE  Talk(<<User(says)>>)
<1>1. PICK m : m = User(says) OBVIOUS
<1>2. IsUser(m, says) BY <1>1, UserIs
<1>3. m \in MessageType /\ m.role = "user" /\ m.calls = <<>> BY <1>2 DEF IsUser
<1>4. PICK ms : ms = <<m>> OBVIOUS
<1>5. ms \in Seq(MessageType) /\ Len(ms) = 1 /\ ms[1] = m BY <1>3, <1>4
<1>6. \A i \in 1..Len(ms) : i = 1 BY <1>5
<1>7. \A i \in 1..Len(ms) : ms[i].role \in {"user", "assistant"} /\ ms[i].calls = <<>> BY <1>3, <1>5, <1>6
<1>8. Talk(ms) BY <1>5, <1>7, QuietTalks
<1> QED BY <1>1, <1>4, <1>8

(* A user who says some text.                                               *)
LEMMA TextTalks == Talk(<<User("text")>>)
<1>1. PICK t : t = "text" OBVIOUS
<1>2. t \in Sayings BY <1>1 DEF Sayings
<1>3. Talk(<<User(t)>>) BY <1>2, UserTalks
<1> QED BY <1>1, <1>3

(* A reply that was cut off and the request to go on.                       *)
LEMMA CutOffTalks ==
    ASSUME NEW native, native \in BOOLEAN
    PROVE  Talk(<<Assistant(<<>>, "text", native), User("text")>>)
<1>1. PICK t : t = "text" OBVIOUS
<1>2. t \in Sayings BY <1>1 DEF Sayings
<1>3. PICK e : e = <<>> OBVIOUS
<1>4. PICK m, u : m = Assistant(e, t, native) /\ u = User(t) OBVIOUS
<1>5. e \in Seq(Nat) BY <1>3
<1>6. IsAssistant(m, e) /\ IsUser(u, t) BY <1>2, <1>4, <1>5, AssistantIs, UserIs
<1>7. /\ m \in MessageType /\ m.role = "assistant" /\ m.calls = e
      /\ u \in MessageType /\ u.role = "user" /\ u.calls = e
  BY <1>3, <1>6 DEF IsAssistant, IsUser
<1>8. PICK ms : ms = <<m, u>> OBVIOUS
<1>9. ms \in Seq(MessageType) /\ Len(ms) = 2 /\ ms[1] = m /\ ms[2] = u BY <1>7, <1>8
<1>10. \A i \in 1..Len(ms) : i = 1 \/ i = 2 BY <1>9
<1>11. \A i \in 1..Len(ms) : ms[i].role \in {"user", "assistant"} /\ ms[i].calls = <<>>
  BY <1>3, <1>7, <1>9, <1>10
<1>12. Talk(ms) BY <1>9, <1>11, QuietTalks
<1> QED BY <1>1, <1>3, <1>4, <1>8, <1>12

(* What a compaction puts first.                                            *)
LEMMA PrefaceTalks ==
    ASSUME NEW attention, attention \in BOOLEAN
    PROVE  Talk(Preface(attention))
<1>1. PICK s, a : s = "summary" /\ a = "attention" OBVIOUS
<1>2. s \in Sayings /\ a \in Sayings BY <1>1 DEF Sayings
<1>3. Talk(<<User(s)>>) /\ Talk(<<User(a)>>) BY <1>2, UserTalks
<1>4. Talk(<<User(s)>> \o <<User(a)>>) /\ Talk(<<User(s)>> \o <<>>) BY <1>3, NothingTalks, TalksJoin
<1>5. CASE attention = TRUE BY <1>1, <1>4, <1>5, Zenon DEF Preface
<1>6. CASE attention = FALSE BY <1>1, <1>4, <1>6, Zenon DEF Preface
<1> QED BY <1>5, <1>6

(* A reply with calls, and a result for each.                               *)
Replies(ids, n, pictures, native) ==
    <<Assistant(ids, "", native)>>
    \o [k \in 1..n |-> Result(ids[k], IF k \in pictures THEN "image" ELSE "text")]

(* Each call of the reply has its result in its place.                      *)
LEMMA RepliesTalk ==
    ASSUME NEW n \in Nat, NEW ids, ids \in Seq(Nat), Len(ids) = n, NEW pictures, NEW native, native \in BOOLEAN
    PROVE  Talk(Replies(ids, n, pictures, native))
<1>1. \A k \in 1..n : ids[k] \in Nat OBVIOUS
<1>2. PICK rest : rest = [k \in 1..n |-> Result(ids[k], IF k \in pictures THEN "image" ELSE "text")] OBVIOUS
<1>3. ASSUME NEW k \in 1..n
      PROVE  rest[k] \in MessageType /\ rest[k].role = "tool" /\ rest[k].answers = ids[k] /\ rest[k].calls = <<>>
  <2>1. PICK s : s = IF k \in pictures THEN "image" ELSE "text" OBVIOUS
  <2>2. s \in Sayings
    <3>1. s \in {"image", "text"} BY <2>1
    <3> QED BY <3>1 DEF Sayings
  <2>3. rest[k] = Result(ids[k], s) BY <1>2, <2>1
  <2>4. IsResult(rest[k], ids[k], s) BY <1>1, <2>2, <2>3, ResultIs
  <2> QED BY <2>4 DEF IsResult
<1>4. rest \in Seq(MessageType) /\ Len(rest) = n /\ DOMAIN rest = 1..n
  <2>1. rest = [k \in 1..n |-> rest[k]] BY <1>2
  <2> QED BY <1>3, <2>1
<1>5. PICK call : call = Assistant(ids, NothingSaid, native) OBVIOUS
<1>6. call \in MessageType /\ call.role = "assistant" /\ call.calls = ids
  <2>1. NothingSaid \in Sayings BY DEF Sayings
  <2>2. IsAssistant(call, ids) BY <1>5, <2>1, AssistantIs
  <2> QED BY <2>2 DEF IsAssistant
<1>7. PICK ms : ms = <<call>> \o rest OBVIOUS
<1>8. /\ ms \in Seq(MessageType) /\ Len(ms) = n + 1 /\ ms[1] = call
      /\ \A k \in 1..n : ms[1 + k] = rest[k]
  BY <1>4, <1>6, <1>7
<1>9. Replies(ids, n, pictures, native) = ms BY <1>2, <1>5, <1>7, Zenon DEF Replies, NothingSaid
<1>10. \A i \in 1..Len(ms) : i = 1 \/ \E k \in 1..n : i = 1 + k
  <2> SUFFICES ASSUME NEW i \in 1..Len(ms), i # 1 PROVE \E k \in 1..n : i = 1 + k OBVIOUS
  <2>1. i - 1 \in 1..n /\ i = 1 + (i - 1) BY <1>8
  <2> QED BY <2>1
<1>11. ASSUME NEW i \in 1..Len(ms), i # 1
       PROVE  ms[i].role = "tool" /\ ms[i].calls = <<>> /\ 1..Len(ms[i].calls) = {}
  <2>1. PICK k \in 1..n : i = 1 + k BY <1>10, <1>11
  <2>2. ms[i] = rest[k] BY <1>8, <2>1
  <2>3. ms[i].role = "tool" /\ ms[i].calls = <<>> BY <1>3, <2>2, Zenon
  <2>4. Len(ms[i].calls) = 0 BY <2>3
  <2> QED BY <2>3, <2>4
<1>12. ms[1].role = "assistant" /\ ms[1].calls = ids /\ Len(ms[1].calls) = n /\ 1 \in 1..Len(ms) BY <1>6, <1>8
<1>13. \A i \in 1..Len(ms) :
          ms[i].role \in {"user", "assistant", "tool"} /\ (ms[i].calls # <<>> => ms[i].role = "assistant")
  BY <1>11, <1>12
<1>14. \A k \in 1..n : 1 + k <= Len(ms) /\ ms[1 + k].role = "tool" /\ ms[1 + k].answers = ids[k]
  <2> SUFFICES ASSUME NEW k \in 1..n
               PROVE  1 + k <= Len(ms) /\ ms[1 + k].role = "tool" /\ ms[1 + k].answers = ids[k]
    OBVIOUS
  <2>1. 1 + k <= Len(ms) BY <1>8
  <2>2. ms[1 + k] = rest[k] BY <1>8
  <2> QED BY <1>3, <2>1, <2>2
<1>15. \A i \in 1..Len(ms) : \A k \in 1..Len(ms[i].calls) :
          i + k <= Len(ms) /\ ms[i + k].role = "tool" /\ ms[i + k].answers = ms[i].calls[k]
  <2> SUFFICES ASSUME NEW i \in 1..Len(ms), NEW k \in 1..Len(ms[i].calls)
               PROVE  i + k <= Len(ms) /\ ms[i + k].role = "tool" /\ ms[i + k].answers = ms[i].calls[k]
    BY Zenon
  <2>1. i = 1 BY <1>11
  <2> QED BY <1>12, <1>14, <2>1
<1>16. \A j \in 1..Len(ms) : ms[j].role = "tool" => \E i \in 1..Len(ms) : \E k \in 1..Len(ms[i].calls) : j = i + k
  <2> SUFFICES ASSUME NEW j \in 1..Len(ms), ms[j].role = "tool"
               PROVE  \E i \in 1..Len(ms) : \E k \in 1..Len(ms[i].calls) : j = i + k
    OBVIOUS
  <2>1. j # 1 BY <1>12
  <2>2. PICK k \in 1..n : j = 1 + k BY <1>10, <2>1
  <2> QED BY <1>12, <2>2
<1>17. ms \in Seq(MessageType) BY <1>8
<1>18. ASSUME NEW j \in 1..Len(ms)
       PROVE  /\ ms[j].role \in {"user", "assistant", "tool"} /\ (ms[j].calls # <<>> => ms[j].role = "assistant")
              /\ \A k \in 1..Len(ms[j].calls) :
                    j + k <= Len(ms) /\ ms[j + k].role = "tool" /\ ms[j + k].answers = ms[j].calls[k]
              /\ ms[j].role = "tool" => \E i \in 1..Len(ms) : \E k \in 1..Len(ms[i].calls) : j = i + k
  <2>1. ms[j].role \in {"user", "assistant", "tool"} /\ (ms[j].calls # <<>> => ms[j].role = "assistant") BY <1>13
  <2>2. \A k \in 1..Len(ms[j].calls) :
           j + k <= Len(ms) /\ ms[j + k].role = "tool" /\ ms[j + k].answers = ms[j].calls[k]
    BY <1>15
  <2>3. ms[j].role = "tool" => \E i \in 1..Len(ms) : \E k \in 1..Len(ms[i].calls) : j = i + k BY <1>16
  <2> QED BY <2>1, <2>2, <2>3
<1>19. Talk(ms) BY <1>17, <1>18, TalkFrom
<1> QED BY <1>9, <1>19

(* The invariant of the requests: what the Core holds, what a round has      *)
(* staged and what was last asked are such messages, and a running cached    *)
(* summary takes over all before a message of a user.                        *)
CutIsSound ==
    /\ cut \in Nat
    /\ cut # 0 <=> phase \in {"summarizing", "recovering"}
    /\ cut # 0 => cut + 1 \in 1..Len(history) /\ history[cut + 1].role = "user"
RequestInd ==
    /\ route \in Routes /\ usedIds \in Nat
    /\ Talk(history) /\ Talk(staged) /\ Talk(asked.source)
    /\ CutIsSound

(* A Core starts with one message of a user.                                *)
LEMMA RequestBegins == RequestInit => RequestInd
<1> SUFFICES ASSUME RequestInit PROVE RequestInd OBVIOUS
<1>1. Talk(history) /\ Talk(staged)
  <2>1. history = <<User("text")>> /\ staged = <<>> BY Zenon DEF RequestInit
  <2> QED BY <2>1, TextTalks, NothingTalks, Zenon
<1>2. Talk(asked.source)
  <2>1. asked = NoRequest BY Zenon DEF RequestInit
  <2>2. asked.source = <<>> BY <2>1 DEF NoRequest
  <2> QED BY <2>2, NothingTalks, Zenon
<1>3. route \in Routes /\ usedIds = 0 /\ cut = 0 /\ phase = "idle" BY Zenon DEF RequestInit
<1>4. CutIsSound BY <1>3 DEF CutIsSound
<1> QED BY <1>1, <1>2, <1>3, <1>4 DEF RequestInd

(* What the invariant says of a step after which no summary runs.            *)
LEMMA NothingIsCut ==
    ASSUME RequestInd, route' \in Routes, usedIds' \in Nat, Talk(history'), Talk(staged'), Talk(asked'.source),
           cut' = 0, phase' \in {"idle", "asked"}
    PROVE  RequestInd'
<1>1. CutIsSound' BY DEF CutIsSound
<1> QED BY <1>1 DEF RequestInd

(* While none runs nothing is cut.                                          *)
LEMMA NoSummaryRuns ==
    ASSUME RequestInd, phase \in {"idle", "asked"}
    PROVE  cut = 0
BY DEF RequestInd, CutIsSound

(* The messages of a request.                                               *)
LEMMA SourceTalks ==
    ASSUME RequestInd
    PROVE  Talk(Source)
<1>1. Talk(history) /\ Talk(staged) BY DEF RequestInd
<1> QED BY <1>1, TalksJoin, Zenon DEF Source

(* Events are told between two rounds, and a round asks for a reply.          *)
LEMMA UserSaysStays == RequestInd /\ UserSays => RequestInd'
<1> SUFFICES ASSUME RequestInd, UserSays PROVE RequestInd' OBVIOUS
<1>1. cut = 0
  <2>1. phase \in {"idle", "asked"} BY DEF UserSays
  <2> QED BY <2>1, NoSummaryRuns
<1>2. PICK u : u = User("text") OBVIOUS
<1>3. Talk(history')
  <2>1. history' = Append(history, u) BY <1>2, Zenon DEF UserSays
  <2>2. u \in MessageType
    <3>1. PICK t : t = "text" OBVIOUS
    <3>2. t \in Sayings BY <3>1 DEF Sayings
    <3>3. IsUser(u, t) BY <1>2, <3>1, <3>2, UserIs
    <3> QED BY <3>3 DEF IsUser
  <2>3. Talk(history) /\ history \in Seq(MessageType) BY TalkIs DEF RequestInd
  <2>4. Append(history, u) = history \o <<u>> BY <2>2, <2>3, AppendIsConcat
  <2>5. Talk(<<u>>) BY <1>2, TextTalks, Zenon
  <2>6. Talk(history \o <<u>>) BY <2>3, <2>5, TalksJoin
  <2> QED BY <2>1, <2>4, <2>6, Zenon
<1>4. /\ route' = route /\ staged' = staged /\ phase' = phase /\ asked' = asked /\ cut' = cut
      /\ usedIds' = usedIds /\ phase = "idle"
  BY Zenon DEF UserSays
<1>5. Talk(staged') /\ Talk(asked'.source) BY <1>4, Zenon DEF RequestInd
<1>6. route' \in Routes /\ usedIds' \in Nat /\ cut' = 0 /\ phase' \in {"idle", "asked"} BY <1>1, <1>4 DEF RequestInd
<1> QED BY <1>3, <1>5, <1>6, NothingIsCut

(* What is asked is the history and what the round has staged.              *)
LEMMA AskStays == RequestInd /\ Ask => RequestInd'
<1> SUFFICES ASSUME RequestInd, Ask PROVE RequestInd' OBVIOUS
<1>1. cut = 0
  <2>1. phase \in {"idle", "asked"} BY DEF Ask
  <2> QED BY <2>1, NoSummaryRuns
<1>2. /\ route' = route /\ history' = history /\ staged' = staged /\ phase' = "asked" /\ cut' = cut
      /\ usedIds' = usedIds /\ asked' = [source |-> Source, gone |-> lost]
  BY Zenon DEF Ask
<1>3. asked'.source = Source BY <1>2
<1>4. Talk(asked'.source) BY <1>3, SourceTalks, Zenon
<1>5. Talk(history') /\ Talk(staged') BY <1>2, Zenon DEF RequestInd
<1>6. route' \in Routes /\ usedIds' \in Nat /\ cut' = 0 /\ phase' \in {"idle", "asked"} BY <1>1, <1>2 DEF RequestInd
<1> QED BY <1>4, <1>5, <1>6, NothingIsCut

(* A round's reply is committed after what it has staged.                    *)
LEMMA CommittedTalks ==
    ASSUME RequestInd, NEW ms, Talk(ms), CommitStaged(ms)
    PROVE  Talk(history') /\ Talk(staged') /\ phase' = "idle"
<1>1. Talk(history) /\ Talk(staged) BY DEF RequestInd
<1>2. Talk(history \o staged) BY <1>1, TalksJoin
<1>3. Talk((history \o staged) \o ms) BY <1>2, TalksJoin
<1>4. history' = (history \o staged) \o ms /\ staged' = <<>> /\ phase' = "idle" BY Zenon DEF CommitStaged
<1> QED BY <1>3, <1>4, NothingTalks, Zenon

(* A reply with calls is committed with its results.                        *)
LEMMA ReplyCallsStays ==
    ASSUME RequestInd, NEW n \in Nat, NEW pictures, NEW native, native \in BOOLEAN, ReplyCalls(n, pictures, native)
    PROVE  RequestInd'
<1>1. cut = 0
  <2>1. phase \in {"idle", "asked"} BY DEF ReplyCalls
  <2> QED BY <2>1, NoSummaryRuns
<1>2. PICK ids : ids = [k \in 1..n |-> usedIds + k] OBVIOUS
<1>3. ids \in Seq(Nat) /\ Len(ids) = n
  <2>1. \A k \in 1..n : usedIds + k \in Nat BY DEF RequestInd
  <2>2. ids \in [1..n -> Nat] BY <1>2, <2>1
  <2> QED BY <1>2, <2>2
<1>4. CommitStaged(Replies(ids, n, pictures, native)) BY <1>2, Zenon DEF ReplyCalls, Replies
<1>5. Talk(Replies(ids, n, pictures, native)) BY <1>3, RepliesTalk
<1>6. Talk(history') /\ Talk(staged') /\ phase' = "idle" BY <1>4, <1>5, CommittedTalks
<1>7. route' = route /\ asked' = asked /\ cut' = cut /\ usedIds' = usedIds + n BY Zenon DEF ReplyCalls
<1>8. Talk(asked'.source) BY <1>7, Zenon DEF RequestInd
<1>9. route' \in Routes /\ usedIds' \in Nat /\ cut' = 0 /\ phase' \in {"idle", "asked"}
  BY <1>1, <1>6, <1>7 DEF RequestInd
<1> QED BY <1>6, <1>8, <1>9, NothingIsCut

(* A reply without a call leaves nothing or a correction.                   *)
LEMMA ReplyTextStays == RequestInd /\ ReplyText => RequestInd'
<1> SUFFICES ASSUME RequestInd, ReplyText PROVE RequestInd' OBVIOUS
<1>1. cut = 0
  <2>1. phase \in {"idle", "asked"} BY DEF ReplyText
  <2> QED BY <2>1, NoSummaryRuns
<1>2. Talk(history') /\ Talk(staged') /\ phase' = "idle"
  <2>1. CASE CommitStaged(<<>>) BY <2>1, NothingTalks, CommittedTalks
  <2>2. CASE CommitStaged(<<User("text")>>) BY <2>2, TextTalks, CommittedTalks
  <2> QED BY <2>1, <2>2, Zenon DEF ReplyText
<1>3. route' = route /\ asked' = asked /\ cut' = cut /\ usedIds' = usedIds BY Zenon DEF ReplyText
<1>4. Talk(asked'.source) BY <1>3, Zenon DEF RequestInd
<1>5. route' \in Routes /\ usedIds' \in Nat /\ cut' = 0 /\ phase' \in {"idle", "asked"}
  BY <1>1, <1>2, <1>3 DEF RequestInd
<1> QED BY <1>2, <1>4, <1>5, NothingIsCut

(* A reply that was cut off is staged, and the next request goes on from it. *)
LEMMA ReplyTruncatedStays ==
    ASSUME RequestInd, NEW native, native \in BOOLEAN, ReplyTruncated(native)
    PROVE  RequestInd'
<1>1. cut = 0
  <2>1. phase \in {"idle", "asked"} BY DEF ReplyTruncated
  <2> QED BY <2>1, NoSummaryRuns
<1>2. PICK ms : ms = <<Assistant(<<>>, "text", native), User("text")>> OBVIOUS
<1>3. Talk(ms) BY <1>2, CutOffTalks, Zenon
<1>4. Talk(history) /\ Talk(staged) BY DEF RequestInd
<1>5. Talk(staged \o ms) BY <1>3, <1>4, TalksJoin
<1>6. /\ staged' = staged \o ms /\ asked' = [source |-> history \o staged', gone |-> lost]
      /\ route' = route /\ history' = history /\ phase' = phase /\ cut' = cut /\ usedIds' = usedIds /\ phase = "asked"
  BY <1>2, Zenon DEF ReplyTruncated
<1>7. Talk(history') /\ Talk(staged') BY <1>4, <1>5, <1>6, Zenon
<1>8. PICK next : next = staged' OBVIOUS
<1>9. Talk(history \o next) BY <1>4, <1>7, <1>8, TalksJoin
<1>10. asked'.source = history \o next BY <1>6, <1>8
<1>11. Talk(asked'.source) BY <1>9, <1>10, Zenon
<1>12. route' \in Routes /\ usedIds' \in Nat /\ cut' = 0 /\ phase' \in {"idle", "asked"}
  BY <1>1, <1>6 DEF RequestInd
<1> QED BY <1>7, <1>11, <1>12, NothingIsCut

(* A failed round gives up what it staged.                                  *)
LEMMA RoundFailsStays == RequestInd /\ RoundFails => RequestInd'
<1> SUFFICES ASSUME RequestInd, RoundFails PROVE RequestInd' OBVIOUS
<1>1. cut = 0
  <2>1. phase \in {"idle", "asked"} BY DEF RoundFails
  <2> QED BY <2>1, NoSummaryRuns
<1>2. /\ route' = route /\ history' = history /\ staged' = <<>> /\ phase' = "idle" /\ asked' = asked
      /\ cut' = cut /\ usedIds' = usedIds
  BY Zenon DEF RoundFails
<1>3. Talk(history') /\ Talk(staged') /\ Talk(asked'.source) BY <1>2, NothingTalks, Zenon DEF RequestInd
<1>4. route' \in Routes /\ usedIds' \in Nat /\ cut' = 0 /\ phase' \in {"idle", "asked"} BY <1>1, <1>2 DEF RequestInd
<1> QED BY <1>3, <1>4, NothingIsCut

(* A summary of its own prompt or one that reuses the request's prefix.       *)
LEMMA StartSummaryStays ==
    ASSUME RequestInd, NEW first, StartSummary(first)
    PROVE  RequestInd'
<1>1. /\ route' = route /\ history' = history /\ staged' = staged /\ asked' = asked /\ usedIds' = usedIds
      /\ cut' = first - 1 /\ first \in KeptFrom /\ history[first].role = "user"
      /\ phase' = (IF phase = "idle" THEN "summarizing" ELSE "recovering")
  BY Zenon DEF StartSummary
<1>2. Len(history) \in Nat /\ DOMAIN history = 1..Len(history) BY TalkIs DEF RequestInd
<1>3. first \in 1..Len(history) /\ \E j \in 1..Len(history) : j < first BY <1>1, <1>2 DEF KeptFrom, ActiveIndices
<1>4. first - 1 \in Nat /\ first - 1 # 0 /\ (first - 1) + 1 = first BY <1>2, <1>3
<1>5. phase' \in {"summarizing", "recovering"} BY <1>1
<1>6. CutIsSound' BY <1>1, <1>3, <1>4, <1>5 DEF CutIsSound
<1>7. Talk(history') /\ Talk(staged') /\ Talk(asked'.source) BY <1>1, Zenon DEF RequestInd
<1>8. route' \in Routes /\ usedIds' \in Nat BY <1>1, Zenon DEF RequestInd
<1> QED BY <1>6, <1>7, <1>8 DEF RequestInd

(* What a compaction leaves of the history.                                 *)
LEMMA InstallStays ==
    ASSUME RequestInd, NEW first \in 1..(Len(history) + 1), first <= Len(history) => history[first].role # "tool",
           NEW attention, attention \in BOOLEAN, InstallSummary(first, attention)
    PROVE  RequestInd'
<1>1. Talk(history) /\ Talk(staged) BY DEF RequestInd
<1>2. Talk(SubSeq(history, first, Len(history))) BY <1>1, TalkFromOn
<1>3. Talk(Preface(attention)) BY PrefaceTalks
<1>4. PICK ms : ms = Preface(attention) \o SubSeq(history, first, Len(history)) OBVIOUS
<1>5. Talk(ms) BY <1>2, <1>3, <1>4, TalksJoin
<1>6. /\ history' = ms /\ cut' = 0 /\ route' = route /\ staged' = staged /\ usedIds' = usedIds
      /\ IF phase \in {"idle", "summarizing"} THEN phase' = "idle" /\ asked' = asked
         ELSE phase' = "asked" /\ asked' = [source |-> history' \o staged, gone |-> lost]
  BY <1>4, Zenon DEF InstallSummary, Compacted, Preface
<1>7. Talk(asked'.source)
  <2>1. CASE phase \in {"idle", "summarizing"} BY <1>6, <2>1, Zenon DEF RequestInd
  <2>2. CASE phase \notin {"idle", "summarizing"}
    <3>1. Talk(ms \o staged) BY <1>1, <1>5, TalksJoin
    <3>2. asked' = [source |-> ms \o staged, gone |-> lost] BY <1>6, <2>2
    <3>3. asked'.source = ms \o staged BY <3>2
    <3> QED BY <3>1, <3>3, Zenon
  <2> QED BY <2>1, <2>2
<1>8. phase' \in {"idle", "asked"} BY <1>6
<1>9. Talk(history') /\ Talk(staged') BY <1>1, <1>5, <1>6, Zenon
<1>10. route' \in Routes /\ usedIds' \in Nat /\ cut' = 0 BY <1>6 DEF RequestInd
<1> QED BY <1>7, <1>8, <1>9, <1>10, NothingIsCut

(* The cached summary keeps from the message that was cut at.               *)
LEMMA CachedSummaryStays ==
    ASSUME RequestInd, NEW attention, attention \in BOOLEAN, CachedSummary(attention)
    PROVE  RequestInd'
<1>1. phase \in {"summarizing", "recovering"} /\ InstallSummary(cut + 1, attention) BY Zenon DEF CachedSummary
<1>2. cut + 1 \in 1..Len(history) /\ history[cut + 1].role = "user" BY <1>1 DEF RequestInd, CutIsSound
<1>3. PICK first : first = cut + 1 OBVIOUS
<1>4. Len(history) \in Nat BY TalkIs DEF RequestInd
<1>5. first \in 1..(Len(history) + 1) /\ history[first].role # "tool" BY <1>2, <1>3, <1>4
<1>6. InstallSummary(first, attention) BY <1>1, <1>3, Zenon
<1> QED BY <1>5, <1>6, InstallStays

(* Its own prompt keeps from a message that is no result, or nothing.       *)
LEMMA OwnSummaryStays ==
    ASSUME RequestInd, NEW first, NEW attention, attention \in BOOLEAN, OwnSummary(first, attention)
    PROVE  RequestInd'
<1>1. /\ first \in KeptFrom \/ first = Len(history) + 1
      /\ InstallSummary(first, attention)
  BY Zenon DEF OwnSummary
<1>2. Len(history) \in Nat /\ DOMAIN history = 1..Len(history) BY TalkIs DEF RequestInd
<1>3. first \in 1..(Len(history) + 1) /\ (first <= Len(history) => history[first].role # "tool")
  <2>1. CASE first \in KeptFrom
    <3>1. first \in 1..Len(history) /\ history[first].role # "tool" BY <1>2, <2>1 DEF KeptFrom, ActiveIndices
    <3> QED BY <1>2, <3>1
  <2>2. CASE first = Len(history) + 1 BY <1>2, <2>2
  <2> QED BY <1>1, <2>1, <2>2
<1> QED BY <1>1, <1>3, InstallStays

(* A failed summary ends the round.                                         *)
LEMMA SummaryFailsStays == RequestInd /\ SummaryFails => RequestInd'
<1> SUFFICES ASSUME RequestInd, SummaryFails PROVE RequestInd' OBVIOUS
<1>1. /\ route' = route /\ history' = history /\ staged' = <<>> /\ phase' = "idle" /\ asked' = asked
      /\ cut' = 0 /\ usedIds' = usedIds
  BY Zenon DEF SummaryFails
<1>2. Talk(history') /\ Talk(staged') /\ Talk(asked'.source) BY <1>1, NothingTalks, Zenon DEF RequestInd
<1>3. route' \in Routes /\ usedIds' \in Nat /\ cut' = 0 /\ phase' \in {"idle", "asked"} BY <1>1 DEF RequestInd
<1> QED BY <1>2, <1>3, NothingIsCut

(* A lost picture changes none of the messages, nor does a new configuration  *)
(* but that the last request is no longer compared with.                    *)
LEMMA HeldStays ==
    ASSUME RequestInd, UNCHANGED <<route, history, staged, phase, asked, cut, usedIds>>
    PROVE  RequestInd'
<1>1. /\ route' = route /\ history' = history /\ staged' = staged /\ phase' = phase /\ asked' = asked
      /\ cut' = cut /\ usedIds' = usedIds
  BY Zenon
<1>2. Talk(history') /\ Talk(staged') /\ Talk(asked'.source) BY <1>1, Zenon DEF RequestInd
<1>3. CutIsSound' BY <1>1, Zenon DEF RequestInd, CutIsSound
<1> QED BY <1>1, <1>2, <1>3, Zenon DEF RequestInd

(* With another configuration no request is remembered.                     *)
LEMMA ReconfigureStays ==
    ASSUME RequestInd, NEW r, r \in Routes, Reconfigure(r)
    PROVE  RequestInd'
<1>1. cut = 0
  <2>1. phase \in {"idle", "asked"} BY DEF Reconfigure
  <2> QED BY <2>1, NoSummaryRuns
<1>2. /\ route' = r /\ history' = history /\ staged' = staged /\ phase' = phase /\ asked' = NoRequest
      /\ cut' = cut /\ usedIds' = usedIds /\ phase = "idle"
  BY Zenon DEF Reconfigure
<1>3. asked'.source = <<>> BY <1>2 DEF NoRequest
<1>4. Talk(history') /\ Talk(staged') /\ Talk(asked'.source) BY <1>2, <1>3, NothingTalks, Zenon DEF RequestInd
<1>5. route' \in Routes /\ usedIds' \in Nat /\ cut' = 0 /\ phase' \in {"idle", "asked"} BY <1>1, <1>2 DEF RequestInd
<1> QED BY <1>4, <1>5, NothingIsCut

(* The invariant of the requests is kept by every step.                     *)
LEMMA RequestStep == RequestInd /\ [RequestNext]_requestVars => RequestInd'
<1> SUFFICES ASSUME RequestInd, [RequestNext]_requestVars PROVE RequestInd' OBVIOUS
<1>1. ASSUME UNCHANGED requestVars PROVE RequestInd'
  <2>1. UNCHANGED <<route, history, staged, phase, asked, cut, usedIds>> BY <1>1, Zenon DEF requestVars
  <2> QED BY <2>1, HeldStays
<1>2. ASSUME NEW n \in 1..2, NEW native \in BOOLEAN, NEW pictures \in SUBSET (1..n), ReplyCalls(n, pictures, native)
      PROVE  RequestInd'
  <2>1. n \in Nat BY <1>2
  <2> QED BY <1>2, <2>1, ReplyCallsStays
<1>3. ASSUME NEW native \in BOOLEAN, ReplyTruncated(native) PROVE RequestInd' BY <1>3, ReplyTruncatedStays
<1>4. ASSUME NEW first \in 1..MaxHistory, StartSummary(first) PROVE RequestInd' BY <1>4, StartSummaryStays
<1>5. ASSUME NEW first \in 1..(MaxHistory + 1), NEW attention \in BOOLEAN, OwnSummary(first, attention)
      PROVE  RequestInd'
  BY <1>5, OwnSummaryStays
<1>6. ASSUME NEW attention \in BOOLEAN, CachedSummary(attention) PROVE RequestInd' BY <1>6, CachedSummaryStays
<1>7. ASSUME NEW id \in 1..MaxCalls, LosePicture(id) PROVE RequestInd'
  <2>1. UNCHANGED <<route, history, staged, phase, asked, cut, usedIds>> BY <1>7, Zenon DEF LosePicture
  <2> QED BY <2>1, HeldStays
<1>8. ASSUME NEW r \in Routes, Reconfigure(r) PROVE RequestInd' BY <1>8, ReconfigureStays
<1> QED BY <1>1, <1>2, <1>3, <1>4, <1>5, <1>6, <1>7, <1>8, UserSaysStays, AskStays, ReplyTextStays,
           RoundFailsStays, SummaryFailsStays, Zenon DEF RequestNext

(* What the messages being such says of the requests.                        *)
LEMMA SummaryTalks ==
    ASSUME RequestInd, cut # 0, NEW gone
    PROVE  Talk(SummarySource(gone))
<1>1. Talk(history) BY DEF RequestInd
<1>2. PICK ms : ms = Working(history, gone) OBVIOUS
<1>3. Talk(ms) /\ Alike(ms, history) BY <1>1, <1>2, WorkingTalks
<1>4. cut \in Nat /\ cut + 1 \in 1..Len(history) /\ history[cut + 1].role = "user" BY DEF RequestInd, CutIsSound
<1>5. PICK c : c = cut OBVIOUS
<1>6. Len(ms) = Len(history) /\ ms[c + 1].role = "user" /\ Len(ms) \in Nat
  <2>1. Len(ms) = Len(history) /\ AlikeAt(ms, history, c + 1) BY <1>3, <1>4, <1>5 DEF Alike
  <2>2. Len(ms) \in Nat BY <1>3, TalkIs
  <2> QED BY <1>4, <1>5, <2>1, <2>2 DEF AlikeAt
<1>7. c \in 0..Len(ms) BY <1>4, <1>5, <1>6
<1>8. ms[c + 1].role # "tool" BY <1>6
<1>9. PICK p : p = SubSeq(ms, 1, c) OBVIOUS
<1>10. Talk(p) BY <1>3, <1>7, <1>8, <1>9, TalkUpTo
<1>11. PICK t : t = "control" OBVIOUS
<1>12. PICK u : u = User(t) OBVIOUS
<1>13. t \in Sayings BY <1>11 DEF Sayings
<1>14. u \in MessageType
  <2>1. IsUser(u, t) BY <1>12, <1>13, UserIs
  <2> QED BY <2>1 DEF IsUser
<1>15. Talk(<<u>>) BY <1>12, <1>13, UserTalks
<1>16. Append(p, u) = p \o <<u>>
  <2>1. p \in Seq(MessageType) BY <1>10, TalkIs
  <2> QED BY <1>14, <2>1, AppendIsConcat
<1>17. Talk(p \o <<u>>) BY <1>10, <1>15, TalksJoin
<1>18. SummarySource(gone) = Append(p, u) BY <1>2, <1>5, <1>9, <1>11, <1>12, Zenon DEF SummarySource, CachedPrefix
<1> QED BY <1>16, <1>17, <1>18, Zenon

(* And gives the properties of the requests.                                *)
LEMMA IndImpliesRequest == RequestInd => RequestInv
<1> SUFFICES ASSUME RequestInd PROVE RequestInv OBVIOUS
<1>1. route \in Routes /\ Talk(asked.source) BY DEF RequestInd
<1>2. PICK old : old = Working(asked.source, asked.gone) OBVIOUS
<1>3. Talk(old) BY <1>1, <1>2, WorkingTalks
<1>4. CallsMeetResults(AskedBody)
  <2>1. CallsMeetResults(Body(old)) BY <1>1, <1>3, TalkMeets
  <2> QED BY <1>2, <2>1, Zenon DEF AskedBody
<1>5. PICK again : again = Working(Source, lost) OBVIOUS
<1>6. Talk(again) BY <1>5, SourceTalks, WorkingTalks
<1>7. ASSUME cut # 0 PROVE Talk(SummarySource(lost)) /\ CallsMeetResults(SummaryBody)
  <2>1. PICK ms : ms = SummarySource(lost) OBVIOUS
  <2>2. Talk(ms) BY <1>7, <2>1, SummaryTalks
  <2>3. CallsMeetResults(Body(ms)) BY <1>1, <2>2, TalkMeets
  <2> QED BY <2>1, <2>2, <2>3, Zenon DEF SummaryBody
<1>8. RequestsAreSound BY <1>4, <1>7, Zenon DEF RequestsAreSound
<1>9. Speaks(old) /\ Speaks(again) /\ (cut # 0 => Speaks(SummarySource(lost)))
  BY <1>3, <1>6, <1>7, Zenon DEF Talk
<1>10. KeepsPrefix(again) BY <1>1, <1>2, <1>9, PrefixIsKept
<1>11. cut # 0 => KeepsPrefix(SummarySource(lost)) BY <1>1, <1>2, <1>9, PrefixIsKept
<1>12. CacheIsReused BY <1>5, <1>10, <1>11, Zenon DEF CacheIsReused
<1>13. ThinkingStaysWithItsCalls BY <1>1, ThinkingIsShown
<1> QED BY <1>8, <1>12, <1>13 DEF RequestInv

(* RequestInv: whatever was compacted, continued, lost or reconfigured, a     *)
(* request shows no call without its result and no result without its call,  *)
(* repeats the last one byte for byte, and shows the thinking that led to the *)
(* calls it goes on after.                                                  *)
THEOREM RequestsHold == RequestSpec => []RequestInv
<1>1. RequestInit => RequestInd BY RequestBegins
<1>2. RequestInd /\ [RequestNext]_requestVars => RequestInd' BY RequestStep
<1>3. RequestInd => RequestInv BY IndImpliesRequest
<1> QED BY <1>1, <1>2, <1>3, PTL DEF RequestSpec

(* A behaviour of the ledger's parts is one of the requests.                *)
LEMMA RequestsOfTheLedger == LedgerSpec => RequestSpec
<1>1. LedgerInit => RequestInit BY DEF LedgerInit
<1>2. [LedgerNext]_ledgerVars => [RequestNext]_requestVars
  <2>1. ASSUME UNCHANGED ledgerVars PROVE UNCHANGED requestVars BY <2>1, Zenon DEF ledgerVars
  <2>2. ASSUME InCores(Next) \/ InTranscript(TranscriptNext) \/ InContinuity(ContinuityNext)
        PROVE  UNCHANGED requestVars
    BY <2>2, Zenon DEF InCores, InTranscript, InContinuity
  <2>3. ASSUME InRequests(RequestNext) PROVE RequestNext BY <2>3, Zenon DEF InRequests
  <2> QED BY <2>1, <2>2, <2>3, Zenon DEF LedgerNext
<1> QED BY <1>1, <1>2, PTL DEF LedgerSpec, RequestSpec

(* The same of the ledger's parts together.                                 *)
THEOREM RequestsStay == LedgerSpec => []RequestInv
BY RequestsHold, RequestsOfTheLedger, PTL
-----------------------------------------------------------------------------
(* Two Cores that overlap, among the ledger's other parts.                  *)

(* A behaviour of the ledger's parts is one of the Cores.                   *)
LEMMA CoresOfTheLedger == LedgerSpec => Spec
<1>1. LedgerInit => Init BY DEF LedgerInit
<1>2. [LedgerNext]_ledgerVars => [Next]_vars
  BY Zenon DEF LedgerNext, InCores, InTranscript, InRequests, InContinuity, ledgerVars
<1> QED BY <1>1, <1>2, PTL DEF LedgerSpec, Spec

(* However two Cores overlap, lose the lock and lose acknowledgements, a    *)
(* view is the projection of a prefix of what is stored, nothing leaves it  *)
(* without a summary, and the rows are those of the abstract history.       *)
THEOREM LedgerStaysSound ==
    LedgerSpec => /\ [](ViewIsPrefixProjection /\ NothingDroppedUnsummarized)
                  /\ ImplementsHistory
  BY CoresOfTheLedger, ViewsAreProjections, NothingDropped, LinearHistory, PTL
=============================================================================
