--------------------------- MODULE ConversationProofs ---------------------------
(***************************************************************************)
(* The way of a message to the model: ingress (bot/core.ts and             *)
(* bot/startup-backfill.ts) keeps the table in the order of the events,    *)
(* the inbox tool shows what its cursor covers (agent/tools/inbox.ts),     *)
(* the model calls of a round (agent/claude-code/llm-client.ts,            *)
(* agent/llm-client.ts) recover within their bounds, and the tools that    *)
(* run a program (workspace-bash.ts, openbb-cli.ts, moomoo-skill.ts) let   *)
(* through and answer what they say.                                       *)
(***************************************************************************)
EXTENDS MCConversation, MailboxDeliveryProofs, FiniteSetTheorems, SequenceTheorems, TLAPS

-----------------------------------------------------------------------------
(* Ingress: the inductive invariant.                                       *)

Events == [kind : {"message", "recall"}, msg : Messages]

IngressTypeOK ==
    /\ scopeOf \in [Messages -> Scopes \cup {NoScope}]
    /\ chain \in [Scopes -> Seq(Events)]
    /\ fill \in [Groups -> [step : {"idle", "due", "listed", "fetched"}, todo : Seq(Messages)]]
    /\ heard \subseteq Events /\ strays \subseteq Messages /\ unmatched \subseteq Messages
    /\ \A m \in Messages : m \in Sent => \A k \in 1..m : k \in Sent

(* Not every message is owed: some failed, are the bot's own, were taken   *)
(* back, or are too old for the history.                                   *)
Later(m) == {k \in History(scopeOf[m]) : k > m}
Excused(m) ==
    m \in failed \cup ownMessages \cup recalled \/ Cardinality(Later(m)) >= BackfillCount

(* One row per event, of a message that was sent, and a recall behind its  *)
(* message.                                                                *)
FactsOK ==
    /\ facts \in Seq(Events) /\ IsInjective(facts)
    /\ \A i \in 1..Len(facts) : facts[i].msg \in Sent
    /\ \A m \in Messages : Recall(m) \in ToSet(facts) => Stored(m) /\ Row(Said(m)) < Row(Recall(m))

RowsInOrder ==
    \A m, n \in Messages :
        m < n /\ scopeOf[m] = scopeOf[n] /\ {Said(m), Said(n)} \subseteq heard /\ Stored(n) =>
            Excused(m) \/ (Stored(m) /\ Row(Said(m)) < Row(Said(n)))

(* Nothing waits before a message but events of earlier ones.              *)
ChainInOrder(jobs) ==
    \A i, j \in 1..Len(jobs) : i < j /\ jobs[j].kind = "message" => jobs[i].msg < jobs[j].msg
ChainsOK ==
    \A s \in Scopes :
        ChainInOrder(chain[s]) /\ \A i \in 1..Len(chain[s]) : scopeOf[chain[s][i].msg] = s

(* What was heard waits in its chain until it is stored, fails or is left  *)
(* as the bot's own; a recall that found nothing came after that.          *)
WaitsInChain(m) == \E i \in 1..Len(chain[scopeOf[m]]) : chain[scopeOf[m]][i] = Said(m)
HeardOK ==
    \A m \in Messages : Said(m) \in heard =>
        m \in Sent /\ (WaitsInChain(m) \/ Stored(m) \/ m \in failed \cup ownMessages)
UnmatchedOK ==
    \A m \in unmatched : m \in Sent /\ (Said(m) \notin heard \/ m \in failed \cup ownMessages)

(* A backfill works through what it lists from the oldest on: whatever is  *)
(* older than a message it has still to store is stored, excused or before *)
(* it on the list.                                                         *)
Settled(m) == Excused(m) \/ Stored(m)
FillOK(g) ==
    LET todo == fill[g].todo IN
    /\ fill[g].step \in {"idle", "due"} <=> todo = <<>>
    /\ \A i, j \in 1..Len(todo) : i < j => todo[i] < todo[j]
    /\ \A i \in 1..Len(todo) : scopeOf[todo[i]] = g
    /\ \A i \in 1..Len(todo), m \in Messages :
          m < todo[i] /\ scopeOf[m] = g => Settled(m) \/ \E j \in 1..(i - 1) : todo[j] = m
StraysOK ==
    \A n \in strays :
        n \in Sent /\ \A m \in Messages : m < n /\ scopeOf[m] = scopeOf[n] => Settled(m)

IngressInd ==
    /\ IngressTypeOK /\ FactsOK /\ RowsInOrder /\ ChainsOK /\ HeardOK /\ UnmatchedOK
    /\ \A g \in Groups : FillOK(g)
    /\ StraysOK

(* What a gateway does undoes nothing of this.                             *)
Grows ==
    /\ \A m \in Messages : m \in Sent => scopeOf'[m] = scopeOf[m]
    /\ ownMessages \subseteq ownMessages' /\ recalled \subseteq recalled' /\ failed \subseteq failed'
    /\ ToSet(facts) \subseteq ToSet(facts')

(* A message that is excused stays so: the history only gets longer.       *)
LEMMA ExcusedStays ==
    ASSUME Grows, NEW m \in Messages, m \in Sent, Excused(m)
    PROVE  Excused(m)'
<1>1. CASE m \in failed \cup ownMessages \cup recalled BY <1>1 DEF Grows, Excused
<1>2. CASE Cardinality(Later(m)) >= BackfillCount
  <2>1. Later(m) \subseteq Later(m)' BY DEF Grows, Later, History, Sent
  <2>2. IsFiniteSet(Messages) BY FS_Interval, IngressAssumption DEF Messages
  <2>3. IsFiniteSet(Later(m)') BY <2>2, FS_Subset DEF Later, History, Sent
  <2>4. Cardinality(Later(m)) <= Cardinality(Later(m)') BY <2>1, <2>3, FS_Subset
  <2>5. Cardinality(Later(m)) \in Nat /\ Cardinality(Later(m)') \in Nat
    BY <2>1, <2>3, FS_Subset, FS_CardinalityType
  <2> QED BY <1>2, <2>4, <2>5, IngressAssumption DEF Excused
<1> QED BY <1>1, <1>2 DEF Excused

(* A message that is stored or excused stays so.                            *)
LEMMA SettledStays ==
    ASSUME Grows, NEW m \in Messages, m \in Sent, Settled(m)
    PROVE  Settled(m)'
BY ExcusedStays DEF Settled, Grows, Stored

(* What was sent stays sent, and so does all that came before it.          *)
LEMMA SentStays ==
    ASSUME IngressTypeOK, Grows, NEW m \in Messages, m \in Sent
    PROVE  m \in Sent' /\ \A k \in Messages : k <= m => k \in Sent /\ scopeOf'[k] = scopeOf[k]
<1>1. \A k \in Messages : k <= m => k \in 1..m BY DEF Messages
<1> QED BY <1>1 DEF IngressTypeOK, Grows, Sent

(* In a table without repetitions the row of a fact is where it stands.    *)
LEMMA RowIsUnique ==
    ASSUME NEW q \in Seq(Events), IsInjective(q), NEW i \in 1..Len(q)
    PROVE  (CHOOSE k \in DOMAIN q : q[k] = q[i]) = i
BY DEF IsInjective

(* The upsert adds one row at the end or none, and moves none.             *)
LEMMA RowsStay ==
    ASSUME FactsOK, NEW e \in Events, facts' = Appended(e)
    PROVE  /\ facts' \in Seq(Events) /\ IsInjective(facts')
           /\ ToSet(facts') = ToSet(facts) \cup {e}
           /\ \A f \in ToSet(facts) : Row(f)' = Row(f)
           /\ e \notin ToSet(facts) => \A f \in ToSet(facts) : Row(f) < Row(e)'
<1>0. facts \in Seq(Events) /\ IsInjective(facts) BY DEF FactsOK
<1>1. \A f \in ToSet(facts) : Row(f) \in 1..Len(facts) /\ facts[Row(f)] = f
  BY <1>0 DEF Row, ToSet
<1>2. CASE e \in ToSet(facts)
  <2>1. facts' = facts BY <1>2 DEF Appended
  <2> QED BY <1>0, <1>2, <2>1 DEF Row
<1>3. CASE e \notin ToSet(facts)
  <2>1. facts' = Append(facts, e) BY <1>3 DEF Appended
  <2>2. /\ facts' \in Seq(Events) /\ Len(facts') = Len(facts) + 1 /\ facts'[Len(facts) + 1] = e
        /\ \A i \in 1..Len(facts) : facts'[i] = facts[i]
    BY <1>0, <2>1
  <2>3. \A i \in 1..Len(facts) : facts[i] # e BY <1>0, <1>3 DEF ToSet
  <2>4. IsInjective(facts')
    <3> SUFFICES ASSUME NEW i \in 1..Len(facts'), NEW j \in 1..Len(facts'), facts'[i] = facts'[j]
                 PROVE  i = j
      BY <2>2 DEF IsInjective
    <3>1. CASE i \in 1..Len(facts) /\ j \in 1..Len(facts)
      BY <1>0, <2>2, <3>1 DEF IsInjective
    <3>2. CASE i = Len(facts) + 1 \/ j = Len(facts) + 1 BY <1>0, <2>2, <2>3, <3>2
    <3> QED BY <1>0, <2>2, <3>1, <3>2
  <2>5. ToSet(facts') = ToSet(facts) \cup {e}
    <3>1. ASSUME NEW f \in ToSet(facts') PROVE f \in ToSet(facts) \cup {e}
      <4>1. PICK i \in 1..Len(facts') : facts'[i] = f BY <2>2 DEF ToSet
      <4> QED BY <1>0, <2>2, <4>1 DEF ToSet
    <3>2. ASSUME NEW f \in ToSet(facts) PROVE f \in ToSet(facts')
      BY <1>0, <1>1, <2>2 DEF ToSet
    <3>3. e \in ToSet(facts') BY <1>0, <2>2 DEF ToSet
    <3> QED BY <3>1, <3>2, <3>3
  <2>6. ASSUME NEW i \in 1..Len(facts') PROVE Row(facts[i])' = i
    BY <2>2, <2>4, RowIsUnique DEF Row
  <2>7. ASSUME NEW f \in ToSet(facts) PROVE Row(f)' = Row(f)
    <3>1. PICK i \in 1..Len(facts) : i = Row(f) BY <1>1
    <3>2. facts'[i] = f /\ i \in 1..Len(facts') BY <1>0, <1>1, <2>2, <3>1
    <3>3. Row(f)' = i BY <2>6, <3>2
    <3> QED BY <3>1, <3>3
  <2>8. Row(e)' = Len(facts) + 1 BY <1>0, <2>2, <2>6
  <2>9. \A f \in ToSet(facts) : Row(f) < Row(e)' BY <1>0, <1>1, <2>8
  <2> QED BY <2>2, <2>4, <2>5, <2>7, <2>9
<1> QED BY <1>2, <1>3

(* A fact may be stored, once or again, when its message was sent, a       *)
(* recall's message is stored, and what was heard before a message is      *)
(* settled.                                                                *)
LEMMA FactsGrow ==
    ASSUME IngressTypeOK, FactsOK, RowsInOrder, NEW e \in Events, facts' \in {facts, Appended(e)},
           UNCHANGED <<platformVars, heard>>, failed \subseteq failed',
           e.msg \in Sent, e = Said(e.msg) \/ (e = Recall(e.msg) /\ Stored(e.msg)),
           e = Said(e.msg) =>
              \A m \in Messages :
                  m < e.msg /\ scopeOf[m] = scopeOf[e.msg] /\ Said(m) \in heard => Settled(m)
    PROVE  Grows /\ FactsOK' /\ RowsInOrder'
<1> USE DEF platformVars
<1>0. Sent' = Sent BY DEF Sent
<1>1. CASE facts' = facts
  <2>1. Grows BY <1>1 DEF Grows
  <2>2. FactsOK' BY <1>0, <1>1 DEF FactsOK, Stored, Row
  <2>3. ASSUME NEW m \in Messages, NEW n \in Messages, m < n, scopeOf[m] = scopeOf[n],
               {Said(m), Said(n)} \subseteq heard, Stored(n)
        PROVE  Excused(m)' \/ (Stored(m)' /\ Row(Said(m))' < Row(Said(n))')
    <3>1. m \in Sent
      <4>1. PICK i \in 1..Len(facts) : facts[i] = Said(n) BY <2>3 DEF Stored, ToSet, FactsOK
      <4>2. n \in Sent BY <4>1 DEF FactsOK, Said
      <4> QED BY <2>3, <4>2, <2>1, SentStays DEF Messages
    <3> QED BY <1>1, <2>1, <2>3, <3>1, ExcusedStays DEF RowsInOrder, Stored, Row
  <2>4. RowsInOrder' BY <1>1, <2>3 DEF RowsInOrder, Stored
  <2> QED BY <2>1, <2>2, <2>4
<1>2. CASE facts' = Appended(e)
  <2>1. /\ facts' \in Seq(Events) /\ IsInjective(facts')
        /\ ToSet(facts') = ToSet(facts) \cup {e}
        /\ \A f \in ToSet(facts) : Row(f)' = Row(f)
        /\ e \notin ToSet(facts) => \A f \in ToSet(facts) : Row(f) < Row(e)'
    BY <1>2, RowsStay
  <2>2. Grows BY <2>1 DEF Grows
  <2>3. FactsOK'
    <3>1. ASSUME NEW i \in 1..Len(facts') PROVE facts'[i].msg \in Sent
      <4>1. facts'[i] \in ToSet(facts')
        <5>1. i \in DOMAIN facts' BY <2>1
        <5> QED BY <5>1 DEF ToSet
      <4>2. facts'[i] \in ToSet(facts) \cup {e} BY <2>1, <4>1
      <4> QED BY <4>2 DEF FactsOK, ToSet
    <3>2. ASSUME NEW m \in Messages, Recall(m) \in ToSet(facts')
          PROVE  Stored(m)' /\ Row(Said(m))' < Row(Recall(m))'
      <4>1. CASE Recall(m) \in ToSet(facts) BY <2>1, <4>1 DEF FactsOK, Stored
      <4>2. CASE Recall(m) \notin ToSet(facts)
        <5>1. e = Recall(m) BY <2>1, <3>2, <4>2
        <5>2. m = e.msg /\ e # Said(e.msg) BY <5>1 DEF Said, Recall
        <5>3. Stored(m) BY <5>2
        <5> QED BY <2>1, <4>2, <5>1, <5>3 DEF Stored
      <4> QED BY <4>1, <4>2
    <3> QED BY <1>0, <2>1, <3>1, <3>2 DEF FactsOK
  <2>4. ASSUME NEW m \in Messages, NEW n \in Messages, m < n, scopeOf[m] = scopeOf[n],
               {Said(m), Said(n)} \subseteq heard, Stored(n)'
        PROVE  Excused(m)' \/ (Stored(m)' /\ Row(Said(m))' < Row(Said(n))')
    <3>1. m \in Sent
      <4>1. Said(n) \in ToSet(facts) \cup {e} BY <2>1, <2>4 DEF Stored
      <4>2. Said(n).msg \in Sent BY <4>1 DEF ToSet, FactsOK
      <4>3. n \in Sent BY <4>2 DEF Said
      <4> QED BY <2>2, <2>4, <4>3, SentStays DEF Messages
    <3>2. CASE Stored(n)
      BY <2>1, <2>2, <2>4, <3>1, <3>2, ExcusedStays DEF RowsInOrder, Stored
    <3>3. CASE ~Stored(n)
      <4>1. e = Said(n) BY <2>1, <2>4, <3>3 DEF Stored
      <4>2. e.msg = n /\ e = Said(e.msg) BY <4>1 DEF Said
      <4>3. Settled(m) BY <2>4, <4>2
      <4>4. CASE Excused(m) BY <2>2, <3>1, <4>4, ExcusedStays
      <4>5. CASE Stored(m) BY <2>1, <3>3, <4>1, <4>5 DEF Stored
      <4> QED BY <4>3, <4>4, <4>5 DEF Settled
    <3> QED BY <3>2, <3>3
  <2>5. RowsInOrder' BY <2>4 DEF RowsInOrder, Stored
  <2> QED BY <2>2, <2>3, <2>5
<1> QED BY <1>1, <1>2

(* Steps that leave the table alone keep it in order: what is heard anew   *)
(* was not sent before.                                                    *)
LEMMA FactsStay ==
    ASSUME IngressTypeOK, FactsOK, RowsInOrder, Grows, UNCHANGED facts,
           \A m \in Messages : Said(m) \in heard' => Said(m) \in heard \/ m \notin Sent
    PROVE  FactsOK' /\ RowsInOrder'
<1>1. FactsOK'
  <2>1. ASSUME NEW i \in 1..Len(facts) PROVE facts[i].msg \in Sent'
    <3>1. facts[i].msg \in Sent BY DEF FactsOK
    <3>2. facts[i].msg \in Messages BY <3>1 DEF Sent
    <3> QED BY <3>1, <3>2, SentStays
  <2>2. \A f : Row(f)' = Row(f) BY DEF Row
  <2> QED BY <2>1, <2>2 DEF FactsOK, Stored
<1>2. ASSUME NEW m \in Messages, NEW n \in Messages, m < n, scopeOf'[m] = scopeOf'[n],
             {Said(m), Said(n)} \subseteq heard', Stored(n)
      PROVE  Excused(m)' \/ (Stored(m) /\ Row(Said(m)) < Row(Said(n)))
  <2>1. n \in Sent
    <3>1. PICK i \in 1..Len(facts) : facts[i] = Said(n) BY <1>2 DEF Stored, ToSet, FactsOK
    <3> QED BY <3>1 DEF FactsOK, Said
  <2>2. m \in Sent /\ scopeOf'[m] = scopeOf[m] /\ scopeOf'[n] = scopeOf[n]
    BY <1>2, <2>1, SentStays DEF Messages
  <2>3. {Said(m), Said(n)} \subseteq heard BY <1>2, <2>1, <2>2
  <2> QED BY <1>2, <2>2, <2>3, ExcusedStays DEF RowsInOrder
<1>3. \A f : Row(f)' = Row(f) BY DEF Row
<1> QED BY <1>1, <1>2, <1>3 DEF RowsInOrder, Stored

-----------------------------------------------------------------------------
(* Chains.                                                                 *)

ChainInv == IngressTypeOK /\ ChainsOK /\ HeardOK /\ UnmatchedOK

(* What a chain holds was sent.                                            *)
LEMMA ChainedIsSent ==
    ASSUME IngressTypeOK, ChainsOK, NEW s \in Scopes, NEW i \in 1..Len(chain[s])
    PROVE  /\ chain[s][i] \in Events /\ scopeOf[chain[s][i].msg] = s
           /\ chain[s][i].msg \in Messages /\ chain[s][i].msg \in Sent
<1>1. chain[s][i] \in Events /\ scopeOf[chain[s][i].msg] = s BY DEF IngressTypeOK, ChainsOK
<1>2. s # NoScope BY ScopeAssumption DEF Scopes
<1> QED BY <1>1, <1>2 DEF Events, Sent

(* Steps beside the chains keep them.                                      *)
LEMMA ChainsStay ==
    ASSUME ChainInv, Grows, UNCHANGED <<chain, heard, unmatched>>, IngressTypeOK'
    PROVE  ChainInv'
<1>1. ChainsOK'
  <2>1. ASSUME NEW s \in Scopes, NEW i \in 1..Len(chain[s]) PROVE scopeOf'[chain[s][i].msg] = s
    BY <2>1, ChainedIsSent DEF ChainInv, Grows
  <2> QED BY <2>1 DEF ChainInv, ChainsOK
<1>2. \A m \in Messages : m \in Sent => m \in Sent' /\ scopeOf'[m] = scopeOf[m]
  BY SentStays DEF ChainInv, Grows
<1>3. HeardOK' BY <1>2 DEF ChainInv, HeardOK, WaitsInChain, Stored, Grows
<1>4. UnmatchedOK'
  BY <1>2 DEF ChainInv, UnmatchedOK, Grows, IngressTypeOK
<1> QED BY <1>1, <1>3, <1>4 DEF ChainInv

(* An event is heard while the gateway is online, a message only once.     *)
LEMMA HearStays ==
    ASSUME ChainInv, Grows, NEW s \in Scopes, NEW job \in Events, Hear(s, job), UNCHANGED unmatched,
           scopeOf'[job.msg] = s, job \in {Said(job.msg), Recall(job.msg)},
           job = Said(job.msg) => \A k \in Messages : k \in Sent => k < job.msg
    PROVE  /\ chain' \in [Scopes -> Seq(Events)] /\ heard' \subseteq Events
           /\ ChainsOK' /\ HeardOK' /\ UnmatchedOK'
<1>0. /\ chain \in [Scopes -> Seq(Events)] /\ heard \subseteq Events /\ unmatched \subseteq Messages
      /\ job.msg \in Messages /\ s # NoScope
  BY ScopeAssumption DEF ChainInv, IngressTypeOK, Scopes, Events
<1>1. \A m \in Messages : m \in Sent => m \in Sent' /\ scopeOf'[m] = scopeOf[m]
  BY SentStays DEF ChainInv, Grows
<1>2. ASSUME NEW c \in Scopes, NEW i \in 1..Len(chain[c]) PROVE scopeOf'[chain[c][i].msg] = c
  BY <1>1, <1>2, ChainedIsSent DEF ChainInv
<1>3. job.msg \in Sent' BY <1>0 DEF Sent
<1>4. CASE UNCHANGED <<chain, heard>>
  <2>1. ChainsOK' BY <1>2, <1>4 DEF ChainInv, ChainsOK
  <2>2. HeardOK' BY <1>1, <1>4 DEF ChainInv, HeardOK, WaitsInChain, Stored, Grows
  <2>3. UnmatchedOK' BY <1>0, <1>1, <1>4 DEF ChainInv, UnmatchedOK, Grows
  <2> QED BY <1>0, <1>4, <2>1, <2>2, <2>3
<1>5. CASE chain' = [chain EXCEPT ![s] = Append(@, job)] /\ heard' = heard \cup {job}
  <2>1. /\ chain' \in [Scopes -> Seq(Events)] /\ Len(chain'[s]) = Len(chain[s]) + 1
        /\ chain'[s][Len(chain[s]) + 1] = job
        /\ \A i \in 1..Len(chain[s]) : chain'[s][i] = chain[s][i]
        /\ \A c \in Scopes \ {s} : chain'[c] = chain[c]
    BY <1>0, <1>5
  <2>2. ASSUME NEW c \in Scopes
        PROVE  ChainInOrder(chain'[c]) /\ \A i \in 1..Len(chain'[c]) : scopeOf'[chain'[c][i].msg] = c
    <3>1. CASE c # s BY <1>2, <2>1, <3>1 DEF ChainInv, ChainsOK
    <3>2. CASE c = s
      <4>1. ASSUME NEW i \in 1..Len(chain'[s]) PROVE scopeOf'[chain'[s][i].msg] = s
        <5>1. Len(chain[s]) \in Nat BY <1>0
        <5>2. i \in 1..Len(chain[s]) \/ i = Len(chain[s]) + 1 BY <2>1, <5>1
        <5> QED BY <1>2, <2>1, <5>2
      <4>2. ASSUME NEW i \in 1..Len(chain'[s]), NEW j \in 1..Len(chain'[s]), i < j,
                   chain'[s][j].kind = "message"
            PROVE  chain'[s][i].msg < chain'[s][j].msg
        <5>1. i \in 1..Len(chain[s]) BY <1>0, <2>1, <4>2
        <5>2. CASE j \in 1..Len(chain[s])
          BY <2>1, <4>2, <5>1, <5>2 DEF ChainInv, ChainsOK, ChainInOrder
        <5>3. CASE j = Len(chain[s]) + 1
          <6>1. job = Said(job.msg) BY <2>1, <4>2, <5>3 DEF Recall
          <6>2. chain[s][i].msg \in Messages /\ chain[s][i].msg \in Sent
            BY <5>1, ChainedIsSent DEF ChainInv
          <6> QED BY <2>1, <5>1, <5>3, <6>1, <6>2
        <5> QED BY <1>0, <2>1, <5>2, <5>3
      <4> QED BY <3>2, <4>1, <4>2 DEF ChainInOrder
    <3> QED BY <3>1, <3>2
  <2>3. ChainsOK' BY <2>2 DEF ChainsOK
  <2>4. ASSUME NEW m \in Messages, Said(m) \in heard'
        PROVE  m \in Sent' /\ (WaitsInChain(m)' \/ Stored(m)' \/ m \in failed' \cup ownMessages')
    <3>1. CASE Said(m) \in heard
      <4>1. m \in Sent /\ (WaitsInChain(m) \/ Stored(m) \/ m \in failed \cup ownMessages)
        BY <3>1 DEF ChainInv, HeardOK
      <4>2. m \in Sent' /\ scopeOf'[m] = scopeOf[m] BY <1>1, <4>1
      <4>3. ASSUME WaitsInChain(m) PROVE WaitsInChain(m)'
        <5>1. PICK i \in 1..Len(chain[scopeOf[m]]) : chain[scopeOf[m]][i] = Said(m)
          BY <4>3 DEF WaitsInChain
        <5>2. scopeOf[m] \in Scopes BY <4>1 DEF ChainInv, IngressTypeOK, Sent
        <5>3. i \in 1..Len(chain'[scopeOf[m]]) /\ chain'[scopeOf[m]][i] = Said(m)
          <6>1. CASE scopeOf[m] = s
            <7>1. i \in 1..Len(chain[s]) /\ chain[s][i] = Said(m) /\ Len(chain[s]) \in Nat
              BY <1>0, <5>1, <6>1
            <7>2. i \in 1..Len(chain'[s]) /\ chain'[s][i] = Said(m) BY <2>1, <7>1
            <7> QED BY <6>1, <7>2
          <6>2. CASE scopeOf[m] # s
            <7>1. chain'[scopeOf[m]] = chain[scopeOf[m]] BY <2>1, <5>2, <6>2
            <7> QED BY <5>1, <7>1
          <6> QED BY <6>1, <6>2
        <5> QED BY <4>2, <5>3 DEF WaitsInChain
      <4> QED BY <4>1, <4>2, <4>3 DEF Grows, Stored
    <3>2. CASE Said(m) = job
      <4>1. job.msg = m BY <3>2 DEF Said
      <4>2. Len(chain[s]) + 1 \in 1..Len(chain'[s]) BY <1>0, <2>1
      <4>3. WaitsInChain(m)' BY <2>1, <3>2, <4>1, <4>2 DEF WaitsInChain
      <4> QED BY <1>3, <4>1, <4>3
    <3> QED BY <1>5, <2>4, <3>1, <3>2
  <2>5. HeardOK' BY <2>4 DEF HeardOK
  <2>6. ASSUME NEW m \in unmatched
        PROVE  m \in Sent' /\ (Said(m) \notin heard' \/ m \in failed' \cup ownMessages')
    <3>1. m \in Messages /\ m \in Sent /\ m \in Sent' BY <1>0, <1>1 DEF ChainInv, UnmatchedOK
    <3>2. CASE Said(m) = job
      <4>1. job.msg = m BY <3>2 DEF Said
      <4> QED BY <3>1, <3>2, <4>1 DEF Messages
    <3>3. CASE Said(m) # job BY <1>5, <3>1, <3>3 DEF ChainInv, UnmatchedOK, Grows
    <3> QED BY <3>2, <3>3
  <2>7. UnmatchedOK' BY <2>6 DEF UnmatchedOK
  <2>8. heard' \subseteq Events BY <1>0, <1>5
  <2> QED BY <2>1, <2>3, <2>5, <2>7, <2>8
<1> QED BY <1>4, <1>5 DEF Hear

(* The head of a chain: before a message only what is settled was heard,   *)
(* and a recall's own message no longer waits.                             *)
LEMMA HeadIsNext ==
    ASSUME ChainInv, NEW s \in Scopes, chain[s] # <<>>
    PROVE  /\ Head(chain[s]) = chain[s][1] /\ 1 \in 1..Len(chain[s])
           /\ Head(chain[s]) \in Events /\ Current(s) \in Messages
           /\ Current(s) \in Sent /\ scopeOf[Current(s)] = s
           /\ Head(chain[s]).kind = "message" => Head(chain[s]) = Said(Current(s))
           /\ Head(chain[s]).kind = "recall" => Head(chain[s]) = Recall(Current(s))
           /\ \A m \in Messages :
                 scopeOf[m] = s /\ Said(m) \in heard /\ Head(chain[s]) # Said(m) /\ m <= Current(s) =>
                    Stored(m) \/ m \in failed \cup ownMessages
<1>0. chain[s] \in Seq(Events) BY DEF ChainInv, IngressTypeOK
<1>1. Head(chain[s]) = chain[s][1] /\ 1 \in 1..Len(chain[s]) BY <1>0
<1>2. /\ Head(chain[s]) \in Events /\ Current(s) \in Messages
      /\ Current(s) \in Sent /\ scopeOf[Current(s)] = s
  BY <1>1, ChainedIsSent DEF ChainInv, Current
<1>3. /\ Head(chain[s]).kind = "message" => Head(chain[s]) = Said(Current(s))
      /\ Head(chain[s]).kind = "recall" => Head(chain[s]) = Recall(Current(s))
  BY <1>2 DEF Events, Said, Recall, Current
<1>4. ASSUME NEW m \in Messages, scopeOf[m] = s, Said(m) \in heard, Head(chain[s]) # Said(m),
             m <= Current(s)
      PROVE  Stored(m) \/ m \in failed \cup ownMessages
  <2> SUFFICES ASSUME WaitsInChain(m) PROVE FALSE BY <1>4 DEF ChainInv, HeardOK
  <2>1. PICK i \in 1..Len(chain[s]) : chain[s][i] = Said(m) BY <1>4 DEF WaitsInChain
  <2>2. 1 < i BY <1>0, <1>1, <1>4, <2>1
  <2>3. chain[s][1].msg < chain[s][i].msg
    BY <1>1, <2>1, <2>2 DEF ChainInv, ChainsOK, ChainInOrder, Said
  <2>4. Current(s) < m BY <1>1, <2>1, <2>3 DEF Current, Said
  <2> QED BY <1>2, <1>4, <2>4 DEF Messages
<1> QED BY <1>1, <1>2, <1>3, <1>4

(* A job that is done leaves its chain, its message settled.               *)
LEMMA JobDone ==
    ASSUME ChainInv, NEW s \in Scopes, chain[s] # <<>>, NextJob(s), Grows,
           unmatched' \subseteq Messages, NEW job \in Messages, job = Current(s),
           Head(chain[s]).kind = "message" => Stored(job)' \/ job \in failed' \cup ownMessages,
           \A m \in unmatched' \ unmatched :
               m \in Sent /\ (Said(m) \notin heard \/ m \in failed \cup ownMessages)
    PROVE  /\ chain' \in [Scopes -> Seq(Events)]
           /\ ChainsOK' /\ HeardOK' /\ UnmatchedOK'
<1>0. /\ chain \in [Scopes -> Seq(Events)] /\ unmatched \subseteq Messages
      /\ chain' = [chain EXCEPT ![s] = Tail(@)]
      /\ UNCHANGED <<platformVars, heard>>
  BY DEF ChainInv, IngressTypeOK, NextJob
<1>1. /\ chain' \in [Scopes -> Seq(Events)] /\ Len(chain'[s]) = Len(chain[s]) - 1
      /\ \A i \in 1..Len(chain'[s]) : chain'[s][i] = chain[s][i + 1] /\ i + 1 \in 1..Len(chain[s])
      /\ \A c \in Scopes \ {s} : chain'[c] = chain[c]
  BY <1>0
<1>2. ASSUME NEW c \in Scopes
      PROVE  ChainInOrder(chain'[c]) /\ \A i \in 1..Len(chain'[c]) : scopeOf'[chain'[c][i].msg] = c
  <2>1. CASE c # s BY <1>0, <1>1, <2>1 DEF ChainInv, ChainsOK, platformVars
  <2>2. CASE c = s
    <3>1. ASSUME NEW i \in 1..Len(chain'[s]) PROVE scopeOf'[chain'[s][i].msg] = s
      <4>1. chain'[s][i] = chain[s][i + 1] /\ i + 1 \in 1..Len(chain[s]) BY <1>1
      <4> QED BY <1>0, <4>1 DEF ChainInv, ChainsOK, platformVars
    <3>2. ChainInOrder(chain'[s])
      <4> SUFFICES ASSUME NEW i \in 1..Len(chain'[s]), NEW j \in 1..Len(chain'[s]), i < j,
                          chain'[s][j].kind = "message"
                   PROVE  chain'[s][i].msg < chain'[s][j].msg
        BY DEF ChainInOrder
      <4>1. i + 1 < j + 1 OBVIOUS
      <4>2. ChainInOrder(chain[s]) BY DEF ChainInv, ChainsOK
      <4>3. /\ chain'[s][i] = chain[s][i + 1] /\ i + 1 \in 1..Len(chain[s])
            /\ chain'[s][j] = chain[s][j + 1] /\ j + 1 \in 1..Len(chain[s])
        BY <1>1
      <4>4. chain[s][j + 1].kind = "message" BY <4>3
      <4>5. chain[s][i + 1].msg < chain[s][j + 1].msg BY <4>1, <4>2, <4>3, <4>4 DEF ChainInOrder
      <4> QED BY <4>3, <4>5
    <3> QED BY <2>2, <3>1, <3>2
  <2> QED BY <2>1, <2>2
<1>3. ChainsOK' BY <1>2 DEF ChainsOK
<1>4. Sent' = Sent BY <1>0 DEF Sent, platformVars
<1>5. ASSUME NEW m \in Messages, Said(m) \in heard
      PROVE  m \in Sent /\ (WaitsInChain(m)' \/ Stored(m)' \/ m \in failed' \cup ownMessages')
  <2>1. m \in Sent /\ (WaitsInChain(m) \/ Stored(m) \/ m \in failed \cup ownMessages)
    BY <1>5 DEF ChainInv, HeardOK
  <2>2. CASE WaitsInChain(m)
    <3>1. PICK i \in 1..Len(chain[scopeOf[m]]) : chain[scopeOf[m]][i] = Said(m) BY <2>2 DEF WaitsInChain
    <3>2. scopeOf[m] \in Scopes BY <2>1 DEF ChainInv, IngressTypeOK, Sent
    <3>3. CASE scopeOf[m] # s
      <4>1. WaitsInChain(m)' BY <1>0, <1>1, <3>1, <3>2, <3>3 DEF WaitsInChain, platformVars
      <4> QED BY <2>1, <4>1
    <3>4. CASE scopeOf[m] = s /\ i = 1
      <4>1. Head(chain[s]) = Said(m) BY <1>0, <3>1, <3>4, HeadIsNext
      <4>2. Current(s) = m /\ Head(chain[s]).kind = "message" BY <4>1 DEF Current, Said
      <4>3. job = m BY <4>2
      <4> QED BY <2>1, <4>2, <4>3, <1>0 DEF platformVars
    <3>5. CASE scopeOf[m] = s /\ i # 1
      <4>1. i - 1 \in 1..Len(chain'[s]) /\ chain'[s][i - 1] = Said(m) BY <1>0, <1>1, <3>1, <3>5
      <4>2. WaitsInChain(m)' BY <1>0, <3>5, <4>1 DEF WaitsInChain, platformVars
      <4> QED BY <2>1, <4>2
    <3> QED BY <3>3, <3>4, <3>5
  <2>3. CASE ~WaitsInChain(m) BY <2>1, <2>3 DEF Grows, Stored
  <2> QED BY <2>2, <2>3
<1>6. HeardOK' BY <1>0, <1>4, <1>5 DEF HeardOK
<1>7. UnmatchedOK' BY <1>0, <1>4 DEF ChainInv, UnmatchedOK, Grows
<1> QED BY <1>1, <1>3, <1>6, <1>7

-----------------------------------------------------------------------------
(* The backfill.                                                           *)

(* What a backfill lists of a group was sent, and so was what is older.    *)
LEMMA ListedIsSent ==
    ASSUME IngressTypeOK, NEW g \in Groups, FillOK(g), NEW i \in 1..Len(fill[g].todo)
    PROVE  /\ fill[g].todo[i] \in Messages /\ fill[g].todo[i] \in Sent
           /\ \A m \in Messages : m < fill[g].todo[i] => m \in Sent
<1>1. /\ fill[g].todo[i] \in Messages /\ scopeOf[fill[g].todo[i]] = g /\ g # NoScope
  BY ScopeAssumption DEF IngressTypeOK, FillOK
<1>2. fill[g].todo[i] \in Sent BY <1>1 DEF Sent
<1>3. ASSUME NEW m \in Messages, m < fill[g].todo[i] PROVE m \in 1..fill[g].todo[i]
  BY <1>1, <1>3 DEF Messages
<1> QED BY <1>1, <1>2, <1>3 DEF IngressTypeOK

(* Steps that leave a group's backfill alone keep it.                      *)
LEMMA FillStays ==
    ASSUME IngressTypeOK, Grows, NEW g \in Groups, FillOK(g), fill'[g] = fill[g]
    PROVE  FillOK(g)'
<1> DEFINE todo == fill[g].todo
<1>1. PICK q : q = todo OBVIOUS
<1>2. fill'[g].todo = q /\ fill'[g].step = fill[g].step BY <1>1
<1>3. ASSUME NEW i \in 1..Len(q) PROVE scopeOf'[q[i]] = g
  BY <1>1, <1>3, ListedIsSent DEF FillOK, Grows
<1>4. ASSUME NEW i \in 1..Len(q), NEW m \in Messages, m < q[i], scopeOf'[m] = g
      PROVE  Settled(m)' \/ \E j \in 1..(i - 1) : q[j] = m
  <2>1. m \in Sent /\ scopeOf[m] = g BY <1>1, <1>4, ListedIsSent DEF Grows
  <2>2. Settled(m) \/ \E j \in 1..(i - 1) : q[j] = m BY <1>1, <1>4, <2>1 DEF FillOK
  <2> QED BY <2>1, <2>2, SettledStays
<1> QED BY <1>1, <1>2, <1>3, <1>4 DEF FillOK

(* The head of a list settled, the rest goes on.                           *)
LEMMA FillGoesOn ==
    ASSUME IngressTypeOK, Grows, UNCHANGED platformVars, NEW g \in Groups, FillOK(g), fill[g].todo # <<>>,
           NEW n \in Messages, n = Head(fill[g].todo), Settled(n)', SetFill(g, "listed", Tail(fill[g].todo))
    PROVE  FillOK(g)'
<1> DEFINE todo == fill[g].todo
<1>1. PICK q : q = todo OBVIOUS
<1>2. PICK r : r = Tail(q) OBVIOUS
<1>3. q \in Seq(Messages) /\ q # <<>> BY <1>1 DEF IngressTypeOK
<1>4. /\ r \in Seq(Messages) /\ Len(r) = Len(q) - 1 /\ Len(q) \in Nat
      /\ \A i \in 1..Len(r) : r[i] = q[i + 1] /\ i + 1 \in 1..Len(q)
  BY <1>2, <1>3
<1>5. /\ fill'[g].todo = r /\ (fill'[g].step \in {"idle", "due"} <=> r = <<>>)
  BY <1>1, <1>2 DEF SetFill, NoFill, IngressTypeOK
<1>6. ASSUME NEW i \in 1..Len(r), NEW j \in 1..Len(r), i < j PROVE r[i] < r[j]
  <2>1. q[i + 1] < q[j + 1] BY <1>1, <1>4, <1>6 DEF FillOK
  <2> QED BY <1>4, <2>1
<1>7. ASSUME NEW i \in 1..Len(r) PROVE scopeOf[r[i]] = g BY <1>1, <1>4 DEF FillOK
<1>8. ASSUME NEW i \in 1..Len(r), NEW m \in Messages, m < r[i], scopeOf[m] = g
      PROVE  Settled(m)' \/ \E j \in 1..(i - 1) : r[j] = m
  <2>1. i + 1 \in 1..Len(q) /\ m < q[i + 1] BY <1>4, <1>8
  <2>2. m \in Sent BY <1>1, <2>1, ListedIsSent
  <2>3. Settled(m) \/ \E j \in 1..((i + 1) - 1) : q[j] = m BY <1>1, <1>8, <2>1 DEF FillOK
  <2>4. CASE Settled(m) BY <2>2, <2>4, SettledStays
  <2>5. ASSUME NEW j \in 1..((i + 1) - 1), q[j] = m PROVE Settled(m)' \/ \E k \in 1..(i - 1) : r[k] = m
    <3>1. CASE j = 1
      <4>1. n = m BY <1>1, <1>3, <2>5, <3>1
      <4> QED BY <4>1
    <3>2. CASE j # 1
      <4>1. j - 1 \in 1..(i - 1) /\ j - 1 \in 1..Len(r) BY <1>4, <2>5, <3>2
      <4>2. r[j - 1] = q[(j - 1) + 1] /\ (j - 1) + 1 = j BY <1>4, <4>1
      <4> QED BY <2>5, <4>1, <4>2
    <3> QED BY <3>1, <3>2
  <2> QED BY <2>3, <2>4, <2>5
<1>9. scopeOf' = scopeOf BY DEF platformVars
<1>10. \A i, j \in 1..Len(r) : i < j => r[i] < r[j] BY <1>6
<1>11. \A i \in 1..Len(r) : scopeOf'[r[i]] = g BY <1>7, <1>9
<1>12. \A i \in 1..Len(r), m \in Messages :
          m < r[i] /\ scopeOf'[m] = g => Settled(m)' \/ \E j \in 1..(i - 1) : r[j] = m
  BY <1>8, <1>9
<1> QED BY <1>5, <1>10, <1>11, <1>12 DEF FillOK

(* The oldest message listed has nothing unsettled before it.              *)
LEMMA HeadOfFill ==
    ASSUME IngressTypeOK, NEW g \in Groups, FillOK(g), fill[g].todo # <<>>
    PROVE  /\ Head(fill[g].todo) \in Messages /\ Head(fill[g].todo) \in Sent
           /\ scopeOf[Head(fill[g].todo)] = g
           /\ \A m \in Messages : m < Head(fill[g].todo) /\ scopeOf[m] = g => Settled(m)
<1>1. PICK q : q = fill[g].todo OBVIOUS
<1>2. q \in Seq(Messages) /\ Head(q) = q[1] /\ 1 \in 1..Len(q) BY <1>1 DEF IngressTypeOK
<1>3. Head(q) \in Messages /\ Head(q) \in Sent BY <1>1, <1>2, ListedIsSent
<1>4. scopeOf[Head(q)] = g BY <1>1, <1>2 DEF FillOK
<1>5. \A m \in Messages : m < q[1] /\ scopeOf[m] = g => Settled(m) \/ \E j \in 1..(1 - 1) : q[j] = m
  BY <1>1, <1>2 DEF FillOK
<1>6. 1..(1 - 1) = {} OBVIOUS
<1> QED BY <1>1, <1>2, <1>3, <1>4, <1>5, <1>6

(* What the history returns and the table does not hold, oldest first: an  *)
(* older message is stored, taken back, or too old.                        *)
LEMMA ListingIsOK ==
    ASSUME IngressTypeOK, Grows, UNCHANGED <<platformVars, facts, failed>>, NEW g \in Groups, ListHistory(g),
           FillOK(g)
    PROVE  FillOK(g)' /\ fill'[g].todo \in Seq(Messages)
<1>0. PICK gone \in SUBSET (History(g) \cap recalled) :
        \E todo \in OldestFirst({m \in Newest(History(g) \ gone) : ~Stored(m)}) :
            SetFill(g, "listed", todo)
  BY DEF ListHistory
<1>1. PICK todo \in OldestFirst({m \in Newest(History(g) \ gone) : ~Stored(m)}) :
           SetFill(g, "listed", todo)
  BY <1>0
<1> DEFINE listed == {m \in Newest(History(g) \ gone) : ~Stored(m)}
           N == Cardinality(listed)
<1>2. listed \subseteq History(g) /\ History(g) \subseteq Messages BY DEF Newest, History, Sent
<1>3. IsFiniteSet(Messages) BY FS_Interval, IngressAssumption DEF Messages
<1>4. IsFiniteSet(listed) /\ N \in Nat BY <1>2, <1>3, FS_Subset, FS_CardinalityType
<1>5. /\ todo \in [1..N -> listed] /\ ToSet(todo) = listed
      /\ \A i, j \in 1..N : i < j => todo[i] < todo[j]
  BY DEF OldestFirst
<1>6. todo \in Seq(Messages) /\ Len(todo) = N
  <2> HIDE DEF listed, N
  <2> QED BY <1>2, <1>4, <1>5
<1>7. \A m \in listed : \E i \in 1..N : todo[i] = m
  <2> HIDE DEF listed, N
  <2> QED BY <1>5 DEF ToSet
<1>8. ASSUME NEW m \in Messages, NEW n \in listed, m < n, scopeOf[m] = g, m \notin listed
      PROVE  Settled(m)
  <2>1. n \in Sent BY <1>2 DEF History
  <2>2. m \in History(g)
    <3>1. g # NoScope BY ScopeAssumption
    <3> QED BY <1>8, <3>1 DEF History, Sent
  <2>3. CASE m \in gone BY <2>3 DEF Settled, Excused
  <2>4. CASE m \notin gone /\ ~Stored(m)
    <3>1. m \notin Newest(History(g) \ gone) BY <1>8, <2>4
    <3>2. ~(Cardinality({k \in History(g) \ gone : k > m}) < BackfillCount)
      BY <2>2, <2>4, <3>1 DEF Newest
    <3>3. {k \in History(g) \ gone : k > m} \subseteq Later(m) BY <1>8 DEF Later
    <3>4. IsFiniteSet(Later(m)) BY <1>3, FS_Subset DEF Later, History, Sent
    <3>5. /\ Cardinality({k \in History(g) \ gone : k > m}) <= Cardinality(Later(m))
          /\ Cardinality({k \in History(g) \ gone : k > m}) \in Nat /\ Cardinality(Later(m)) \in Nat
      BY <3>3, <3>4, FS_Subset, FS_CardinalityType
    <3>6. Cardinality(Later(m)) >= BackfillCount BY <3>2, <3>5, IngressAssumption
    <3> QED BY <3>6 DEF Settled, Excused
  <2>5. CASE Stored(m) BY <2>5 DEF Settled
  <2> QED BY <2>3, <2>4, <2>5
<1>9. \A m \in Messages : Settled(m) => Settled(m)'
  BY DEF Settled, Excused, Stored, Later, History, Sent, platformVars
<1>10. ASSUME NEW i \in 1..N, NEW m \in Messages, m < todo[i], scopeOf[m] = g
       PROVE  Settled(m)' \/ \E j \in 1..(i - 1) : todo[j] = m
  <2> HIDE DEF listed, N
  <2>1. CASE m \notin listed BY <1>5, <1>8, <1>9, <1>10, <2>1
  <2>2. CASE m \in listed
    <3>1. PICK j \in 1..N : todo[j] = m BY <1>7, <2>2
    <3>2. todo[i] \in Messages /\ todo[j] \in Messages BY <1>2, <1>5
    <3>3. j # i /\ ~(i < j) BY <1>5, <1>10, <3>1, <3>2 DEF Messages
    <3>4. j \in 1..(i - 1) BY <1>4, <3>3
    <3> QED BY <3>1, <3>4
  <2> QED BY <2>1, <2>2
<1>11. \A i \in 1..N : scopeOf[todo[i]] = g
  <2>1. \A m \in listed : scopeOf[m] = g BY <1>2 DEF History
  <2> HIDE DEF listed, N
  <2> QED BY <1>5, <2>1
<1> HIDE DEF listed, N
<1>12. /\ fill'[g].todo = todo /\ (fill'[g].step \in {"idle", "due"} <=> todo = <<>>)
  BY <1>1 DEF SetFill, NoFill, IngressTypeOK
<1>13. scopeOf' = scopeOf BY DEF platformVars
<1> QED BY <1>4, <1>5, <1>6, <1>10, <1>11, <1>12, <1>13 DEF FillOK

(* Messages whose backfill goes on after its source: nothing unsettled is  *)
(* older.                                                                  *)
LEMMA StraysStay ==
    ASSUME IngressTypeOK, StraysOK, Grows, NEW n \in Messages,
           strays' \subseteq strays \cup {n},
           n \in strays' =>
              n \in Sent /\ \A m \in Messages : m < n /\ scopeOf[m] = scopeOf[n] => Settled(m)
    PROVE  StraysOK' /\ strays' \subseteq Messages
<1>1. ASSUME NEW k \in strays'
      PROVE  k \in Sent' /\ \A m \in Messages : m < k /\ scopeOf'[m] = scopeOf'[k] => Settled(m)'
  <2>1. k \in Messages /\ k \in Sent /\ \A m \in Messages : m < k /\ scopeOf[m] = scopeOf[k] => Settled(m)
    BY <1>1 DEF StraysOK, IngressTypeOK
  <2>2. k \in Sent' BY <2>1, SentStays
  <2>3. ASSUME NEW m \in Messages, m < k, scopeOf'[m] = scopeOf'[k] PROVE Settled(m)'
    <3>1. m \in Sent /\ scopeOf[m] = scopeOf[k] BY <2>1, <2>3, SentStays DEF Messages
    <3> QED BY <2>1, <2>3, <3>1, SettledStays
  <2> QED BY <2>2, <2>3
<1> QED BY <1>1 DEF StraysOK, IngressTypeOK

-----------------------------------------------------------------------------
(* Every step keeps the invariant.                                         *)

(* A message is numbered behind all that were sent, and heard once.        *)
LEMMA MessageIsHeard ==
    ASSUME IngressInd, NEW s \in Scopes, NEW own \in BOOLEAN, PlatformMessage(s, own)
    PROVE  IngressInd'
<1>1. PICK m \in Messages : /\ Sent = 1..(m - 1)
                            /\ scopeOf' = [scopeOf EXCEPT ![m] = s]
                            /\ ownMessages' = IF own THEN ownMessages \cup {m} ELSE ownMessages
                            /\ Hear(s, Said(m))
  BY DEF PlatformMessage
<1>2. UNCHANGED <<recalled, fill, strays, facts, failed, unmatched>> BY DEF PlatformMessage
<1>3. IngressTypeOK /\ s # NoScope BY ScopeAssumption DEF IngressInd, Scopes
<1>4. \A k \in Messages : k \in Sent <=> k < m BY <1>1 DEF Messages
<1>5. /\ scopeOf' \in [Messages -> Scopes \cup {NoScope}] /\ scopeOf'[m] = s
      /\ \A k \in Messages : k # m => scopeOf'[k] = scopeOf[k]
  BY <1>1, <1>3 DEF IngressTypeOK
<1>6. \A k \in Messages : k \in Sent' <=> k <= m BY <1>3, <1>4, <1>5 DEF Sent, Messages
<1>7. Grows BY <1>1, <1>2, <1>4, <1>5 DEF Grows, Messages
<1>8. Said(m) \in Events /\ Said(m).msg = m /\ Said(m) # Recall(m) BY DEF Said, Recall, Events
<1>9. /\ chain' \in [Scopes -> Seq(Events)] /\ heard' \subseteq Events
      /\ ChainsOK' /\ HeardOK' /\ UnmatchedOK'
  BY <1>1, <1>2, <1>4, <1>5, <1>7, <1>8, HearStays DEF IngressInd, ChainInv
<1>10. \A k \in Messages : Said(k) \in heard' => Said(k) \in heard \/ k \notin Sent
  BY <1>1, <1>4 DEF Hear, Said, Messages
<1>11. FactsOK' /\ RowsInOrder' BY <1>2, <1>7, <1>10, FactsStay DEF IngressInd
<1>12. \A g \in Groups : FillOK(g)' BY <1>2, <1>7, FillStays DEF IngressInd
<1>13. StraysOK' BY <1>2, <1>7, StraysStay DEF IngressInd, StraysOK
<1>14. \A j \in Messages : j \in Sent' => \A k \in 1..j : k \in Sent'
  <2> SUFFICES ASSUME NEW j \in Messages, j \in Sent', NEW k \in 1..j PROVE k \in Sent' OBVIOUS
  <2>1. j <= m BY <1>6
  <2>2. j \in Nat /\ m \in Nat /\ MaxMessages \in Nat /\ j <= MaxMessages
    BY IngressAssumption DEF Messages
  <2>3. k \in Messages /\ k <= m BY <2>1, <2>2 DEF Messages
  <2> QED BY <1>6, <2>3
<1>15. IngressTypeOK' BY <1>2, <1>3, <1>5, <1>9, <1>14 DEF IngressTypeOK
<1> QED BY <1>9, <1>11, <1>12, <1>13, <1>15 DEF IngressInd

(* A recall is heard behind its message.                                   *)
LEMMA RecallIsHeard ==
    ASSUME IngressInd, NEW m \in Messages, PlatformRecall(m)
    PROVE  IngressInd'
<1>1. /\ m \in Sent /\ recalled' = recalled \cup {m} /\ Hear(scopeOf[m], Recall(m))
      /\ UNCHANGED <<scopeOf, ownMessages, fill, strays, facts, failed, unmatched>>
  BY DEF PlatformRecall
<1>2. Grows BY <1>1 DEF Grows
<1>3. scopeOf[m] \in Scopes BY <1>1 DEF IngressInd, IngressTypeOK, Sent
<1>4. Recall(m) \in Events /\ Recall(m).msg = m /\ \A k : Recall(m) # Said(k)
  BY DEF Said, Recall, Events
<1>5. /\ chain' \in [Scopes -> Seq(Events)] /\ heard' \subseteq Events
      /\ ChainsOK' /\ HeardOK' /\ UnmatchedOK'
  BY <1>1, <1>2, <1>3, <1>4, HearStays DEF IngressInd, ChainInv
<1>6. \A k \in Messages : Said(k) \in heard' => Said(k) \in heard BY <1>1, <1>4 DEF Hear
<1>7. FactsOK' /\ RowsInOrder' BY <1>1, <1>2, <1>6, FactsStay DEF IngressInd
<1>8. \A g \in Groups : FillOK(g)' BY <1>1, <1>2, FillStays DEF IngressInd
<1>9. StraysOK' BY <1>1, <1>2, StraysStay DEF IngressInd, StraysOK
<1>10. IngressTypeOK' BY <1>1, <1>5 DEF IngressInd, IngressTypeOK, Sent
<1> QED BY <1>5, <1>7, <1>8, <1>9, <1>10 DEF IngressInd

(* A job at the head of its chain ends: what it stores, if anything, is    *)
(* next in order.                                                          *)
LEMMA JobEnds ==
    ASSUME IngressInd, NEW s \in Scopes, chain[s] # <<>>, NextJob(s),
           facts' = facts \/ (facts' = Appended(Head(chain[s]))
                              /\ (Head(chain[s]).kind = "recall" => Stored(Current(s)))),
           failed \subseteq failed',
           Head(chain[s]).kind = "message" =>
              Head(chain[s]) \in ToSet(facts') \/ Current(s) \in failed' \cup ownMessages,
           \/ unmatched' = unmatched
           \/ Head(chain[s]).kind = "recall" /\ ~Stored(Current(s))
              /\ unmatched' = unmatched \cup {Current(s)}
    PROVE  IngressInd'
<1>0. PICK job \in Messages : job = Current(s) BY HeadIsNext DEF IngressInd, ChainInv
<1>1. PICK e \in Events : e = Head(chain[s]) BY HeadIsNext DEF IngressInd, ChainInv
<1>2. /\ e.msg = job /\ job \in Sent /\ scopeOf[job] = s
      /\ e.kind = "message" => e = Said(job)
      /\ e.kind = "recall" => e = Recall(job)
      /\ \A m \in Messages : scopeOf[m] = s /\ Said(m) \in heard /\ e # Said(m) /\ m <= job =>
            Stored(m) \/ m \in failed \cup ownMessages
  BY <1>0, <1>1, HeadIsNext DEF IngressInd, ChainInv, Current
<1>3. UNCHANGED <<platformVars, fill, strays, heard>> BY DEF NextJob
<1>4. e.kind = "message" \/ e.kind = "recall" BY DEF Events
<1>5. Grows /\ FactsOK' /\ RowsInOrder'
  <2>1. CASE facts' = facts
    <3>1. Grows BY <1>3, <2>1 DEF Grows, platformVars
    <3> QED BY <1>3, <2>1, <3>1, FactsStay DEF IngressInd
  <2>2. CASE facts' = Appended(e) /\ (e.kind = "recall" => Stored(job))
    <3>1. e = Said(job) \/ (e = Recall(job) /\ Stored(job)) BY <1>2, <1>4, <2>2
    <3>2. ASSUME NEW m \in Messages, m < job, scopeOf[m] = s, Said(m) \in heard, e = Said(job)
          PROVE  Settled(m)
      <4>1. e # Said(m) /\ m <= job BY <3>2 DEF Said, Messages
      <4> QED BY <1>2, <3>2, <4>1 DEF Settled, Excused
    <3> QED BY <1>2, <1>3, <2>2, <3>1, <3>2, FactsGrow DEF IngressInd
  <2> QED BY <1>0, <1>1, <2>1, <2>2
<1>6. unmatched' \subseteq Messages BY <1>0 DEF IngressInd, IngressTypeOK
<1>7. e.kind = "message" => Stored(job)' \/ job \in failed' \cup ownMessages
  BY <1>0, <1>1, <1>2 DEF Stored
<1>8. ASSUME NEW m \in unmatched' \ unmatched
      PROVE  m \in Sent /\ (Said(m) \notin heard \/ m \in failed \cup ownMessages)
  <2>1. m = job /\ e.kind = "recall" /\ ~Stored(m) BY <1>0, <1>1, <1>8
  <2>2. e # Said(m) BY <2>1 DEF Said
  <2> QED BY <1>2, <2>1, <2>2 DEF Messages
<1>9. chain' \in [Scopes -> Seq(Events)] /\ ChainsOK' /\ HeardOK' /\ UnmatchedOK'
  BY <1>0, <1>1, <1>5, <1>6, <1>7, <1>8, JobDone DEF IngressInd, ChainInv
<1>10. \A g \in Groups : FillOK(g)' BY <1>3, <1>5, FillStays DEF IngressInd
<1>11. StraysOK' BY <1>3, <1>5, StraysStay DEF IngressInd, StraysOK
<1>12. IngressTypeOK' BY <1>3, <1>6, <1>9 DEF IngressInd, IngressTypeOK, platformVars, Sent
<1> QED BY <1>5, <1>9, <1>10, <1>11, <1>12 DEF IngressInd

(* A chain works on its head: fetching, storing, failing, a recall that    *)
(* finds its message or not, and an insert tried again.                    *)
LEMMA ChainStepStays ==
    ASSUME IngressInd, NEW s \in Scopes,
           FetchMessage(s) \/ FetchFails(s) \/ UpsertMessage(s) \/ StoreRecall(s) \/ StoreErrs(s)
    PROVE  IngressInd'
<1>0. chain[s] # <<>> BY DEF FetchMessage, FetchFails, UpsertMessage, StoreRecall, StoreErrs, Working
<1>1. /\ Head(chain[s]) \in Events /\ Current(s) \in Messages /\ Current(s) \in Sent
      /\ scopeOf[Current(s)] = s
      /\ Head(chain[s]).kind = "message" => Head(chain[s]) = Said(Current(s))
      /\ Head(chain[s]).kind = "recall" => Head(chain[s]) = Recall(Current(s))
      /\ \A m \in Messages :
            scopeOf[m] = s /\ Said(m) \in heard /\ Head(chain[s]) # Said(m) /\ m <= Current(s) =>
               Stored(m) \/ m \in failed \cup ownMessages
  BY <1>0, HeadIsNext DEF IngressInd, ChainInv
<1>2. facts \in Seq(Events) BY DEF IngressInd, FactsOK
<1>3. \A e \in Events : facts' = Appended(e) => e \in ToSet(facts')
  BY RowsStay DEF IngressInd
<1>4. ASSUME UNCHANGED <<platformVars, chain, fill, strays, heard, unmatched>>, Grows, FactsOK', RowsInOrder'
      PROVE  IngressInd'
  <2>1. IngressTypeOK' BY <1>4 DEF IngressInd, IngressTypeOK, platformVars, Sent
  <2>2. \A g \in Groups : FillOK(g)' BY <1>4, FillStays DEF IngressInd
  <2>3. StraysOK' BY <1>1, <1>4, StraysStay DEF IngressInd, StraysOK
  <2>4. ChainInv' BY <1>4, <2>1, ChainsStay DEF IngressInd, ChainInv
  <2> QED BY <1>4, <2>1, <2>2, <2>3, <2>4 DEF IngressInd, ChainInv
<1>5. CASE FetchMessage(s)
  <2>1. CASE Current(s) \in ownMessages
    BY <1>0, <1>5, <2>1, JobEnds DEF FetchMessage, Working
  <2>2. CASE Current(s) \notin ownMessages
    <3>1. UNCHANGED <<platformVars, chain, fill, strays, heard, unmatched, facts, failed>>
      BY <1>5, <2>2 DEF FetchMessage
    <3>2. Grows BY <3>1 DEF Grows, platformVars
    <3>3. FactsOK' /\ RowsInOrder' BY <3>1, <3>2, FactsStay DEF IngressInd
    <3> QED BY <1>4, <3>1, <3>2, <3>3
  <2> QED BY <2>1, <2>2
<1>6. CASE FetchFails(s) BY <1>0, <1>6, JobEnds DEF FetchFails, Working
<1>7. CASE UpsertMessage(s)
  <2>1. Head(chain[s]).kind = "message" /\ NextJob(s) BY <1>7 DEF UpsertMessage, Working
  <2>2. facts' = Appended(Head(chain[s])) /\ Head(chain[s]) \in ToSet(facts')
    BY <1>1, <1>3, <1>7, <2>1 DEF UpsertMessage
  <2> QED BY <1>0, <1>7, <2>1, <2>2, JobEnds DEF UpsertMessage
<1>8. CASE StoreRecall(s)
  <2>1. Head(chain[s]).kind = "recall" /\ NextJob(s) BY <1>8 DEF StoreRecall, Working
  <2>2. CASE Stored(Current(s))
    <3>1. facts' = Appended(Head(chain[s])) /\ unmatched' = unmatched /\ failed' = failed
      BY <1>1, <1>8, <2>1, <2>2 DEF StoreRecall
    <3> QED BY <1>0, <2>1, <2>2, <3>1, JobEnds
  <2>3. CASE ~Stored(Current(s))
    <3>1. facts' = facts /\ unmatched' = unmatched \cup {Current(s)} /\ failed' = failed
      BY <1>8, <2>3 DEF StoreRecall
    <3> QED BY <1>0, <2>1, <2>3, <3>1, JobEnds
  <2> QED BY <2>2, <2>3
<1>9. CASE StoreErrs(s)
  <2>1. /\ facts' \in {facts, Appended(Head(chain[s]))} /\ unmatched' = unmatched
        /\ Head(chain[s]).kind = "recall" => Stored(Current(s))
    BY <1>9 DEF StoreErrs, Working
  <2>2. CASE NextJob(s) /\ failed' = failed \cup {Current(s)}
    BY <1>0, <2>1, <2>2, JobEnds
  <2>3. CASE UNCHANGED <<platformVars, chain, fill, strays, heard, failed>>
    <3>1. PICK e \in Events : e = Head(chain[s]) BY <1>1
    <3>2. /\ e.msg = Current(s) /\ e.msg \in Sent
          /\ e = Said(e.msg) \/ (e = Recall(e.msg) /\ Stored(e.msg))
      BY <1>1, <2>1, <3>1 DEF Current, Events
    <3>3. ASSUME NEW m \in Messages, m < e.msg, scopeOf[m] = scopeOf[e.msg], Said(m) \in heard,
                 e = Said(e.msg)
          PROVE  Settled(m)
      <4>1. e # Said(m) /\ m <= Current(s) BY <1>1, <3>2, <3>3 DEF Said, Messages
      <4> QED BY <1>1, <3>1, <3>2, <3>3, <4>1 DEF Settled, Excused
    <3>4. Grows /\ FactsOK' /\ RowsInOrder' BY <2>1, <2>3, <3>1, <3>2, <3>3, FactsGrow DEF IngressInd
    <3> QED BY <1>4, <2>1, <2>3, <3>4
  <2> QED BY <1>9, <2>2, <2>3 DEF StoreErrs
<1> QED BY <1>5, <1>6, <1>7, <1>8, <1>9

(* Steps beside the chains that store nothing or what comes next.          *)
LEMMA BesideChains ==
    ASSUME IngressInd, Grows, FactsOK', RowsInOrder',
           UNCHANGED <<platformVars, chain, heard, unmatched>>,
           fill' \in [Groups -> [step : {"idle", "due", "listed", "fetched"}, todo : Seq(Messages)]],
           strays' \subseteq Messages, \A g \in Groups : FillOK(g)', StraysOK'
    PROVE  IngressInd'
<1>1. IngressTypeOK' BY DEF IngressInd, IngressTypeOK, platformVars, Sent
<1>2. ChainInv' BY <1>1, ChainsStay DEF IngressInd, ChainInv
<1> QED BY <1>1, <1>2 DEF IngressInd, ChainInv

(* A group's backfill lists, fetches, stores, skips and ends.              *)
LEMMA FillStepStays ==
    ASSUME IngressInd, NEW g \in Groups,
           ListHistory(g) \/ FillFetches(g) \/ FillStores(g) \/ FillSkips(g) \/ FillEnds(g)
    PROVE  IngressInd'
<1> DEFINE Fills == [step : {"idle", "due", "listed", "fetched"}, todo : Seq(Messages)]
<1>0. IngressTypeOK /\ fill \in [Groups -> Fills] BY DEF IngressInd, IngressTypeOK
<1>1. UNCHANGED <<platformVars, chain, heard, unmatched>>
  BY DEF ListHistory, FillFetches, FillStores, FillSkips, FillEnds
<1>2. ASSUME UNCHANGED facts, failed \subseteq failed' PROVE Grows /\ FactsOK' /\ RowsInOrder'
  <2>1. Grows BY <1>1, <1>2 DEF Grows, platformVars
  <2> QED BY <1>1, <1>2, <2>1, FactsStay DEF IngressInd
<1>3. ASSUME Grows, UNCHANGED strays PROVE StraysOK' /\ strays' \subseteq Messages
  <2>1. UNCHANGED Sent BY <1>1 DEF Sent, platformVars
  <2>2. ASSUME NEW n \in strays, NEW m \in Messages, m < n, scopeOf[m] = scopeOf[n] PROVE Settled(m)'
    <3>1. n \in Messages /\ n \in Sent BY <2>2 DEF IngressInd, IngressTypeOK, StraysOK
    <3>2. m \in Sent /\ Settled(m)
      BY <1>0, <1>3, <2>2, <3>1, SentStays DEF IngressInd, StraysOK, Messages
    <3> QED BY <1>3, <3>2, SettledStays
  <2> QED BY <1>1, <1>3, <2>1, <2>2 DEF IngressInd, IngressTypeOK, StraysOK, platformVars
<1>4. ASSUME NEW where \in {"listed", "fetched"}, NEW todo \in Seq(Messages), SetFill(g, where, todo)
      PROVE  fill' \in [Groups -> Fills] /\ \A h \in Groups \ {g} : fill'[h] = fill[h]
  <2>1. (IF todo = <<>> THEN NoFill ELSE [step |-> where, todo |-> todo]) \in Fills
    BY <1>4 DEF NoFill
  <2> HIDE DEF Fills
  <2> QED BY <1>0, <1>4, <2>1 DEF SetFill
<1>5. ASSUME fill[g].todo # <<>>
      PROVE  Head(fill[g].todo) \in Messages /\ Tail(fill[g].todo) \in Seq(Messages)
  BY <1>0, <1>5
<1>6. ASSUME Grows, fill' \in [Groups -> Fills], \A h \in Groups \ {g} : fill'[h] = fill[h], FillOK(g)'
      PROVE  \A h \in Groups : FillOK(h)'
  BY <1>0, <1>6, FillStays DEF IngressInd
<1>7. fill[g].step \in {"listed", "fetched"} => fill[g].todo # <<>> BY DEF IngressInd, FillOK
<1>8. CASE ListHistory(g)
  <2>1. UNCHANGED <<facts, failed, strays>> BY <1>8 DEF ListHistory
  <2>2. Grows /\ FactsOK' /\ RowsInOrder' BY <1>2, <2>1
  <2>3. FillOK(g)' /\ fill'[g].todo \in Seq(Messages)
    BY <1>0, <1>1, <1>8, <2>1, <2>2, ListingIsOK DEF IngressInd
  <2>4. \E todo : SetFill(g, "listed", todo) BY <1>8 DEF ListHistory
  <2>5. PICK todo : SetFill(g, "listed", todo) BY <2>4
  <2>6. fill'[g].todo = todo BY <1>0, <2>5 DEF SetFill, NoFill
  <2>7. fill' \in [Groups -> Fills] /\ \A h \in Groups \ {g} : fill'[h] = fill[h]
    BY <1>4, <2>3, <2>5, <2>6
  <2> QED BY <1>1, <1>3, <1>6, <2>1, <2>2, <2>3, <2>7, BesideChains
<1>9. CASE FillFetches(g)
  <2>0. fill[g].todo # <<>> /\ UNCHANGED <<facts, failed, strays>> BY <1>7, <1>9 DEF FillFetches
  <2>1. Grows /\ FactsOK' /\ RowsInOrder' BY <1>2, <2>0
  <2>2. CASE Head(fill[g].todo) \in ownMessages
    <3>1. PICK n \in Messages : n = Head(fill[g].todo) BY <1>5, <2>0
    <3>2. SetFill(g, "listed", Tail(fill[g].todo)) BY <1>9, <2>2 DEF FillFetches
    <3>3. Settled(n)' BY <1>1, <2>2, <3>1 DEF Settled, Excused, platformVars
    <3>4. FillOK(g)' BY <1>0, <1>1, <2>0, <2>1, <3>1, <3>2, <3>3, FillGoesOn DEF IngressInd
    <3> QED BY <1>1, <1>3, <1>4, <1>5, <1>6, <2>0, <2>1, <3>2, <3>4, BesideChains
  <2>3. CASE Head(fill[g].todo) \notin ownMessages
    <3>1. PICK q \in Seq(Messages) : q = fill[g].todo BY <1>0
    <3>2. SetFill(g, "fetched", q) BY <1>9, <2>3, <3>1 DEF FillFetches
    <3>3. fill' \in [Groups -> Fills] /\ \A h \in Groups \ {g} : fill'[h] = fill[h] BY <1>4, <3>2
    <3>4. fill'[g].todo = q /\ fill'[g].step = "fetched" BY <1>0, <2>0, <3>1, <3>2 DEF SetFill
    <3>5. ASSUME NEW i \in 1..Len(q), NEW m \in Messages, m < q[i], scopeOf[m] = g
          PROVE  Settled(m)' \/ \E j \in 1..(i - 1) : q[j] = m
      <4>1. m \in Sent BY <1>0, <3>1, <3>5, ListedIsSent DEF IngressInd
      <4>2. Settled(m) \/ \E j \in 1..(i - 1) : q[j] = m BY <3>1, <3>5 DEF IngressInd, FillOK
      <4> QED BY <2>1, <4>1, <4>2, SettledStays
    <3>6. FillOK(g)
      BY DEF IngressInd
    <3>7. /\ \A i, j \in 1..Len(q) : i < j => q[i] < q[j]
          /\ \A i \in 1..Len(q) : scopeOf'[q[i]] = g
      BY <1>1, <3>1, <3>6 DEF FillOK, platformVars
    <3>8. \A i \in 1..Len(q), m \in Messages :
              m < q[i] /\ scopeOf'[m] = g => Settled(m)' \/ \E j \in 1..(i - 1) : q[j] = m
      BY <1>1, <3>5 DEF platformVars
    <3>9. FillOK(g)' BY <2>0, <3>1, <3>4, <3>7, <3>8 DEF FillOK
    <3> QED BY <1>1, <1>3, <1>6, <2>0, <2>1, <3>3, <3>9, BesideChains
  <2> QED BY <2>2, <2>3
<1>10. CASE FillStores(g)
  <2>0. /\ fill[g].todo # <<>> /\ UNCHANGED <<failed, strays>>
        /\ facts' = Appended(Said(Head(fill[g].todo)))
        /\ SetFill(g, "listed", Tail(fill[g].todo))
    BY <1>7, <1>10 DEF FillStores
  <2>1. PICK n \in Messages : n = Head(fill[g].todo) BY <1>5, <2>0
  <2>2. /\ n \in Sent /\ scopeOf[n] = g
        /\ \A m \in Messages : m < n /\ scopeOf[m] = g => Settled(m)
    BY <1>0, <2>0, <2>1, HeadOfFill DEF IngressInd
  <2>3. Said(n) \in Events /\ Said(n).msg = n BY DEF Said, Events
  <2>4. Grows /\ FactsOK' /\ RowsInOrder'
    BY <1>0, <1>1, <2>0, <2>1, <2>2, <2>3, FactsGrow DEF IngressInd
  <2>5. Said(n) \in ToSet(facts') BY <2>0, <2>1, <2>3, RowsStay DEF IngressInd
  <2>6. Settled(n)' BY <2>5 DEF Settled, Stored
  <2>7. FillOK(g)' BY <1>0, <1>1, <2>0, <2>1, <2>4, <2>6, FillGoesOn DEF IngressInd
  <2> QED BY <1>1, <1>3, <1>4, <1>5, <1>6, <2>0, <2>4, <2>7, BesideChains
<1>11. CASE FillSkips(g)
  <2>0. /\ fill[g].todo # <<>> /\ UNCHANGED <<facts, strays>>
        /\ failed' = failed \cup {Head(fill[g].todo)}
        /\ SetFill(g, "listed", Tail(fill[g].todo))
    BY <1>7, <1>11 DEF FillSkips
  <2>1. PICK n \in Messages : n = Head(fill[g].todo) BY <1>5, <2>0
  <2>2. Grows /\ FactsOK' /\ RowsInOrder' BY <1>2, <2>0
  <2>3. Settled(n)' BY <2>0, <2>1 DEF Settled, Excused
  <2>4. FillOK(g)' BY <1>0, <1>1, <2>0, <2>1, <2>2, <2>3, FillGoesOn DEF IngressInd
  <2> QED BY <1>1, <1>3, <1>4, <1>5, <1>6, <2>0, <2>2, <2>4, BesideChains
<1>12. CASE FillEnds(g)
  <2>0. /\ fill' = [fill EXCEPT ![g] = NoFill] /\ UNCHANGED facts /\ failed \subseteq failed'
        /\ strays' = IF fill[g].step = "fetched" THEN strays \cup {Head(fill[g].todo)} ELSE strays
    BY <1>12 DEF FillEnds
  <2>1. Grows /\ FactsOK' /\ RowsInOrder' BY <1>2, <2>0
  <2>2. NoFill \in Fills BY DEF NoFill
  <2>3. fill' \in [Groups -> Fills] /\ fill'[g] = NoFill /\ \A h \in Groups \ {g} : fill'[h] = fill[h]
    <3> HIDE DEF Fills
    <3> QED BY <1>0, <2>0, <2>2
  <2>4. FillOK(g)' BY <2>3 DEF FillOK, NoFill
  <2>5. CASE fill[g].step = "fetched"
    <3>1. fill[g].todo # <<>> BY <1>7, <2>5
    <3>2. PICK n \in Messages : n = Head(fill[g].todo) BY <1>5, <3>1
    <3>3. n \in Sent /\ scopeOf[n] = g /\ \A m \in Messages : m < n /\ scopeOf[m] = g => Settled(m)
      BY <1>0, <3>1, <3>2, HeadOfFill DEF IngressInd
    <3>4. StraysOK' /\ strays' \subseteq Messages
      BY <1>0, <2>0, <2>1, <2>5, <3>2, <3>3, StraysStay DEF IngressInd
    <3> QED BY <1>1, <1>6, <2>1, <2>3, <2>4, <3>4, BesideChains
  <2>6. CASE fill[g].step # "fetched"
    BY <1>1, <1>3, <1>6, <2>0, <2>1, <2>3, <2>4, <2>6, BesideChains
  <2> QED BY <2>5, <2>6
<1> QED BY <1>8, <1>9, <1>10, <1>11, <1>12

(* A message still in flight when its backfill ended is stored.            *)
LEMMA StrayIsStored ==
    ASSUME IngressInd, NEW n \in Messages, StrayStores(n)
    PROVE  IngressInd'
<1>1. /\ n \in strays /\ strays' = strays \ {n} /\ facts' = Appended(Said(n))
      /\ UNCHANGED <<platformVars, chain, fill, heard, failed, unmatched>>
  BY DEF StrayStores
<1>2. n \in Sent /\ \A m \in Messages : m < n /\ scopeOf[m] = scopeOf[n] => Settled(m)
  BY <1>1 DEF IngressInd, StraysOK
<1>3. Said(n) \in Events /\ Said(n).msg = n BY DEF Said, Events
<1>4. Grows /\ FactsOK' /\ RowsInOrder' BY <1>1, <1>2, <1>3, FactsGrow DEF IngressInd
<1>5. \A g \in Groups : FillOK(g)' BY <1>1, <1>4, FillStays DEF IngressInd
<1>6. StraysOK' /\ strays' \subseteq Messages BY <1>1, <1>2, <1>4, StraysStay DEF IngressInd
<1> QED BY <1>1, <1>4, <1>5, <1>6, BesideChains DEF IngressInd, IngressTypeOK

(* Connections come and go; a gateway that ends forgets all it was at.     *)
LEMMA GatewayStays ==
    ASSUME IngressInd, Connect \/ Disconnect \/ GatewayEnds \/ UNCHANGED ingressVars
    PROVE  IngressInd'
<1>0. UNCHANGED <<platformVars, facts, failed, unmatched>>
  BY DEF Connect, Disconnect, GatewayEnds, ingressVars
<1>1. Grows BY <1>0 DEF Grows, platformVars
<1>2. heard' \subseteq heard BY DEF Connect, Disconnect, GatewayEnds, ingressVars, gatewayVars
<1>3. FactsOK' /\ RowsInOrder' BY <1>0, <1>1, <1>2, FactsStay DEF IngressInd
<1>4. /\ strays' \subseteq strays
      /\ fill' = fill \/ fill' = BackfillDue \/ fill' = [g \in Groups |-> NoFill]
  BY DEF Connect, Disconnect, GatewayEnds, ingressVars, gatewayVars
<1>5. \A g \in Groups : FillOK(g)'
  <2> SUFFICES ASSUME NEW g \in Groups PROVE FillOK(g)' OBVIOUS
  <2>1. CASE fill' = fill BY <1>1, <2>1, FillStays DEF IngressInd
  <2>2. CASE fill' # fill
    <3>1. fill'[g].todo = <<>> /\ fill'[g].step \in {"idle", "due"}
      BY <1>4, <2>2 DEF BackfillDue, NoFill
    <3> QED BY <3>1 DEF FillOK
  <2> QED BY <2>1, <2>2
<1>6. fill' \in [Groups -> [step : {"idle", "due", "listed", "fetched"}, todo : Seq(Messages)]]
  <2>1. {NoFill, [step |-> "due", todo |-> <<>>]}
           \subseteq [step : {"idle", "due", "listed", "fetched"}, todo : Seq(Messages)]
    BY DEF NoFill
  <2> QED BY <1>4, <2>1 DEF IngressInd, IngressTypeOK, BackfillDue
<1>7. StraysOK' /\ strays' \subseteq Messages
  <2>1. ASSUME NEW n \in strays PROVE n \in Messages BY DEF IngressInd, IngressTypeOK
  <2>2. CASE strays = {} BY <1>4, <2>2 DEF StraysOK
  <2>3. CASE strays # {}
    <3>1. PICK n \in strays : TRUE BY <2>3
    <3> QED BY <1>1, <1>4, <2>1, <3>1, StraysStay DEF IngressInd, StraysOK
  <2> QED BY <2>2, <2>3
<1>8. CASE UNCHANGED <<chain, heard>> BY <1>0, <1>1, <1>3, <1>5, <1>6, <1>7, <1>8, BesideChains
<1>9. CASE GatewayEnds
  <2>1. chain' = [s \in Scopes |-> <<>>] /\ heard' = {} BY <1>9 DEF GatewayEnds
  <2>2. ChainsOK' BY <2>1 DEF ChainsOK, ChainInOrder
  <2>3. HeardOK' BY <2>1 DEF HeardOK
  <2>4. UnmatchedOK' BY <1>0, <2>1 DEF IngressInd, UnmatchedOK, Sent, platformVars
  <2>5. IngressTypeOK' BY <1>0, <1>6, <1>7, <2>1 DEF IngressInd, IngressTypeOK, Sent, platformVars
  <2> QED BY <1>3, <1>5, <1>7, <2>2, <2>3, <2>4, <2>5 DEF IngressInd
<1> QED BY <1>8, <1>9 DEF Connect, Disconnect, ingressVars, gatewayVars

(* For any conversations, history length, messages and faults: one row per *)
(* event, a recall behind its message and never dropped while the message  *)
(* was on its way, and what was heard is stored in the order it was sent   *)
(* unless it failed, is the bot's own, was taken back or is too old.       *)
THEOREM FactsKeepFollowing == IngressSpec => []FactsFollowEvents
<1>1. IngressInit => IngressInd
  <2> SUFFICES ASSUME IngressInit PROVE IngressInd OBVIOUS
  <2>1. Sent = {} BY DEF IngressInit, Sent
  <2>2. IngressTypeOK BY <2>1 DEF IngressInit, IngressTypeOK, NoFill
  <2>3. FactsOK BY DEF IngressInit, FactsOK, IsInjective, ToSet
  <2>4. RowsInOrder /\ HeardOK /\ UnmatchedOK /\ StraysOK
    BY DEF IngressInit, RowsInOrder, HeardOK, UnmatchedOK, StraysOK
  <2>5. ChainsOK BY DEF IngressInit, ChainsOK, ChainInOrder
  <2>6. \A g \in Groups : FillOK(g) BY DEF IngressInit, FillOK, NoFill
  <2> QED BY <2>2, <2>3, <2>4, <2>5, <2>6 DEF IngressInd
<1>2. IngressInd /\ [IngressNext]_ingressVars => IngressInd'
  BY MessageIsHeard, RecallIsHeard, ChainStepStays, FillStepStays, StrayIsStored, GatewayStays
     DEF IngressNext
<1>3. IngressInd => FactsFollowEvents
  <2> SUFFICES ASSUME IngressInd PROVE FactsFollowEvents OBVIOUS
  <2>1. IsInjective(facts) BY DEF IngressInd, FactsOK
  <2>2. ASSUME NEW m \in Messages
        PROVE  /\ Recall(m) \in ToSet(facts) => Stored(m) /\ Row(Said(m)) < Row(Recall(m))
               /\ m \in unmatched => Said(m) \notin heard \/ m \in failed \cup ownMessages
    BY DEF IngressInd, FactsOK, UnmatchedOK
  <2>3. ASSUME NEW m \in Messages, NEW n \in Messages,
               m < n /\ scopeOf[m] = scopeOf[n] /\ {Said(m), Said(n)} \subseteq heard,
               Stored(n) /\ m \notin failed \cup ownMessages \cup recalled,
               Cardinality({k \in History(scopeOf[m]) : k > m}) < BackfillCount
        PROVE  Stored(m) /\ Row(Said(m)) < Row(Said(n))
    <3>1. IsFiniteSet(Later(m))
      <4>1. IsFiniteSet(Messages) BY FS_Interval, IngressAssumption DEF Messages
      <4> QED BY <4>1, FS_Subset DEF Later, History, Sent
    <3>2. Cardinality(Later(m)) \in Nat BY <3>1, FS_CardinalityType
    <3>3. ~Excused(m) BY <2>3, <3>2, IngressAssumption DEF Excused, Later
    <3> QED BY <2>3, <3>3 DEF IngressInd, RowsInOrder
  <2> QED BY <2>1, <2>2, <2>3 DEF FactsFollowEvents
<1> QED BY <1>1, <1>2, <1>3, PTL DEF IngressSpec

-----------------------------------------------------------------------------
(* The model calls of a round: the inductive invariant.                    *)

InFlight == chatPhase \in {"request", "backoff"}

LlmTypeOK ==
    /\ chatPhase \in {"idle", "request", "backoff", "returned", "thrown", "accepted", "given_up"}
    /\ aModel \in Models /\ attempt \in Nat /\ sent \in [Models -> Nat]
    /\ records \in [{"succeeded", "failed", "aborted"} -> Nat]
    /\ chats \in Nat /\ continued \in Nat /\ escalated \in BOOLEAN /\ recovered \in BOOLEAN

(* The model asked has had its first request and its retries so far; the   *)
(* fallback is a model of its own.                                         *)
RequestsCounted ==
    /\ attempt <= MaxRetries /\ chatPhase = "backoff" => attempt < MaxRetries
    /\ chatPhase # "idle" => sent[aModel] = attempt + 1
    /\ \A m \in Models : sent[m] <= 1 + MaxRetries
    /\ aModel = "primary" => sent["fallback"] = 0
    /\ aModel = "fallback" => HasFallback

(* One chat with the output budget the round began with and one with the   *)
(* larger one, again for every continuation and for the recovery.          *)
ChatsCounted ==
    /\ chatPhase = "idle" => chats = 0
    /\ continued <= MaxContinuations
    /\ chats <= 2 * (1 + continued + (IF recovered THEN 1 ELSE 0)) - (IF escalated THEN 0 ELSE 1)

RecordsCounted ==
    records["succeeded"] + records["failed"] + records["aborted"] = IF InFlight THEN chats - 1 ELSE chats

LlmInd ==
    /\ LlmTypeOK /\ RequestsCounted /\ ChatsCounted /\ RecordsCounted
    /\ \A r \in stagedReplies : r.calls = "none"

(* A record more of whichever status is one more in all.                   *)
LEMMA OneMoreRecord ==
    ASSUME LlmTypeOK, NEW status \in {"succeeded", "failed", "aborted"}, Recorded(status)
    PROVE  /\ records' \in [{"succeeded", "failed", "aborted"} -> Nat]
           /\ records'["succeeded"] + records'["failed"] + records'["aborted"]
                 = records["succeeded"] + records["failed"] + records["aborted"] + 1
BY DEF LlmTypeOK, Recorded

(* A chat that throws is recorded, or goes on with the fallback.           *)
LEMMA ThrowStays ==
    ASSUME LlmInd, InFlight, NEW kind, ChatThrows(kind)
    PROVE  LlmInd'
<1>1. CASE FallsBack(kind) /\ ~cancelled
  BY <1>1, RetryAssumption
     DEF LlmInd, LlmTypeOK, InFlight, ChatThrows, FallsBack, Models, roundVars, RequestsCounted,
         ChatsCounted, RecordsCounted
<1>2. CASE ~(FallsBack(kind) /\ ~cancelled)
  <2>1. PICK status \in {"failed", "aborted"} : Recorded(status) BY <1>2 DEF ChatThrows
  <2>2. /\ chatPhase' = "thrown" /\ UNCHANGED <<aModel, attempt, sent, roundVars>>
    BY <1>2 DEF ChatThrows
  <2>3. LlmTypeOK' BY <2>1, <2>2, OneMoreRecord DEF LlmInd, LlmTypeOK, roundVars
  <2>4. RequestsCounted' /\ ChatsCounted'
    BY <2>2 DEF LlmInd, InFlight, roundVars, RequestsCounted, ChatsCounted
  <2>5. RecordsCounted'
    BY <2>1, <2>2, OneMoreRecord DEF LlmInd, LlmTypeOK, InFlight, roundVars, RecordsCounted
  <2> QED BY <2>2, <2>3, <2>4, <2>5 DEF LlmInd, roundVars
<1> QED BY <1>1, <1>2

(* A further chat begins after one that ended, with requests of its own,   *)
(* where the round has a chat left.                                        *)
LEMMA ChatBegins ==
    ASSUME LlmInd, ~InFlight, NextChat,
           escalated' \in BOOLEAN, recovered' \in BOOLEAN, continued' \in Nat,
           continued' <= MaxContinuations, \A r \in stagedReplies' : r.calls = "none",
           chats + 1 <= 2 * (1 + continued' + (IF recovered' THEN 1 ELSE 0))
                        - (IF escalated' THEN 0 ELSE 1)
    PROVE  LlmInd'
<1>1. /\ chatPhase' = "request" /\ aModel' = "primary" /\ attempt' = 0
      /\ sent' \in [Models -> Nat] /\ sent'["primary"] = 1 /\ sent'["fallback"] = 0
      /\ chats' = chats + 1 /\ UNCHANGED records
  BY DEF NextChat, Models
<1>2. LlmTypeOK' BY <1>1 DEF LlmInd, LlmTypeOK, Models
<1>3. RequestsCounted' BY <1>1, RetryAssumption DEF RequestsCounted, Models
<1>4. ChatsCounted' BY <1>1 DEF ChatsCounted
<1>5. RecordsCounted' BY <1>1 DEF RecordsCounted, InFlight, LlmInd, LlmTypeOK
<1> QED BY <1>2, <1>3, <1>4, <1>5 DEF LlmInd

(* A round that ends counts nothing more.                                  *)
LEMMA EndStays ==
    ASSUME LlmInd, ~InFlight, chatPhase # "idle", chatPhase' \in {"accepted", "given_up"},
           UNCHANGED <<aModel, attempt, sent, records, roundVars>>
    PROVE  LlmInd'
BY DEF LlmInd, LlmTypeOK, InFlight, roundVars, RequestsCounted, ChatsCounted, RecordsCounted

(* For any number of retries and continuations, with and without a         *)
(* fallback, whatever the provider answers: the requests of a chat and the *)
(* chats of a round are bounded, every chat leaves one record, and what is *)
(* continued holds no tool call.                                           *)
THEOREM RecoveryStaysBounded == LlmSpec => []RecoveryIsBounded
<1>1. LlmInit => LlmInd
  <2> SUFFICES ASSUME LlmInit PROVE LlmInd OBVIOUS
  <2>1. LlmTypeOK BY DEF LlmInit, LlmTypeOK, Models
  <2>2. RequestsCounted BY RetryAssumption DEF LlmInit, RequestsCounted, Models
  <2>3. ChatsCounted BY RetryAssumption DEF LlmInit, ChatsCounted
  <2>4. RecordsCounted BY DEF LlmInit, RecordsCounted, InFlight
  <2> QED BY <2>1, <2>2, <2>3, <2>4 DEF LlmInit, LlmInd
<1>2. LlmInd /\ [LlmNext]_llmVars => LlmInd'
  <2> SUFFICES ASSUME LlmInd, [LlmNext]_llmVars PROVE LlmInd' OBVIOUS
  <2>1. CASE BeginRound
    BY <2>1, ChatBegins DEF BeginRound, LlmInd, LlmTypeOK, ChatsCounted, InFlight
  <2>2. ASSUME NEW a \in Answers, AnswerArrives(a) PROVE LlmInd'
    <3>1. Recorded("succeeded") BY <2>2 DEF AnswerArrives
    <3> QED
      BY <2>2, <3>1, OneMoreRecord
         DEF AnswerArrives, LlmInd, LlmTypeOK, InFlight, roundVars, RequestsCounted, ChatsCounted,
             RecordsCounted
  <2>3. ASSUME NEW kind \in Failures, RequestFails(kind) PROVE LlmInd'
    <3>1. CASE Retries(kind) /\ ~cancelled
      BY <2>3, <3>1 DEF RequestFails, Retries, LlmInd, LlmTypeOK, InFlight, roundVars, RequestsCounted,
           ChatsCounted, RecordsCounted
    <3>2. CASE ~(Retries(kind) /\ ~cancelled)
      BY <2>3, <3>2, ThrowStays DEF RequestFails, InFlight
    <3> QED BY <3>1, <3>2
  <2>4. CASE BackoffEnds
    <3>1. /\ chatPhase = "backoff" /\ chatPhase' = "request" /\ attempt' = attempt + 1
          /\ sent' = [sent EXCEPT ![aModel] = @ + 1]
          /\ UNCHANGED <<aModel, records, roundVars>>
      BY <2>4 DEF BackoffEnds
    <3>2. LlmTypeOK' BY <3>1 DEF LlmInd, LlmTypeOK, roundVars
    <3>3. sent'[aModel] = attempt + 2 /\ \A m \in Models \ {aModel} : sent'[m] = sent[m]
      BY <3>1 DEF LlmInd, LlmTypeOK, RequestsCounted
    <3>4. RequestsCounted'
      BY <3>1, <3>3, RetryAssumption DEF LlmInd, LlmTypeOK, RequestsCounted, Models
    <3>5. ChatsCounted' /\ RecordsCounted'
      BY <3>1 DEF LlmInd, InFlight, roundVars, ChatsCounted, RecordsCounted
    <3> QED BY <3>1, <3>2, <3>4, <3>5 DEF LlmInd, roundVars
  <2>5. CASE Cancel
    BY <2>5 DEF Cancel, LlmInd, LlmTypeOK, InFlight, roundVars, RequestsCounted, ChatsCounted,
         RecordsCounted
  <2>6. CASE BackoffAborted BY <2>6, ThrowStays DEF BackoffAborted, InFlight
  <2>7. CASE Accept BY <2>7, EndStays DEF Accept, InFlight
  <2>8. CASE EscalateBudget
    BY <2>8, ChatBegins DEF EscalateBudget, LlmInd, LlmTypeOK, ChatsCounted, InFlight
  <2>9. CASE ContinueOutput
    <3>1. CASE CanContinue
      <4>1. \A r \in stagedReplies' : r.calls = "none"
        BY <2>9, <3>1 DEF ContinueOutput, CanContinue, LlmInd
      <4>2. NextChat /\ ~InFlight BY <2>9, <3>1 DEF ContinueOutput, InFlight
      <4>3. continued' = continued + 1 /\ ~escalated' /\ escalated' \in BOOLEAN /\ recovered' = recovered
        BY <2>9, <3>1 DEF ContinueOutput
      <4>4. escalated /\ continued < MaxContinuations BY <2>9, <3>1 DEF ContinueOutput, CanContinue
      <4> QED
        BY <4>1, <4>2, <4>3, <4>4, RetryAssumption, ChatBegins DEF LlmInd, LlmTypeOK, ChatsCounted
    <3>2. CASE ~CanContinue BY <2>9, <3>2, EndStays DEF ContinueOutput, GivesUp, InFlight
    <3> QED BY <3>1, <3>2
  <2>10. CASE RecoverOverflow
    <3>1. /\ NextChat /\ ~InFlight /\ ~recovered /\ recovered' = TRUE /\ escalated' = FALSE
          /\ UNCHANGED <<continued, stagedReplies>>
      BY <2>10 DEF RecoverOverflow, Overflowed, InFlight
    <3>2. chats <= 2 * (1 + continued) BY <3>1 DEF LlmInd, LlmTypeOK, ChatsCounted
    <3>3. chats + 1 <= 2 * (1 + continued' + 1) - 1 BY <3>1, <3>2 DEF LlmInd, LlmTypeOK
    <3> QED BY <3>1, <3>3, ChatBegins DEF LlmInd, LlmTypeOK, ChatsCounted
  <2>11. CASE GiveUp BY <2>11, EndStays DEF GiveUp, GivesUp, Unrecovered, Overflowed, InFlight
  <2>12. CASE UNCHANGED llmVars
    BY <2>12 DEF llmVars, LlmInd, LlmTypeOK, InFlight, RequestsCounted, ChatsCounted, RecordsCounted
  <2> QED
    BY <2>1, <2>2, <2>3, <2>4, <2>5, <2>6, <2>7, <2>8, <2>9, <2>10, <2>11, <2>12 DEF LlmNext
<1>3. LlmInd => RecoveryIsBounded
  <2> SUFFICES ASSUME LlmInd PROVE RecoveryIsBounded OBVIOUS
  <2>1. chats <= 2 * (1 + continued + (IF recovered THEN 1 ELSE 0))
    BY DEF LlmInd, LlmTypeOK, ChatsCounted
  <2>2. sent["fallback"] > 0 => HasFallback BY DEF LlmInd, LlmTypeOK, RequestsCounted, Models
  <2> QED
    BY <2>1, <2>2
       DEF LlmInd, InFlight, RequestsCounted, ChatsCounted, RecordsCounted, RecoveryIsBounded
<1> QED BY <1>1, <1>2, <1>3, PTL DEF LlmSpec

-----------------------------------------------------------------------------
(* Paging: sizes.                                                          *)

(* Extremes of sets of numbers.                                            *)

(* A nonempty set of natural numbers has a least element, which is its     *)
(* minimum.                                                                *)
LEMMA MinIsLeast ==
    ASSUME NEW S, S \subseteq Nat, S # {}
    PROVE  Min(S) \in S /\ \A y \in S : Min(S) <= y
<1> DEFINE R == OpToRel(<, Nat)
<1>1. PICK x \in S : \A y \in S : <<y, x>> \notin R
  <2>1. IsWellFoundedOn(R, Nat) BY NatLessThanWellFounded
  <2> HIDE DEF R
  <2> QED BY <2>1, WFMin, Zenon
<1>2. \A y \in S : ~(y < x) BY <1>1 DEF OpToRel
<1>3. \A y \in S : x <= y BY <1>2
<1> QED BY <1>3 DEF Min

(* A bounded one has a greatest element, which is its maximum.             *)
LEMMA MaxIsGreatest ==
    ASSUME NEW N \in Nat, NEW S, S \subseteq 0..N, S # {}
    PROVE  Max(S) \in S /\ \A y \in S : y <= Max(S)
<1> DEFINE U == {k \in Nat : \A y \in S : y <= k}
           n == Min(U)
<1>1. U \subseteq Nat /\ N \in U OBVIOUS
<1>2. n \in U /\ \A k \in U : n <= k
  <2> HIDE DEF U
  <2> QED BY <1>1, MinIsLeast
<1> HIDE DEF n
<1>3. n \in S
  <2> SUFFICES ASSUME n \notin S PROVE FALSE OBVIOUS
  <2>1. \A y \in S : y <= n - 1 BY <1>2
  <2>2. PICK y \in S : TRUE OBVIOUS
  <2>3. n - 1 \in U BY <1>2, <2>1, <2>2
  <2> QED BY <1>2, <2>3
<1> QED BY <1>2, <1>3 DEF Max

(* The sum of the first n sizes is what its recursion says.                *)
LEMMA ThroughIs ==
    ASSUME NEW rows \in Seq(Nat), NEW N, N = Len(rows)
    PROVE  /\ Through(rows, 0) = 0
           /\ \A n \in 0..N : Through(rows, n) \in Nat
           /\ \A n \in 1..N : Through(rows, n) = Through(rows, n - 1) + rows[n]
<1> DEFINE Sums(m, f) == \A k \in 0..m : f[k] = (IF k = 0 THEN 0 ELSE f[k - 1] + rows[k])
           sum == CHOOSE f : f = [k \in 0..N |-> IF k = 0 THEN 0 ELSE f[k - 1] + rows[k]]
           Bad == {m \in 0..N : ~\E f \in [0..m -> Nat] : Sums(m, f)}
<1>0. N \in Nat /\ \A k \in 1..N : rows[k] \in Nat BY LenProperties, ElementOfSeq
<1>1. Bad = {}
  <2> SUFFICES ASSUME Bad # {} PROVE FALSE OBVIOUS
  <2>1. PICK m \in Bad : \A y \in Bad : m <= y
    <3>1. Bad \subseteq Nat BY <1>0
    <3> HIDE DEF Bad
    <3> QED BY <3>1, MinIsLeast
  <2>2. CASE m = 0
    <3>1. [k \in 0..m |-> 0] \in [0..m -> Nat] /\ Sums(m, [k \in 0..m |-> 0]) BY <2>2
    <3> QED BY <2>1, <3>1
  <2>3. CASE m # 0
    <3>1. m - 1 \in 0..N /\ m - 1 \notin Bad /\ m \in 1..N
      <4>1. m \in 0..N BY <2>1
      <4> HIDE DEF Bad
      <4> QED BY <1>0, <2>1, <2>3, <4>1
    <3>2. PICK f \in [0..(m - 1) -> Nat] : Sums(m - 1, f)
      <4> HIDE DEF Sums
      <4> QED BY <3>1
    <3>3. PICK g : g = [k \in 0..m |-> IF k = m THEN f[m - 1] + rows[m] ELSE f[k]] OBVIOUS
    <3>4. \A k \in 0..m : k # m => k \in 0..(m - 1) /\ (k # 0 => k - 1 \in 0..(m - 1) /\ k - 1 # m)
      BY <3>1
    <3>5. g \in [0..m -> Nat] BY <1>0, <3>1, <3>3, <3>4
    <3>6. Sums(m, g)
      <4> SUFFICES ASSUME NEW k \in 0..m PROVE g[k] = (IF k = 0 THEN 0 ELSE g[k - 1] + rows[k])
        OBVIOUS
      <4>1. CASE k = m
        <5>1. g[m] = f[m - 1] + rows[m] /\ g[m - 1] = f[m - 1] BY <3>1, <3>3
        <5> QED BY <3>1, <4>1, <5>1
      <4>2. CASE k # m
        <5>1. g[k] = f[k] /\ (k # 0 => g[k - 1] = f[k - 1]) BY <3>1, <3>3, <3>4, <4>2
        <5> QED BY <3>2, <3>4, <4>2, <5>1
      <4> QED BY <4>1, <4>2
    <3> QED BY <2>1, <3>5, <3>6
  <2> QED BY <2>2, <2>3
<1>2. sum = [k \in 0..N |-> IF k = 0 THEN 0 ELSE sum[k - 1] + rows[k]]
  <2>1. PICK f \in [0..N -> Nat] : Sums(N, f)
    <3>1. N \in 0..N BY <1>0
    <3>2. N \notin Bad BY <1>1
    <3> HIDE DEF Sums
    <3> QED BY <3>1, <3>2
  <2>2. f = [k \in 0..N |-> IF k = 0 THEN 0 ELSE f[k - 1] + rows[k]] BY <2>1
  <2> QED BY <2>2
<1>3. \A n : Through(rows, n) = sum[n] BY DEF Through
<1> HIDE DEF sum
<1>4. sum[0] = 0 /\ \A n \in 1..N : sum[n] = sum[n - 1] + rows[n]
  <2>1. PICK s : s = sum OBVIOUS
  <2>2. \A n \in 0..N : s[n] = (IF n = 0 THEN 0 ELSE s[n - 1] + rows[n])
    <3>1. PICK t : t = [k \in 0..N |-> IF k = 0 THEN 0 ELSE s[k - 1] + rows[k]] OBVIOUS
    <3>2. s = t BY <1>2, <2>1, <3>1
    <3>3. \A n \in 0..N : t[n] = (IF n = 0 THEN 0 ELSE s[n - 1] + rows[n]) BY <3>1
    <3> QED BY <3>2, <3>3
  <2>3. 0 \in 0..N /\ \A n \in 1..N : n \in 0..N /\ n # 0 BY <1>0
  <2> QED BY <2>1, <2>2, <2>3
<1>5. \A n \in 0..N : sum[n] \in Nat
  <2> DEFINE Odd == {n \in 0..N : sum[n] \notin Nat}
  <2> SUFFICES ASSUME Odd # {} PROVE FALSE OBVIOUS
  <2>1. PICK m \in Odd : \A y \in Odd : m <= y
    <3>1. Odd \subseteq Nat BY <1>0
    <3> HIDE DEF Odd
    <3> QED BY <3>1, MinIsLeast
  <2>2. m # 0 BY <1>4, <2>1
  <2>3. m - 1 \in 0..N /\ m - 1 \notin Odd /\ m \in 1..N BY <1>0, <2>1, <2>2
  <2> QED BY <1>0, <1>4, <2>1, <2>3
<1> QED BY <1>3, <1>4, <1>5

(* A row more changes no sum of those before it.                           *)
LEMMA ThroughStays ==
    ASSUME NEW rows \in Seq(Nat), NEW size \in Nat, NEW n \in 0..Len(rows)
    PROVE  Through(Append(rows, size), n) = Through(rows, n)
<1>0. PICK more : more = Append(rows, size) OBVIOUS
<1>1. PICK N : N = Len(rows) OBVIOUS
<1>2. N \in Nat /\ more \in Seq(Nat) /\ Len(more) = N + 1 /\ \A k \in 1..N : more[k] = rows[k]
  BY <1>0, <1>1, LenProperties, AppendProperties
<1> DEFINE Odd == {k \in 0..N : Through(more, k) # Through(rows, k)}
<1> SUFFICES ASSUME Odd # {} PROVE FALSE BY <1>0, <1>1
<1>3. PICK m \in Odd : \A y \in Odd : m <= y
  <2>1. Odd \subseteq Nat BY <1>2
  <2> HIDE DEF Odd
  <2> QED BY <2>1, MinIsLeast
<1>4. m # 0 BY <1>2, <1>3, ThroughIs
<1>5. m - 1 \in 0..N /\ m - 1 \notin Odd /\ m \in 1..N /\ m \in 1..(N + 1) BY <1>2, <1>3, <1>4
<1>6. Through(rows, m) = Through(rows, m - 1) + rows[m] BY <1>1, <1>5, ThroughIs
<1>7. Through(more, m) = Through(more, m - 1) + more[m] BY <1>2, <1>5, ThroughIs
<1> QED BY <1>2, <1>3, <1>5, <1>6, <1>7

-----------------------------------------------------------------------------
(* Paging: the inductive invariant.                                        *)

(* A page lies within the mailbox and begins no later than the cursor; a    *)
(* committed one is behind the cursor.                                     *)
PageLies ==
    /\ inboxRows \in Seq(Sizes) /\ readCursor \in 0..Len(inboxRows)
    /\ lastPage \in [from : Nat, after : Nat, to : Nat, hasMore : BOOLEAN, pending : BOOLEAN]
    /\ lastPage.after <= readCursor
    /\ lastPage.from \in 1..(lastPage.after + 1)
    /\ lastPage.to \in lastPage.after..Len(inboxRows)
    /\ lastPage.pending = FALSE => lastPage.to <= readCursor

PagingInd == PageLies /\ CursorCoversShown

(* The sizes are numbers.                                                  *)
LEMMA SizesAreNumbers ==
    ASSUME inboxRows \in Seq(Sizes)
    PROVE  /\ inboxRows \in Seq(Nat) /\ Len(inboxRows) \in Nat
           /\ \A i \in 1..Len(inboxRows) : inboxRows[i] \in 1..OutputCap
<1>1. Sizes \subseteq Nat /\ Sizes \subseteq 1..OutputCap BY PagingAssumption
<1>2. \A i \in 1..Len(inboxRows) : inboxRows[i] \in Sizes BY ElementOfSeq
<1>3. Len(inboxRows) \in Nat BY LenProperties
<1>4. inboxRows \in Seq(Nat)
  <2>1. inboxRows = [i \in 1..Len(inboxRows) |-> inboxRows[i]] BY LenProperties
  <2>2. \A i \in 1..Len(inboxRows) : inboxRows[i] \in Nat BY <1>1, <1>2
  <2> QED BY <1>3, <2>1, <2>2, SeqDef
<1> QED BY <1>1, <1>2, <1>3, <1>4

(* A payload of nothing, and of one row, and the type of one's size.       *)
LEMMA SizeIs ==
    ASSUME inboxRows \in Seq(Sizes)
    PROVE  /\ \A n \in 0..Len(inboxRows) : SizeOf(n + 1, n) = 0
           /\ \A n \in 1..Len(inboxRows) : SizeOf(n, n) = inboxRows[n]
           /\ \A m, n \in 0..Len(inboxRows) : SizeOf(m + 1, n) \in Int
<1>1. PICK rows : rows = inboxRows OBVIOUS
<1>2. PICK N : N = Len(rows) OBVIOUS
<1>3. rows \in Seq(Nat) /\ N \in Nat /\ \A i \in 1..N : rows[i] \in Nat
  BY <1>1, <1>2, SizesAreNumbers
<1>4. /\ \A n \in 0..N : Through(rows, n) \in Nat
      /\ \A n \in 1..N : Through(rows, n) = Through(rows, n - 1) + rows[n]
  BY <1>2, <1>3, ThroughIs
<1>5. \A m, n \in Nat : SizeOf(m + 1, n) = Through(rows, n) - Through(rows, m)
  BY <1>1 DEF SizeOf
<1>6. ASSUME NEW n \in 1..N PROVE SizeOf(n, n) = rows[n]
  <2>1. n \in 0..N /\ n - 1 \in 0..N BY <1>3
  <2>2. SizeOf(n, n) = Through(rows, n) - Through(rows, n - 1) BY <1>1 DEF SizeOf
  <2> QED BY <1>3, <1>4, <2>1, <2>2
<1>7. ASSUME NEW m \in 0..N, NEW n \in 0..N PROVE SizeOf(m + 1, n) \in Int
  <2>1. m \in Nat /\ n \in Nat BY <1>3
  <2>2. Through(rows, m) \in Nat /\ Through(rows, n) \in Nat BY <1>4
  <2>3. SizeOf(m + 1, n) = Through(rows, n) - Through(rows, m) BY <1>5, <2>1
  <2> QED BY <2>2, <2>3
<1>8. ASSUME NEW n \in 0..N PROVE SizeOf(n + 1, n) = 0
  BY <1>3, <1>4, <1>5
<1> QED BY <1>1, <1>2, <1>6, <1>7, <1>8

(* A set of row numbers has a greatest and a least one.                    *)
LEMMA PageEnds ==
    ASSUME inboxRows \in Seq(Sizes), NEW after \in 0..Len(inboxRows), NEW last \in after..Len(inboxRows),
           NEW first \in 1..(after + 1),
           NEW to, to = LastFitting(after, last), NEW from, from = FirstFitting(first, after, to)
    PROVE  /\ to \in after..last /\ from \in first..(after + 1)
           /\ last > after => to > after
           /\ SizeOf(after + 1, to) + SizeOf(from, after) <= OutputCap
<1> USE PagingAssumption
<1>0. PICK N : N = Len(inboxRows) OBVIOUS
<1>1. N \in Nat /\ after \in Nat /\ last \in Nat /\ first \in Nat /\ \A i \in 1..N : inboxRows[i] \in 1..OutputCap
  BY <1>0, SizesAreNumbers
<1> DEFINE Page == {n \in after..last : SizeOf(after + 1, n) <= OutputCap}
<1>2. after \in Page BY <1>0, <1>1, SizeIs
<1>3. Max(Page) \in Page /\ \A y \in Page : y <= Max(Page)
  <2>1. Page \subseteq 0..N BY <1>0, <1>1
  <2> HIDE DEF Page
  <2> QED BY <1>1, <1>2, <2>1, MaxIsGreatest
<1>4. to \in Page /\ \A y \in Page : y <= to BY <1>3 DEF LastFitting
<1>5. last > after => to > after
  <2> SUFFICES ASSUME last > after PROVE to > after OBVIOUS
  <2>1. after + 1 \in 1..N BY <1>0, <1>1
  <2>2. SizeOf(after + 1, after + 1) = inboxRows[after + 1] BY <1>0, <2>1, SizeIs
  <2>3. inboxRows[after + 1] <= OutputCap BY <1>1, <2>1
  <2>4. after + 1 \in Page BY <1>1, <2>2, <2>3
  <2> HIDE DEF Page
  <2>5. to \in Int BY <1>1, <1>4 DEF Page
  <2> QED BY <1>1, <1>4, <2>4, <2>5
<1>6. PICK used \in Int : used = SizeOf(after + 1, to)
  <2>1. after \in 0..N /\ to \in 0..N BY <1>0, <1>1, <1>4
  <2>2. SizeOf(after + 1, to) \in Int BY <1>0, <2>1, SizeIs
  <2> QED BY <2>2
<1> DEFINE Context == {n \in first..after + 1 : SizeOf(n, after) <= OutputCap - used}
<1>7. after + 1 \in Context
  <2>1. SizeOf(after + 1, after) = 0 BY <1>0, SizeIs
  <2>2. used <= OutputCap BY <1>4, <1>6
  <2> QED BY <1>1, <1>6, <2>1, <2>2
<1>8. from \in Context
  <2>1. Context \subseteq Nat /\ Context # {} BY <1>1, <1>7
  <2>2. from = Min(Context) BY <1>6 DEF FirstFitting
  <2> HIDE DEF Context
  <2> QED BY <2>1, <2>2, MinIsLeast
<1>9. SizeOf(from, after) \in Int
  <2>1. from \in 1..(after + 1) BY <1>1, <1>8
  <2>2. PICK m \in 0..N : from = m + 1
    <3>1. from - 1 \in 0..N /\ from = (from - 1) + 1 BY <1>0, <1>1, <2>1
    <3> QED BY <3>1
  <2> QED BY <1>0, <2>2, SizeIs
<1>10. SizeOf(after + 1, to) + SizeOf(from, after) <= OutputCap
  <2>1. PICK more \in Int : more = SizeOf(from, after) BY <1>9
  <2>2. more <= OutputCap - used BY <1>8, <2>1
  <2>3. used + more <= OutputCap BY <1>6, <2>1, <2>2
  <2> QED BY <1>6, <2>1, <2>3
<1>11. to \in after..last /\ from \in first..(after + 1) BY <1>4, <1>8
<1> QED BY <1>5, <1>10, <1>11

(* A page read from at most the cursor keeps the invariant.                *)
LEMMA PageIsRead ==
    ASSUME PagingInd, NEW context \in 0..ContextMax, NEW after \in 0..readCursor,
           lastPage' = ReadPage(after, context), UNCHANGED <<inboxRows, readCursor, rendered>>
    PROVE  PagingInd'
<1> USE PagingAssumption DEF PagingInd, PageLies
<1>1. PICK N : N = Len(inboxRows) OBVIOUS
<1>2. N \in Nat /\ readCursor \in 0..N /\ after \in 0..N BY <1>1, SizesAreNumbers
<1>3. PICK queried : queried = Lesser(N, after + PageLimit + 1) OBVIOUS
<1>4. PICK last : last = Lesser(queried, after + PageLimit) OBVIOUS
<1>5. /\ queried \in after..N /\ last \in after..N /\ last <= queried
      /\ last = after => queried <= after + PageLimit /\ queried = after
  <2>1. PageLimit \in Nat /\ PageLimit > 0 BY PagingAssumption
  <2>2. queried \in Nat /\ queried >= after /\ queried <= N
        /\ (queried = N \/ queried = after + PageLimit + 1)
    BY <1>2, <1>3, <2>1 DEF Lesser
  <2>3. last \in Nat /\ last <= queried /\ last >= after
        /\ (last = queried \/ last = after + PageLimit)
    BY <1>2, <1>4, <2>1, <2>2 DEF Lesser
  <2> QED BY <1>2, <2>1, <2>2, <2>3
<1>6. PICK first : first = (IF after < context THEN 1 ELSE after - context + 1) OBVIOUS
<1>7. first \in 1..(after + 1) BY <1>2, <1>6
<1>8. PICK to : to = LastFitting(after, last) OBVIOUS
<1>9. PICK from : from = FirstFitting(first, after, to) OBVIOUS
<1>10. /\ to \in after..last /\ from \in first..(after + 1)
       /\ last > after => to > after
       /\ SizeOf(after + 1, to) + SizeOf(from, after) <= OutputCap
  BY <1>1, <1>2, <1>5, <1>7, <1>8, <1>9, PageEnds
<1>11. PICK more : more = HasMore(after, to, queried) OBVIOUS
<1>12. more \in BOOLEAN /\ (more => to > after)
  <2>1. to \in Nat /\ last \in Nat /\ queried \in Nat /\ after \in Nat /\ PageLimit \in Nat
    BY <1>2, <1>5, <1>10, PagingAssumption
  <2>2. more \in BOOLEAN BY <1>11 DEF HasMore
  <2>3. ASSUME ~(to > after) PROVE ~more
    <3>1. to = after /\ last = after BY <1>5, <1>10, <2>1, <2>3
    <3>2. ~(queried > after + PageLimit) /\ ~(to < queried) BY <1>5, <2>1, <3>1
    <3> QED BY <1>11, <3>2 DEF HasMore
  <2> QED BY <2>2, <2>3
<1>13. lastPage' = [from |-> from, after |-> after, to |-> to, hasMore |-> more, pending |-> TRUE]
  BY <1>1, <1>3, <1>4, <1>6, <1>8, <1>9, <1>11 DEF ReadPage
<1>14. PageLies' BY <1>1, <1>2, <1>5, <1>7, <1>10, <1>12, <1>13
<1>15. SizeOf(after + 1, to)' = SizeOf(after + 1, to) /\ SizeOf(from, after)' = SizeOf(from, after)
  BY DEF SizeOf
<1>16. to # after <=> to > after BY <1>2, <1>10
<1>17. CursorCoversShown' BY <1>10, <1>12, <1>13, <1>15, <1>16 DEF CursorCoversShown, ShowsNone
<1> QED BY <1>14, <1>17

(* However a mailbox is paged, by number and by size, with context, rows    *)
(* arriving meanwhile, and rounds that fail: the read cursor covers only    *)
(* what some committed result showed, and paging goes on.                  *)
THEOREM CursorStaysBehind == PagingSpec => []CursorCoversShown
<1>1. PagingInit => PagingInd
  <2> SUFFICES ASSUME PagingInit PROVE PagingInd OBVIOUS
  <2>1. inboxRows \in Seq(Sizes) /\ Len(inboxRows) = 0 BY EmptySeq DEF PagingInit
  <2>2. lastPage = NoPage /\ readCursor = 0 /\ rendered = {} BY DEF PagingInit
  <2>3. PageLies BY <2>1, <2>2 DEF PageLies, NoPage
  <2>4. CursorCoversShown BY <2>2 DEF CursorCoversShown, NoPage
  <2> QED BY <2>3, <2>4 DEF PagingInd
<1>2. ASSUME PagingInd, [PagingNext]_pagingVars PROVE PagingInd'
  <2> USE <1>2, PagingAssumption DEF PagingInd
  <2>0. inboxRows \in Seq(Sizes) /\ Len(inboxRows) \in Nat
    BY SizesAreNumbers DEF PageLies
  <2>1. ASSUME NEW size \in Sizes, MessageStored(size) PROVE PagingInd'
    <3>1. PICK N : N = Len(inboxRows) OBVIOUS
    <3>2. inboxRows' = Append(inboxRows, size) /\ UNCHANGED <<readCursor, lastPage, rendered>>
      BY <2>1 DEF MessageStored
    <3>3. inboxRows' \in Seq(Sizes) /\ Len(inboxRows') = N + 1 /\ N \in Nat
      BY <2>0, <3>1, <3>2, AppendProperties
    <3>4. PageLies' BY <3>1, <3>2, <3>3 DEF PageLies
    <3>5. \A n \in 0..N : Through(inboxRows', n) = Through(inboxRows, n)
      <4>1. PICK rows : rows = inboxRows OBVIOUS
      <4>2. rows \in Seq(Nat) /\ size \in Nat BY <2>0, <4>1, SizesAreNumbers
      <4> QED BY <3>1, <3>2, <4>1, <4>2, ThroughStays
    <3>6. lastPage.after \in 0..N /\ lastPage.to \in 0..N /\ lastPage.from - 1 \in 0..N
          /\ (lastPage.after + 1) - 1 = lastPage.after
      <4>1. PICK after, to, from : after = lastPage.after /\ to = lastPage.to /\ from = lastPage.from OBVIOUS
      <4>2. after \in 0..N /\ to \in after..N /\ from \in 1..(after + 1) BY <3>1, <4>1 DEF PageLies
      <4>3. to \in 0..N /\ from - 1 \in 0..N /\ (after + 1) - 1 = after BY <3>3, <4>2
      <4> QED BY <4>1, <4>2, <4>3
    <3>7. /\ SizeOf(lastPage.after + 1, lastPage.to)' = SizeOf(lastPage.after + 1, lastPage.to)
          /\ SizeOf(lastPage.from, lastPage.after)' = SizeOf(lastPage.from, lastPage.after)
      BY <3>2, <3>5, <3>6 DEF SizeOf
    <3>8. CursorCoversShown' BY <3>2, <3>7 DEF CursorCoversShown, ShowsNone
    <3> QED BY <3>4, <3>8
  <2>2. ASSUME NEW context \in 0..ContextMax, Read(context) PROVE PagingInd'
    <3>1. PICK after \in {readCursor, lastPage.to} :
             lastPage' = ReadPage(after, context) /\ lastPage.pending = FALSE
      BY <2>2 DEF Read, PageLies
    <3>2. after \in 0..readCursor BY <2>0, <3>1 DEF PageLies
    <3> QED BY <2>2, <3>1, <3>2, PageIsRead DEF Read
  <2>3. CASE CommitRead
    <3>1. /\ lastPage.pending /\ readCursor' = AdvancedCursor(lastPage)
          /\ rendered' = rendered \cup lastPage.from..lastPage.to
          /\ lastPage' = [lastPage EXCEPT !.pending = FALSE] /\ UNCHANGED inboxRows
      BY <2>3 DEF CommitRead
    <3>2. readCursor' \in {readCursor, lastPage.to} /\ readCursor' >= readCursor
          /\ readCursor' >= lastPage.to
      BY <2>0, <3>1 DEF AdvancedCursor, ShowsNone, PageLies
    <3>3. PageLies'
      <4>1. PICK N : N = Len(inboxRows) OBVIOUS
      <4>2. /\ lastPage'.from = lastPage.from /\ lastPage'.after = lastPage.after
            /\ lastPage'.to = lastPage.to /\ lastPage'.pending = FALSE
            /\ lastPage' \in [from : Nat, after : Nat, to : Nat, hasMore : BOOLEAN, pending : BOOLEAN]
        BY <3>1 DEF PageLies
      <4>3. readCursor \in 0..N /\ lastPage.to \in 0..N /\ N \in Nat /\ lastPage.after \in Nat
        BY <2>0, <4>1 DEF PageLies
      <4>4. readCursor' \in 0..N /\ readCursor' >= lastPage.to /\ readCursor' >= lastPage.after
        BY <3>2, <4>3 DEF PageLies
      <4>5. Len(inboxRows') = N /\ inboxRows' \in Seq(Sizes) BY <2>0, <3>1, <4>1
      <4> QED BY <4>1, <4>2, <4>3, <4>4, <4>5 DEF PageLies
    <3>4. 1..readCursor' \subseteq rendered'
      <4> SUFFICES ASSUME NEW i \in 1..readCursor' PROVE i \in rendered' OBVIOUS
      <4>1. CASE i <= readCursor BY <2>0, <3>1, <4>1 DEF CursorCoversShown, PageLies
      <4>2. CASE i > readCursor BY <2>0, <3>1, <3>2, <4>2 DEF PageLies
      <4> QED BY <2>0, <3>2, <4>1, <4>2 DEF PageLies
    <3>5. lastPage'.pending = FALSE BY <3>1 DEF PageLies
    <3> QED BY <3>3, <3>4, <3>5 DEF CursorCoversShown
  <2>4. CASE LoseRead
    <3>1. lastPage' = NoPage /\ UNCHANGED <<inboxRows, readCursor, rendered>> BY <2>4 DEF LoseRead
    <3>2. PageLies' BY <2>0, <3>1 DEF PageLies, NoPage
    <3>3. lastPage'.pending = FALSE BY <3>1 DEF NoPage
    <3> QED BY <3>1, <3>2, <3>3 DEF CursorCoversShown
  <2>5. CASE UNCHANGED pagingVars
    BY <2>5 DEF pagingVars, PageLies, CursorCoversShown, SizeOf, ShowsNone
  <2> QED BY <1>2, <2>1, <2>2, <2>3, <2>4, <2>5 DEF PagingNext
<1>3. PagingInd => CursorCoversShown BY DEF PagingInd
<1> QED BY <1>1, <1>2, <1>3, PTL DEF PagingSpec

-----------------------------------------------------------------------------
(* The command tools: paths.                                               *)

(* A path with one segment more is a path.                                 *)
LEMMA JoinedIsAPath ==
    ASSUME NEW S, NEW before \in Seq(S), NEW segment \in S
    PROVE  Joined(before, segment) \in Seq(S)
<1>1. Append(before, segment) \in Seq(S) BY AppendProperties
<1>2. CASE before = <<>> BY <1>1, <1>2 DEF Joined
<1>3. CASE before # <<>>
  <2>1. Len(before) \in Nat /\ Len(before) # 0 BY <1>3, LenProperties, EmptySeq
  <2>2. SubSeq(before, 1, Len(before) - 1) \in Seq(S) BY <2>1, SubSeqProperties
  <2> QED BY <1>1, <2>2 DEF Joined
<1> QED BY <1>2, <1>3

(* It has the segment behind.                                              *)
LEMMA SegmentJoins ==
    ASSUME NEW S, NEW before \in Seq(S), NEW segment \in S,
           segment # ".." \/ Len(before) = 0 \/ before[Len(before)] = ".."
    PROVE  /\ Len(Joined(before, segment)) = Len(before) + 1
           /\ Joined(before, segment)[Len(before) + 1] = segment
           /\ \A i \in 1..Len(before) : Joined(before, segment)[i] = before[i]
<1>1. before = <<>> <=> Len(before) = 0 BY EmptySeq
<1>2. Joined(before, segment) = Append(before, segment) BY <1>1 DEF Joined
<1> QED BY <1>2, AppendProperties

(* Or it lost its last one.                                                *)
LEMMA SegmentTakesBack ==
    ASSUME NEW S, NEW before \in Seq(S), NEW segment,
           segment = "..", Len(before) # 0, before[Len(before)] # ".."
    PROVE  /\ Len(Joined(before, segment)) = Len(before) - 1
           /\ \A i \in 1..(Len(before) - 1) : Joined(before, segment)[i] = before[i]
<1>1. PICK n : n = Len(before) OBVIOUS
<1>2. n \in Nat /\ n # 0 /\ before # <<>> BY <1>1, LenProperties, EmptySeq
<1>3. PICK m \in Nat : m = n - 1 BY <1>2
<1>4. Joined(before, segment) = SubSeq(before, 1, m) BY <1>1, <1>2, <1>3 DEF Joined
<1>5. \A i \in 1..m : before[i] \in S BY <1>1, <1>3, ElementOfSeq
<1>6. m \in Int /\ 1 \in Int OBVIOUS
<1>7. /\ Len(SubSeq(before, 1, m)) = (IF 1 <= m THEN m - 1 + 1 ELSE 0)
      /\ \A i \in 1..(m - 1 + 1) : SubSeq(before, 1, m)[i] = before[1 + i - 1]
  BY <1>5, <1>6, SubSeqProperties, SMTT(30)
<1>8. /\ (IF 1 <= m THEN m - 1 + 1 ELSE 0) = m /\ m - 1 + 1 = m /\ \A i \in 1..m : 1 + i - 1 = i
  OBVIOUS
<1>9. Len(SubSeq(before, 1, m)) = m /\ \A i \in 1..m : SubSeq(before, 1, m)[i] = before[i]
  BY <1>7, <1>8
<1> QED BY <1>1, <1>3, <1>4, <1>9

(* Normalizing goes through the path segment by segment.                   *)
NormalizesBy(S, q, N, f) ==
    /\ f \in [0..N -> Seq(S)]
    /\ f[0] = <<>> /\ (\A k \in 1..N : f[k] = Joined(f[k - 1], q[k])) /\ Normalized(q) = f[N]

(* There is such a way through every path.                                 *)
LEMMA NormalizedIs ==
    ASSUME NEW S, NEW q \in Seq(S), NEW N, N = Len(q)
    PROVE  \E f : NormalizesBy(S, q, N, f)
<1> DEFINE Norms(m, f) == \A k \in 0..m : f[k] = (IF k = 0 THEN <<>> ELSE Joined(f[k - 1], q[k]))
           norm == CHOOSE f : f = [k \in 0..N |-> IF k = 0 THEN <<>> ELSE Joined(f[k - 1], q[k])]
           Bad == {m \in 0..N : ~\E f \in [0..m -> Seq(S)] : Norms(m, f)}
<1>0. N \in Nat /\ \A k \in 1..N : q[k] \in S BY LenProperties, ElementOfSeq
<1>1. Bad = {}
  <2> SUFFICES ASSUME Bad # {} PROVE FALSE OBVIOUS
  <2>1. PICK m \in Bad : \A y \in Bad : m <= y
    <3>1. Bad \subseteq Nat BY <1>0
    <3> HIDE DEF Bad
    <3> QED BY <3>1, MinIsLeast
  <2>2. CASE m = 0
    <3>1. [k \in 0..m |-> <<>>] \in [0..m -> Seq(S)] /\ Norms(m, [k \in 0..m |-> <<>>])
      BY <2>2, EmptySeq
    <3> QED BY <2>1, <3>1
  <2>3. CASE m # 0
    <3>1. m - 1 \in 0..N /\ m - 1 \notin Bad /\ m \in 1..N
      <4>1. m \in 0..N BY <2>1
      <4> HIDE DEF Bad
      <4> QED BY <1>0, <2>1, <2>3, <4>1
    <3>2. PICK f \in [0..(m - 1) -> Seq(S)] : Norms(m - 1, f)
      <4> HIDE DEF Norms
      <4> QED BY <3>1
    <3>3. PICK g : g = [k \in 0..m |-> IF k = m THEN Joined(f[m - 1], q[m]) ELSE f[k]] OBVIOUS
    <3>4. \A k \in 0..m : k # m => k \in 0..(m - 1) /\ (k # 0 => k - 1 \in 0..(m - 1) /\ k - 1 # m)
      BY <3>1
    <3>5. g \in [0..m -> Seq(S)]
      <4>1. Joined(f[m - 1], q[m]) \in Seq(S)
        <5>1. f[m - 1] \in Seq(S) /\ q[m] \in S BY <1>0, <3>1
        <5> QED BY <5>1, JoinedIsAPath
      <4> QED BY <3>3, <3>4, <4>1
    <3>6. Norms(m, g)
      <4> SUFFICES ASSUME NEW k \in 0..m
                   PROVE  g[k] = (IF k = 0 THEN <<>> ELSE Joined(g[k - 1], q[k]))
        OBVIOUS
      <4>1. CASE k = m
        <5>1. g[m] = Joined(f[m - 1], q[m]) /\ g[m - 1] = f[m - 1] BY <3>1, <3>3
        <5> QED BY <3>1, <4>1, <5>1
      <4>2. CASE k # m
        <5>1. g[k] = f[k] /\ (k # 0 => g[k - 1] = f[k - 1]) BY <3>1, <3>3, <3>4, <4>2
        <5> QED BY <3>2, <3>4, <4>2, <5>1
      <4> QED BY <4>1, <4>2
    <3> QED BY <2>1, <3>5, <3>6
  <2> QED BY <2>2, <2>3
<1>2. norm = [k \in 0..N |-> IF k = 0 THEN <<>> ELSE Joined(norm[k - 1], q[k])]
  <2>1. PICK f \in [0..N -> Seq(S)] : Norms(N, f)
    <3>1. N \in 0..N BY <1>0
    <3>2. N \notin Bad BY <1>1
    <3> HIDE DEF Norms
    <3> QED BY <3>1, <3>2
  <2>2. f = [k \in 0..N |-> IF k = 0 THEN <<>> ELSE Joined(f[k - 1], q[k])] BY <2>1
  <2> QED BY <2>2
<1>3. Normalized(q) = norm[N] BY DEF Normalized
<1> HIDE DEF norm
<1>4. PICK s : s = norm OBVIOUS
<1>5. \A n \in 0..N : s[n] = (IF n = 0 THEN <<>> ELSE Joined(s[n - 1], q[n]))
  <2>1. PICK t : t = [k \in 0..N |-> IF k = 0 THEN <<>> ELSE Joined(s[k - 1], q[k])] OBVIOUS
  <2>2. s = t BY <1>2, <1>4, <2>1
  <2>3. \A n \in 0..N : t[n] = (IF n = 0 THEN <<>> ELSE Joined(s[n - 1], q[n])) BY <2>1
  <2> QED BY <2>2, <2>3
<1>6. 0 \in 0..N /\ \A n \in 1..N : n \in 0..N /\ n # 0 BY <1>0
<1>7. s[0] = <<>> /\ \A n \in 1..N : s[n] = Joined(s[n - 1], q[n]) BY <1>5, <1>6
<1>8. \A n \in 0..N : s[n] \in Seq(S)
  <2> DEFINE Odd == {n \in 0..N : s[n] \notin Seq(S)}
  <2> SUFFICES ASSUME Odd # {} PROVE FALSE OBVIOUS
  <2>1. PICK m \in Odd : \A y \in Odd : m <= y
    <3>1. Odd \subseteq Nat BY <1>0
    <3> HIDE DEF Odd
    <3> QED BY <3>1, MinIsLeast
  <2>2. m # 0 BY <1>7, <2>1, EmptySeq
  <2>3. m - 1 \in 0..N /\ m - 1 \notin Odd /\ m \in 1..N BY <1>0, <2>1, <2>2
  <2>4. Joined(s[m - 1], q[m]) \in Seq(S)
    <3>1. s[m - 1] \in Seq(S) /\ q[m] \in S BY <1>0, <2>3
    <3> QED BY <3>1, JoinedIsAPath
  <2> QED BY <1>7, <2>1, <2>3, <2>4
<1>9. s \in [0..N -> Seq(S)]
  <2>1. s = [k \in 0..N |-> IF k = 0 THEN <<>> ELSE Joined(s[k - 1], q[k])] BY <1>2, <1>4
  <2>2. s = [k \in 0..N |-> s[k]] BY <2>1, <1>5
  <2> QED BY <1>8, <2>2
<1>10. NormalizesBy(S, q, N, s)
  <2>1. Normalized(q) = s[N] BY <1>3, <1>4
  <2> QED BY <1>7, <1>9, <2>1, Zenon DEF NormalizesBy
<1> QED BY <1>10

(* One segment more goes one step down, or one up.                         *)
LEMMA DepthSteps ==
    ASSUME NEW path, NEW k \in Nat
    PROVE  /\ Depth(path, k) \in Int /\ Depth(path, 0) = 0
           /\ Depth(path, k + 1) = Depth(path, k) + (IF path[k + 1] = ".." THEN -1 ELSE 1)
<1> DEFINE Down(n) == {j \in 1..n : path[j] # ".."}
           Up(n) == {j \in 1..n : path[j] = ".."}
<1>1. \A n \in Nat : IsFiniteSet(Down(n)) /\ IsFiniteSet(Up(n))
  <2> SUFFICES ASSUME NEW n \in Nat PROVE IsFiniteSet(Down(n)) /\ IsFiniteSet(Up(n)) OBVIOUS
  <2>1. IsFiniteSet(1..n) BY FS_Interval
  <2>2. Down(n) \subseteq 1..n /\ Up(n) \subseteq 1..n OBVIOUS
  <2> HIDE DEF Down, Up
  <2> QED BY <2>1, <2>2, FS_Subset
<1>2. \A n \in Nat : Cardinality(Down(n)) \in Nat /\ Cardinality(Up(n)) \in Nat
                     /\ Depth(path, n) = Cardinality(Down(n)) - Cardinality(Up(n))
  <2> SUFFICES ASSUME NEW n \in Nat
               PROVE  Cardinality(Down(n)) \in Nat /\ Cardinality(Up(n)) \in Nat
                      /\ Depth(path, n) = Cardinality(Down(n)) - Cardinality(Up(n))
    OBVIOUS
  <2>1. Depth(path, n) = Cardinality(Down(n)) - Cardinality(Up(n)) BY DEF Depth
  <2> HIDE DEF Down, Up
  <2> QED BY <1>1, <2>1, FS_CardinalityType
<1>3. Down(0) = {} /\ Up(0) = {} OBVIOUS
<1>4. Cardinality({}) = 0 BY FS_EmptySet
<1>5. k + 1 \notin Down(k) /\ k + 1 \notin Up(k) OBVIOUS
<1>8. /\ Cardinality(Down(k)) \in Nat /\ Cardinality(Up(k)) \in Nat /\ Depth(path, 0) = 0
      /\ Depth(path, k) = Cardinality(Down(k)) - Cardinality(Up(k))
      /\ Depth(path, k + 1) = Cardinality(Down(k + 1)) - Cardinality(Up(k + 1))
  <2>1. 0 \in Nat /\ k + 1 \in Nat OBVIOUS
  <2> HIDE DEF Down, Up
  <2>2. Depth(path, 0) = 0 - 0 BY <1>2, <1>3, <1>4, <2>1
  <2>3. Depth(path, 0) = 0 BY <2>2
  <2> QED BY <1>2, <2>1, <2>3
<1>6. CASE path[k + 1] = ".."
  <2>1. Down(k + 1) = Down(k) /\ Up(k + 1) = Up(k) \cup {k + 1} BY <1>6
  <2> HIDE DEF Down, Up
  <2>2. Cardinality(Up(k + 1)) = Cardinality(Up(k)) + 1 BY <1>1, <1>5, <2>1, FS_AddElement
  <2>3. PICK d \in Nat, u \in Nat : d = Cardinality(Down(k)) /\ u = Cardinality(Up(k)) BY <1>8
  <2> QED BY <1>6, <1>8, <2>1, <2>2, <2>3
<1>7. CASE path[k + 1] # ".."
  <2>1. Up(k + 1) = Up(k) /\ Down(k + 1) = Down(k) \cup {k + 1} BY <1>7
  <2> HIDE DEF Down, Up
  <2>2. Cardinality(Down(k + 1)) = Cardinality(Down(k)) + 1 BY <1>1, <1>5, <2>1, FS_AddElement
  <2>3. PICK d \in Nat, u \in Nat : d = Cardinality(Down(k)) /\ u = Cardinality(Up(k)) BY <1>8
  <2> QED BY <1>7, <1>8, <2>1, <2>2, <2>3
<1> QED BY <1>6, <1>7

(* A path that is not refused at its front never leaves its view.          *)
LEMMA SafePathsStay ==
    ASSUME NEW S, NEW path \in Seq(S), NEW view, SafePath(view, path)
    PROVE  \A k \in 0..Len(path) : Depth(path, k) >= 0
<1>1. PICK N : N = Len(path) OBVIOUS
<1>2. N \in Nat /\ \A k \in 1..N : path[k] \in S BY <1>1, LenProperties, ElementOfSeq
<1>3. PICK f \in [0..N -> Seq(S)] :
         f[0] = <<>> /\ (\A k \in 1..N : f[k] = Joined(f[k - 1], path[k])) /\ Normalized(path) = f[N]
  <2>1. \E f : NormalizesBy(S, path, N, f) BY <1>1, NormalizedIs
  <2> QED BY <2>1, Zenon DEF NormalizesBy
<1> DEFINE Out(k) == f[k] # <<>> /\ f[k][1] = ".."
           In(k) == /\ \A i \in 1..Len(f[k]) : f[k][i] # ".."
                    /\ Len(f[k]) = Depth(path, k)
           Odd == {k \in 0..N : ~Out(k) /\ ~In(k)}
           Gone == {k \in 0..N : Out(k)}
<1>4. \A k \in 0..N : f[k] \in Seq(S) /\ Len(f[k]) \in Nat /\ (f[k] = <<>> <=> Len(f[k]) = 0)
  BY <1>3, LenProperties, EmptySeq
<1>5. ASSUME NEW k \in 1..N, Out(k - 1) PROVE Out(k)
  <2>1. k - 1 \in 0..N /\ k \in 0..N BY <1>2
  <2>2. PICK b \in Seq(S), n \in Nat : b = f[k - 1] /\ n = Len(b) /\ n # 0 /\ b[1] = ".." /\ b # <<>>
    BY <1>4, <1>5, <2>1
  <2>3. PICK p \in S : p = path[k] BY <1>2
  <2>4. f[k] = Joined(b, p) BY <1>3, <2>2, <2>3
  <2>5. CASE p # ".." \/ n = 0 \/ b[n] = ".."
    <3>1. Len(f[k]) = n + 1 /\ \A i \in 1..n : f[k][i] = b[i]
      BY <2>2, <2>4, <2>5, SegmentJoins
    <3>2. Len(f[k]) # 0 /\ f[k][1] = ".." BY <2>2, <3>1
    <3> QED BY <1>4, <2>1, <3>2
  <2>6. CASE p = ".." /\ n # 0 /\ b[n] # ".."
    <3>1. Len(f[k]) = n - 1 /\ \A i \in 1..(n - 1) : f[k][i] = b[i]
      BY <2>2, <2>4, <2>6, SegmentTakesBack
    <3>2. n # 1 BY <2>2, <2>6
    <3>3. n # 0 BY <2>6
    <3>4. n - 1 # 0 /\ 1 \in 1..(n - 1) BY <3>2, <3>3
    <3>5. Len(f[k]) # 0 /\ f[k][1] = ".." BY <2>2, <3>1, <3>4
    <3> QED BY <1>4, <2>1, <3>5
  <2> QED BY <2>5, <2>6
<1>6. ASSUME NEW k \in 1..N, In(k - 1) PROVE In(k) \/ Out(k)
  <2>1. k - 1 \in 0..N /\ k \in 0..N /\ k - 1 \in Nat BY <1>2
  <2>2. PICK b \in Seq(S), n \in Nat : b = f[k - 1] /\ n = Len(b) /\ (\A i \in 1..n : b[i] # "..")
                                       /\ n = Depth(path, k - 1) /\ (b = <<>> <=> n = 0)
    BY <1>4, <1>6, <2>1
  <2>3. PICK p \in S : p = path[k] BY <1>2
  <2>4. f[k] = Joined(b, p) BY <1>3, <2>2, <2>3
  <2>5. Depth(path, k) = n + (IF p = ".." THEN -1 ELSE 1)
    <3>1. Depth(path, (k - 1) + 1)
             = Depth(path, k - 1) + (IF path[(k - 1) + 1] = ".." THEN -1 ELSE 1)
      BY <2>1, DepthSteps
    <3>2. (k - 1) + 1 = k OBVIOUS
    <3> QED BY <2>2, <2>3, <3>1, <3>2
  <2>7. CASE p # ".."
    <3>1. Len(f[k]) = n + 1 /\ f[k][n + 1] = p /\ \A i \in 1..n : f[k][i] = b[i]
      <4>1. n = Len(b) BY <2>2
      <4> QED BY <2>4, <2>7, <4>1, SegmentJoins
    <3>2. \A i \in 1..(n + 1) : i \in 1..n \/ i = n + 1 BY <2>2
    <3>3. \A i \in 1..(n + 1) : f[k][i] # ".." BY <2>2, <2>7, <3>1, <3>2
    <3>4. Depth(path, k) = n + 1 BY <2>5, <2>7
    <3> QED BY <3>1, <3>3, <3>4
  <2>8. CASE p = ".." /\ n = 0
    <3>1. Len(f[k]) = n + 1 /\ f[k][n + 1] = p BY <2>2, <2>4, <2>8, SegmentJoins
    <3>2. n + 1 = 1 BY <2>8
    <3>3. Len(f[k]) # 0 /\ f[k][1] = ".." BY <2>8, <3>1, <3>2
    <3>4. f[k] # <<>> BY <1>4, <2>1, <3>3
    <3> QED BY <3>3, <3>4
  <2>9. CASE p = ".." /\ n # 0
    <3>1. b[n] # ".." BY <2>2, <2>9
    <3>2. Len(f[k]) = n - 1 /\ \A i \in 1..(n - 1) : f[k][i] = b[i]
      <4>1. n = Len(b) BY <2>2
      <4> QED BY <2>4, <2>9, <3>1, <4>1, SegmentTakesBack
    <3>5. 1..(n - 1) \subseteq 1..n OBVIOUS
    <3>3. \A i \in 1..(n - 1) : f[k][i] # ".." BY <2>2, <3>2, <3>5
    <3>4. Depth(path, k) = n - 1 BY <2>2, <2>5, <2>9
    <3> QED BY <3>2, <3>3, <3>4
  <2> QED BY <2>7, <2>8, <2>9
<1>7. In(0)
  <2>1. Depth(path, 0) = 0 BY DepthSteps
  <2>2. f[0] = <<>> /\ Len(f[0]) = 0 BY <1>2, <1>3, <1>4
  <2> QED BY <2>1, <2>2
<1>8. Odd = {}
  <2> SUFFICES ASSUME Odd # {} PROVE FALSE OBVIOUS
  <2>1. PICK m \in Odd : \A y \in Odd : m <= y
    <3>1. Odd \subseteq Nat BY <1>2
    <3> HIDE DEF Odd
    <3> QED BY <3>1, MinIsLeast
  <2>2. m \in 0..N /\ ~Out(m) /\ ~In(m) BY <2>1
  <2> HIDE DEF Out, In
  <2>3. m # 0 BY <1>7, <2>2
  <2>4. m - 1 \in 0..N /\ m - 1 \notin Odd /\ m \in 1..N
    <3>1. m - 1 \in 0..N /\ m \in 1..N BY <1>2, <2>2, <2>3
    <3>2. ~(m <= m - 1) BY <2>2
    <3> HIDE DEF Odd
    <3> QED BY <2>1, <3>1, <3>2
  <2>5. Out(m - 1) \/ In(m - 1) BY <2>4
  <2> QED BY <1>5, <1>6, <2>2, <2>4, <2>5
<1>9. Gone = {}
  <2>1. ~Out(N) BY <1>3 DEF SafePath
  <2> SUFFICES ASSUME Gone # {} PROVE FALSE OBVIOUS
  <2>2. PICK m \in Gone : \A y \in Gone : y <= m
    <3>1. Gone \subseteq 0..N OBVIOUS
    <3> HIDE DEF Gone
    <3> QED BY <1>2, <3>1, MaxIsGreatest
  <2>3. m \in 0..N /\ Out(m) BY <2>2
  <2> HIDE DEF Out
  <2>4. m # N BY <2>1, <2>3
  <2>5. m + 1 \in 1..N /\ (m + 1) - 1 = m BY <1>2, <2>3, <2>4
  <2>6. Out(m + 1) BY <1>5, <2>3, <2>5
  <2>7. m + 1 \in Gone BY <2>5, <2>6
  <2> HIDE DEF Gone
  <2> QED BY <2>2, <2>3, <2>7
<1>10. ASSUME NEW k \in 0..N PROVE Depth(path, k) >= 0
  <2>1. In(k) BY <1>8, <1>9
  <2> QED BY <1>4, <2>1
<1> QED BY <1>1, <1>10

-----------------------------------------------------------------------------
(* The command tools: windows of a table.                                  *)

(* A window ends at its limit or with the table.                           *)
WindowEnd(total, n, limit) == IF n + limit <= total THEN n + limit ELSE total

(* A window shows the rows behind its start, at least one and at most its   *)
(* limit, and the next one starts where it ends.                            *)
LEMMA WindowIs ==
    ASSUME NEW total \in Nat, NEW limit \in Nat \ {0}, NEW n \in Nat, n < total
    PROVE  /\ WindowEnd(total, n, limit) \in (n + 1)..total
           /\ TableWindow(total, n, limit) = (n + 1)..WindowEnd(total, n, limit)
           /\ TableWindow(total, n, limit) # {}
           /\ n + Cardinality(TableWindow(total, n, limit)) = WindowEnd(total, n, limit)
<1>1. PICK e : e = WindowEnd(total, n, limit) OBVIOUS
<1>2. e \in (n + 1)..total BY <1>1 DEF WindowEnd
<1>3. TableWindow(total, n, limit) = (n + 1)..e BY <1>1, <1>2 DEF TableWindow, WindowEnd
<1>4. Cardinality((n + 1)..e) = e - (n + 1) + 1
  <2>1. n + 1 \in Int /\ e \in Int /\ n + 1 <= e BY <1>2
  <2> QED BY <2>1, FS_Interval
<1> QED BY <1>1, <1>2, <1>3, <1>4

(* A list with one member in front.                                        *)
LEMMA InFront ==
    ASSUME NEW S, NEW x \in S, NEW q \in Seq(S)
    PROVE  /\ <<x>> \o q \in Seq(S) /\ Len(<<x>> \o q) = Len(q) + 1 /\ (<<x>> \o q)[1] = x
           /\ \A i \in 1..Len(q) : (<<x>> \o q)[i + 1] = q[i]
<1>1. <<x>> \in Seq(S) /\ Len(<<x>>) = 1 /\ <<x>>[1] = x OBVIOUS
<1>2. Len(q) \in Nat BY LenProperties
<1>3. /\ <<x>> \o q \in Seq(S) /\ Len(<<x>> \o q) = 1 + Len(q)
      /\ \A i \in 1..(1 + Len(q)) :
            (<<x>> \o q)[i] = IF i <= 1 THEN <<x>>[i] ELSE q[i - 1]
  BY <1>1, ConcatProperties
<1>4. 1 \in 1..(1 + Len(q)) /\ \A i \in 1..Len(q) : /\ i + 1 \in 1..(1 + Len(q))
                                                   /\ ~(i + 1 <= 1) /\ (i + 1) - 1 = i
  BY <1>2
<1> QED BY <1>1, <1>2, <1>3, <1>4

(* What a reader gets is the first window and what a reader of the rest     *)
(* gets.                                                                   *)
LEMMA ReadIs ==
    ASSUME NEW T \in Nat, NEW L \in Nat \ {0}
    PROVE  \E f \in [0..T -> Seq(SUBSET Nat)] :
              /\ f[T] = <<>> /\ ReadAll(T, L) = f[0]
              /\ \A n \in 0..(T - 1) :
                    f[n] = <<(n + 1)..WindowEnd(T, n, L)>> \o f[WindowEnd(T, n, L)]
<1> DEFINE Body(f, n) == IF n >= T THEN <<>>
                         ELSE LET got == TableWindow(T, n, L)
                              IN  <<got>> \o (IF got = {} THEN <<>> ELSE f[n + Cardinality(got)])
           from == CHOOSE f : f = [n \in 0..T |-> Body(f, n)]
           Reads(m, f) == \A n \in m..T : f[n] = Body(f, n)
           Bad == {m \in 0..T : ~\E f \in [m..T -> Seq(SUBSET Nat)] : Reads(m, f)}
<1>1. \A f : Body(f, T) = <<>> OBVIOUS
<1>2. ASSUME NEW f, NEW n \in 0..(T - 1)
      PROVE  /\ n < T /\ n \in Nat /\ WindowEnd(T, n, L) \in (n + 1)..T
             /\ (n + 1)..WindowEnd(T, n, L) \in SUBSET Nat
             /\ Body(f, n) = <<(n + 1)..WindowEnd(T, n, L)>> \o f[WindowEnd(T, n, L)]
  <2>1. n < T /\ n \in Nat /\ ~(n >= T) OBVIOUS
  <2>2. /\ WindowEnd(T, n, L) \in (n + 1)..T
        /\ TableWindow(T, n, L) = (n + 1)..WindowEnd(T, n, L) /\ TableWindow(T, n, L) # {}
        /\ n + Cardinality(TableWindow(T, n, L)) = WindowEnd(T, n, L)
    BY <2>1, WindowIs
  <2>3. (n + 1)..WindowEnd(T, n, L) \in SUBSET Nat BY <2>1, <2>2
  <2> QED BY <2>1, <2>2, <2>3
<1> HIDE DEF Body
<1>3. Bad = {}
  <2> SUFFICES ASSUME Bad # {} PROVE FALSE OBVIOUS
  <2>1. PICK m \in Bad : \A y \in Bad : y <= m
    <3>1. Bad \subseteq 0..T OBVIOUS
    <3> HIDE DEF Bad
    <3> QED BY <3>1, MaxIsGreatest
  <2>2. CASE m = T
    <3>1. PICK g : g = [n \in m..T |-> <<>>] OBVIOUS
    <3>2. g \in [m..T -> Seq(SUBSET Nat)] BY <3>1, EmptySeq
    <3>3. Reads(m, g) BY <1>1, <2>2, <3>1
    <3> QED BY <2>1, <3>2, <3>3
  <2>3. CASE m # T
    <3>1. m \in 0..(T - 1) /\ m + 1 \in 0..T BY <2>1, <2>3
    <3>2. m + 1 \notin Bad
      <4>1. ~(m + 1 <= m) BY <3>1
      <4> HIDE DEF Bad
      <4> QED BY <2>1, <4>1
    <3>3. PICK f \in [(m + 1)..T -> Seq(SUBSET Nat)] : Reads(m + 1, f) BY <3>1, <3>2
    <3>4. PICK e : e = WindowEnd(T, m, L) OBVIOUS
    <3>5. e \in (m + 1)..T /\ (m + 1)..e \in SUBSET Nat BY <1>2, <3>1, <3>4
    <3>6. PICK g : g = [n \in m..T |-> IF n = m THEN <<(m + 1)..e>> \o f[e] ELSE f[n]] OBVIOUS
    <3>7. \A n \in m..T : n # m => n \in (m + 1)..T BY <3>1
    <3>8. g \in [m..T -> Seq(SUBSET Nat)]
      <4>1. f[e] \in Seq(SUBSET Nat) BY <3>5
      <4>2. <<(m + 1)..e>> \o f[e] \in Seq(SUBSET Nat) BY <3>5, <4>1, InFront
      <4> QED BY <3>6, <3>7, <4>2
    <3>9. \A n \in (m + 1)..T : g[n] = f[n] /\ n # m BY <3>1, <3>6
    <3>10. Reads(m, g)
      <4> SUFFICES ASSUME NEW n \in m..T PROVE g[n] = Body(g, n) OBVIOUS
      <4>1. CASE n = m
        <5>1. Body(g, m) = <<(m + 1)..e>> \o g[e] BY <1>2, <3>1, <3>4
        <5>2. g[m] = <<(m + 1)..e>> \o f[e] BY <3>1, <3>6
        <5> QED BY <3>5, <3>9, <4>1, <5>1, <5>2
      <4>2. CASE n # m /\ n = T
        <5>1. n \in (m + 1)..T BY <3>7, <4>2
        <5>2. f[n] = Body(f, n) BY <3>3, <5>1
        <5> QED BY <1>1, <3>9, <4>2, <5>1, <5>2
      <4>3. CASE n # m /\ n # T
        <5>1. n \in (m + 1)..T /\ n \in 0..(T - 1) BY <3>1, <3>7, <4>3
        <5>2. PICK u : u = WindowEnd(T, n, L) OBVIOUS
        <5>3. u \in (n + 1)..T BY <1>2, <5>1, <5>2
        <5>4. u \in (m + 1)..T BY <5>1, <5>3
        <5>5. Body(g, n) = <<(n + 1)..u>> \o g[u] /\ Body(f, n) = <<(n + 1)..u>> \o f[u]
          BY <1>2, <5>1, <5>2
        <5>6. f[n] = Body(f, n) BY <3>3, <5>1
        <5> QED BY <3>9, <5>1, <5>4, <5>5, <5>6
      <4> QED BY <4>1, <4>2, <4>3
    <3> QED BY <2>1, <3>8, <3>10
  <2> QED BY <2>2, <2>3
<1>4. from = [n \in 0..T |-> Body(from, n)]
  <2>1. PICK f \in [0..T -> Seq(SUBSET Nat)] : Reads(0, f) BY <1>3
  <2>2. f = [n \in 0..T |-> Body(f, n)] BY <2>1
  <2> QED BY <2>2
<1>5. ReadAll(T, L) = from[0] BY DEF ReadAll, Body
<1> HIDE DEF from
<1>6. PICK s : s = from OBVIOUS
<1>7. PICK t : t = [n \in 0..T |-> Body(s, n)] OBVIOUS
<1>8. s = t /\ DOMAIN t = 0..T /\ \A n \in 0..T : t[n] = Body(s, n) BY <1>4, <1>6, <1>7
<1>9. \A n \in 0..T : s[n] = Body(s, n) BY <1>8
<1>10. s[T] = <<>> BY <1>1, <1>9
<1>11. ASSUME NEW n \in 0..(T - 1) PROVE s[n] = <<(n + 1)..WindowEnd(T, n, L)>> \o s[WindowEnd(T, n, L)]
  <2>1. n \in 0..T OBVIOUS
  <2> QED BY <1>2, <1>9, <2>1
<1>12. \A n \in 0..T : s[n] \in Seq(SUBSET Nat)
  <2> DEFINE Odd == {n \in 0..T : s[n] \notin Seq(SUBSET Nat)}
  <2> SUFFICES ASSUME Odd # {} PROVE FALSE OBVIOUS
  <2>1. PICK m \in Odd : \A y \in Odd : y <= m
    <3>1. Odd \subseteq 0..T OBVIOUS
    <3> HIDE DEF Odd
    <3> QED BY <3>1, MaxIsGreatest
  <2>2. m # T BY <1>10, <2>1, EmptySeq
  <2>3. m \in 0..(T - 1) BY <2>1, <2>2
  <2>4. PICK e : e = WindowEnd(T, m, L) OBVIOUS
  <2>5. e \in (m + 1)..T /\ (m + 1)..e \in SUBSET Nat BY <1>2, <2>3, <2>4
  <2>6. e \in 0..T /\ ~(e <= m) BY <2>3, <2>5
  <2>7. s[e] \in Seq(SUBSET Nat) BY <2>1, <2>6
  <2>8. s[m] = <<(m + 1)..e>> \o s[e] BY <1>11, <2>3, <2>4
  <2>9. s[m] \in Seq(SUBSET Nat) BY <2>5, <2>7, <2>8, InFront
  <2> QED BY <2>1, <2>9
<1>13. s \in [0..T -> Seq(SUBSET Nat)]
  <2>1. s = [n \in 0..T |-> t[n]] BY <1>7, <1>8
  <2>2. s = [n \in 0..T |-> s[n]] BY <1>8, <2>1
  <2> QED BY <1>12, <2>2
<1> QED BY <1>5, <1>6, <1>10, <1>11, <1>13

(* Window by window a reader gets every row of the table once.             *)
LEMMA WindowsCover ==
    ASSUME NEW T \in Nat, NEW L \in Nat \ {0}, NEW all, all = ReadAll(T, L)
    PROVE  /\ UNION {all[k] : k \in 1..Len(all)} = 1..T
           /\ \A j, k \in 1..Len(all) : j < k => all[j] \cap all[k] = {}
<1>1. PICK f \in [0..T -> Seq(SUBSET Nat)] :
         /\ f[T] = <<>> /\ ReadAll(T, L) = f[0]
         /\ \A n \in 0..(T - 1) :
               f[n] = <<(n + 1)..WindowEnd(T, n, L)>> \o f[WindowEnd(T, n, L)]
  BY ReadIs
<1> DEFINE CoversFrom(n) == /\ \A k \in 1..Len(f[n]) : f[n][k] \subseteq (n + 1)..T
                            /\ \A r \in (n + 1)..T : \E k \in 1..Len(f[n]) : r \in f[n][k]
                            /\ \A j, k \in 1..Len(f[n]) : j < k => f[n][j] \cap f[n][k] = {}
           Odd == {n \in 0..T : ~CoversFrom(n)}
<1>2. CoversFrom(T)
  <2>1. Len(f[T]) = 0 BY <1>1, EmptySeq
  <2> QED BY <2>1
<1>3. ASSUME NEW n \in 0..(T - 1), \A m \in (n + 1)..T : CoversFrom(m) PROVE CoversFrom(n)
  <2>1. PICK e : e = WindowEnd(T, n, L) OBVIOUS
  <2>2. e \in (n + 1)..T /\ n \in Nat
    <3>1. n \in Nat /\ n < T OBVIOUS
    <3> QED BY <2>1, <3>1, WindowIs
  <2>3. CoversFrom(e) BY <1>3, <2>2
  <2>4. PICK q \in Seq(SUBSET Nat) : q = f[e] BY <2>2
  <2>5. PICK x \in SUBSET Nat : x = (n + 1)..e BY <2>2
  <2>6. PICK p : p = f[n] OBVIOUS
  <2>7. p = <<x>> \o q BY <1>1, <2>1, <2>4, <2>5, <2>6
  <2>8. PICK c \in Nat : c = Len(q) BY LenProperties
  <2>9. Len(p) = c + 1 /\ p[1] = x /\ \A i \in 1..c : p[i + 1] = q[i] BY <2>7, <2>8, InFront
  <2>10. /\ \A k \in 1..c : q[k] \subseteq (e + 1)..T
         /\ \A r \in (e + 1)..T : \E k \in 1..c : r \in q[k]
         /\ \A j, k \in 1..c : j < k => q[j] \cap q[k] = {}
    BY <2>3, <2>4, <2>8
  <2>11. \A k \in 1..(c + 1) : k = 1 \/ (k - 1 \in 1..c /\ p[k] = q[k - 1])
    <3> SUFFICES ASSUME NEW k \in 1..(c + 1), k # 1 PROVE k - 1 \in 1..c /\ p[k] = q[k - 1] OBVIOUS
    <3>1. k - 1 \in 1..c /\ (k - 1) + 1 = k OBVIOUS
    <3> QED BY <2>9, <3>1
  <2>12. (e + 1)..T \subseteq (n + 1)..T /\ x \subseteq (n + 1)..T /\ x \cap (e + 1)..T = {}
    BY <2>2, <2>5
  <2>13. \A k \in 1..(c + 1) : p[k] \subseteq (n + 1)..T BY <2>9, <2>10, <2>11, <2>12
  <2>14. ASSUME NEW r \in (n + 1)..T PROVE \E k \in 1..(c + 1) : r \in p[k]
    <3>1. CASE r <= e
      <4>1. r \in p[1] BY <2>2, <2>5, <2>9, <3>1
      <4> QED BY <4>1
    <3>2. CASE ~(r <= e)
      <4>0. r \in (e + 1)..T BY <2>2, <3>2
      <4>1. PICK k \in 1..c : r \in q[k] BY <2>10, <4>0
      <4>2. k + 1 \in 1..(c + 1) /\ r \in p[k + 1] BY <2>9, <4>1
      <4> QED BY <4>2
    <3> QED BY <3>1, <3>2
  <2>15. ASSUME NEW j \in 1..(c + 1), NEW k \in 1..(c + 1), j < k PROVE p[j] \cap p[k] = {}
    <3>1. k # 1 /\ k - 1 \in 1..c /\ p[k] = q[k - 1] BY <2>11, <2>15
    <3>2. CASE j = 1
      <4>1. p[j] = x /\ p[k] \subseteq (e + 1)..T BY <2>9, <2>10, <3>1, <3>2
      <4> QED BY <2>12, <4>1
    <3>3. CASE j # 1
      <4>0. j - 1 \in 1..c /\ p[j] = q[j - 1] BY <2>11, <3>3
      <4>1. j - 1 \in 1..c /\ p[j] = q[j - 1] /\ j - 1 < k - 1 BY <2>15, <4>0
      <4> QED BY <2>10, <3>1, <4>1
    <3> QED BY <3>2, <3>3
  <2> QED BY <2>6, <2>9, <2>13, <2>14, <2>15
<1>4. Odd = {}
  <2> SUFFICES ASSUME Odd # {} PROVE FALSE OBVIOUS
  <2>1. PICK m \in Odd : \A y \in Odd : y <= m
    <3>1. Odd \subseteq 0..T OBVIOUS
    <3> HIDE DEF Odd
    <3> QED BY <3>1, MaxIsGreatest
  <2>2. m \in 0..T /\ ~CoversFrom(m) BY <2>1
  <2>4. \A n \in (m + 1)..T : CoversFrom(n)
    <3> SUFFICES ASSUME NEW n \in (m + 1)..T PROVE CoversFrom(n) OBVIOUS
    <3>1. n \in 0..T /\ ~(n <= m) BY <2>2
    <3>2. n \notin Odd
      <4> HIDE DEF Odd
      <4> QED BY <2>1, <3>1
    <3> HIDE DEF CoversFrom
    <3> QED BY <3>1, <3>2
  <2> HIDE DEF CoversFrom
  <2>5. m # T BY <1>2, <2>2
  <2>6. m \in 0..(T - 1) BY <2>2, <2>5
  <2> QED BY <1>3, <2>2, <2>4, <2>6
<1>5. CoversFrom(0)
  <2>1. 0 \in 0..T OBVIOUS
  <2> HIDE DEF CoversFrom
  <2> QED BY <1>4, <2>1
<1>6. PICK q : q = f[0] OBVIOUS
<1>7. /\ \A k \in 1..Len(q) : q[k] \subseteq 1..T
      /\ \A r \in 1..T : \E k \in 1..Len(q) : r \in q[k]
      /\ \A j, k \in 1..Len(q) : j < k => q[j] \cap q[k] = {}
  <2>1. PICK rows : rows = (0 + 1)..T OBVIOUS
  <2>2. /\ \A k \in 1..Len(q) : q[k] \subseteq rows
        /\ \A r \in rows : \E k \in 1..Len(q) : r \in q[k]
        /\ \A j, k \in 1..Len(q) : j < k => q[j] \cap q[k] = {}
    BY <1>5, <1>6, <2>1, Zenon
  <2>3. rows = 1..T BY <2>1
  <2> QED BY <2>2, <2>3, Zenon
<1>8. UNION {q[k] : k \in 1..Len(q)} = 1..T
  <2>1. PICK rows : rows = 1..T OBVIOUS
  <2>2. /\ \A k \in 1..Len(q) : q[k] \subseteq rows
        /\ \A r \in rows : \E k \in 1..Len(q) : r \in q[k]
    BY <1>7, <2>1
  <2>3. PICK pages : pages = {q[k] : k \in 1..Len(q)} OBVIOUS
  <2>4. \A p \in pages : p \subseteq rows BY <2>2, <2>3
  <2>5. \A r \in rows : \E p \in pages : r \in p BY <2>2, <2>3
  <2>6. UNION pages = rows BY <2>4, <2>5
  <2> QED BY <2>1, <2>3, <2>6
<1>9. all = q BY <1>1, <1>6, Zenon
<1> HIDE DEF CoversFrom, Odd
<1> QED BY <1>7, <1>8, <1>9, Zenon

-----------------------------------------------------------------------------
(* The command tools: orders.                                              *)

(* When every environment that is named is the simulated one, and one is,  *)
(* it is the one a script takes.                                           *)
LEMMA SimulatedIsUsed ==
    ASSUME NEW tokens \in Seq(EnvTokens), OnlySimulated(tokens)
    PROVE  EnvUsed(tokens) = "SIMULATE"
<1> DEFINE at == {k \in 1..Len(tokens) : tokens[k] \in {"--trd-env=SIMULATE", "--trd-env=REAL"}
                                         \/ (tokens[k] = "--trd-env" /\ k < Len(tokens))}
           named == {e \in NamedEnvs(tokens) : e[2] # "none"}
<1>1. PICK N \in Nat : N = Len(tokens) BY LenProperties
<1>2. \A k \in 1..N : tokens[k] \in EnvTokens BY <1>1, ElementOfSeq
<1>3. Cardinality(named) = 1 /\ \A e \in named : e[2] = "SIMULATE" BY DEF OnlySimulated
<1>4. named # {}
  <2>1. Cardinality({}) = 0 BY FS_EmptySet
  <2>2. Cardinality(named) = 1 BY <1>3
  <2> HIDE DEF named
  <2> SUFFICES ASSUME named = {} PROVE FALSE OBVIOUS
  <2>3. Cardinality({}) = 1 BY <2>2
  <2> QED BY <2>1, <2>3
<1>5. at # {}
  <2>1. PICK e \in named : TRUE BY <1>4
  <2>2. e \in NamedEnvs(tokens) /\ e[2] # "none" BY <2>1
  <2>3. CASE \E k \in {j \in 1..N : tokens[j] = "--trd-env"} :
                e = <<k, IF k = N THEN "none" ELSE tokens[k + 1]>>
    <3>1. PICK k \in 1..N : tokens[k] = "--trd-env" /\ e = <<k, IF k = N THEN "none" ELSE tokens[k + 1]>>
      BY <2>3
    <3>2. k # N BY <2>2, <3>1
    <3>3. k \in at BY <1>1, <3>1, <3>2
    <3> QED BY <3>3
  <2>4. CASE \E k \in {j \in 1..N : tokens[j] \in {"--trd-env=SIMULATE", "--trd-env=REAL"}} : TRUE
    BY <1>1, <2>4
  <2> QED BY <1>1, <2>2, <2>3, <2>4 DEF NamedEnvs
<1>6. PICK m \in at : \A j \in at : j <= m
  <2>1. at \subseteq 0..N BY <1>1
  <2> HIDE DEF at
  <2> QED BY <1>1, <1>5, <2>1, MaxIsGreatest
<1>7. m \in 1..N /\ (tokens[m] \in {"--trd-env=SIMULATE", "--trd-env=REAL"}
                     \/ (tokens[m] = "--trd-env" /\ m < N))
  BY <1>1, <1>6
<1>8. (CHOOSE k \in at : \A j \in at : j <= k) = m
  <2>1. at \subseteq Int BY <1>1
  <2> HIDE DEF at
  <2>2. PICK x : x = CHOOSE k \in at : \A j \in at : j <= k OBVIOUS
  <2>3. x \in at /\ \A j \in at : j <= x BY <1>6, <2>2
  <2> QED BY <1>6, <2>1, <2>2, <2>3
<1>9. EnvUsed(tokens) = (IF tokens[m] = "--trd-env" THEN tokens[m + 1]
                         ELSE IF tokens[m] = "--trd-env=REAL" THEN "REAL" ELSE "SIMULATE")
  <2>1. EnvUsed(tokens) = (IF at = {} THEN "none"
                           ELSE LET last == CHOOSE k \in at : \A j \in at : j <= k
                                IN  IF tokens[last] = "--trd-env" THEN tokens[last + 1]
                                    ELSE IF tokens[last] = "--trd-env=REAL" THEN "REAL" ELSE "SIMULATE")
    BY DEF EnvUsed
  <2> HIDE DEF at
  <2> QED BY <1>5, <1>8, <2>1
<1>10. CASE tokens[m] = "--trd-env"
  <2>1. m # N /\ m + 1 \in 1..N BY <1>7, <1>10
  <2>2. <<m, tokens[m + 1]>> \in NamedEnvs(tokens)
    <3>1. <<m, IF m = N THEN "none" ELSE tokens[m + 1]>>
             \in {<<k, IF k = Len(tokens) THEN "none" ELSE tokens[k + 1]>> :
                     k \in {j \in 1..Len(tokens) : tokens[j] = "--trd-env"}}
      BY <1>1, <1>7, <1>10
    <3> QED BY <2>1, <3>1 DEF NamedEnvs
  <2>3. tokens[m + 1] # "none"
    <3>1. tokens[m + 1] \in EnvTokens BY <1>2, <2>1
    <3> QED BY <3>1 DEF EnvTokens
  <2>4. <<m, tokens[m + 1]>> \in named BY <2>2, <2>3
  <2>5. <<m, tokens[m + 1]>>[2] = "SIMULATE" BY <1>3, <2>4
  <2> QED BY <1>9, <1>10, <2>5
<1>11. CASE tokens[m] = "--trd-env=REAL"
  <2>1. <<m, "REAL">> \in NamedEnvs(tokens)
    <3>1. <<m, IF tokens[m] = "--trd-env=REAL" THEN "REAL" ELSE "SIMULATE">>
             \in {<<k, IF tokens[k] = "--trd-env=REAL" THEN "REAL" ELSE "SIMULATE">> :
                     k \in {j \in 1..Len(tokens) :
                               tokens[j] \in {"--trd-env=SIMULATE", "--trd-env=REAL"}}}
      BY <1>1, <1>7, <1>11
    <3> QED BY <1>11, <3>1 DEF NamedEnvs
  <2>2. <<m, "REAL">> \in named BY <2>1
  <2>3. <<m, "REAL">>[2] = "SIMULATE" BY <1>3, <2>2
  <2> QED BY <2>3
<1>12. CASE tokens[m] = "--trd-env=SIMULATE" BY <1>9, <1>12
<1> QED BY <1>7, <1>10, <1>11, <1>12

-----------------------------------------------------------------------------
(* The command tools: the inductive invariant.                             *)

(* What was kept is what was written, up to the mark or the limit.         *)
TakenOK ==
    /\ produced \in Nat /\ taken \in [chars : Nat, marked : BOOLEAN]
    /\ taken.chars <= produced
    /\ taken.marked => command.tool = "bash" /\ taken.chars = AnswerCap
    /\ ~taken.marked => \/ taken.chars = produced
                        \/ command.tool # "bash" /\ taken.chars * Width >= CaptureCap

(* An open call was let through; behind an answer no program runs.         *)
CallOK ==
    /\ commandCall \in {"idle", "open", "answered"} /\ timedOut \in BOOLEAN
    /\ command \in WellFormed \cup Malformed
    /\ commandCall = "open" => Allowed(command)
    /\ commandCall # "open" => child \in {"none", "gone"}

CommandInd == TakenOK /\ CallOK /\ CutsAreTold /\ SuccessIsReal

(* The bytes of a character more than fit reach the limit.                 *)
LEMMA LimitIsReached ==
    ASSUME NEW m \in Nat, NEW w \in Nat \ {0}, NEW cap \in Nat \ {0}, m * w > cap
    PROVE  /\ (cap + w - 1) \div w \in Nat /\ (cap + w - 1) \div w <= m
           /\ ((cap + w - 1) \div w) * w >= cap
<1>1. PICK x \in Nat : x = cap + w - 1 OBVIOUS
<1>2. PICK e : e = x \div w OBVIOUS
<1>3. e \in Nat /\ e * w <= x /\ x < (e + 1) * w BY <1>2
<1>4. (e + 1) * w = e * w + w BY <1>3
<1>5. e * w \in Nat /\ m * w \in Nat BY <1>3
<1>6. e * w >= cap BY <1>1, <1>3, <1>4, <1>5
<1>7. e <= m
  <2> SUFFICES ASSUME ~(e <= m) PROVE FALSE OBVIOUS
  <2>1. PICK d \in Nat : e = m + 1 + d
    <3>1. e - m - 1 \in Nat BY <1>3
    <3>2. e = m + 1 + (e - m - 1) BY <1>3
    <3> QED BY <3>1, <3>2
  <2>2. e * w = m * w + w + d * w BY <2>1
  <2>3. d * w \in Nat OBVIOUS
  <2> QED BY <1>1, <1>3, <1>5, <2>2, <2>3
<1> QED BY <1>1, <1>2, <1>3, <1>6, <1>7

(* Output that comes is kept, or its end is marked or at the limit.        *)
LEMMA OutputIsTaken ==
    ASSUME TakenOK, NEW n \in Nat \ {0}, Writes(n)
    PROVE  TakenOK'
<1>1. Width \in Nat \ {0} /\ AnswerCap \in Nat \ {0} /\ CaptureCap \in Nat \ {0}
  BY CommandAssumption
<1>2. PICK c \in Nat, k \in BOOLEAN : taken = [chars |-> c, marked |-> k] BY DEF TakenOK
<1>3. taken.chars = c /\ taken.marked = k BY <1>2
<1>4. produced' = produced + n /\ taken' = Kept(n) /\ command' = command /\ produced \in Nat
  BY DEF Writes, TakenOK
<1>5. c <= produced /\ (k => command.tool = "bash" /\ c = AnswerCap)
      /\ (~k => c = produced \/ (command.tool # "bash" /\ c * Width >= CaptureCap))
  BY <1>3 DEF TakenOK
<1>6. CASE command.tool = "bash" /\ (k \/ c + n > AnswerCap)
  <2>1. taken' = [chars |-> AnswerCap, marked |-> TRUE] BY <1>3, <1>4, <1>6 DEF Kept
  <2>2. taken'.chars = AnswerCap /\ taken'.marked BY <2>1
  <2>3. AnswerCap <= produced + n BY <1>1, <1>4, <1>5, <1>6
  <2> QED BY <1>1, <1>4, <1>6, <2>1, <2>2, <2>3 DEF TakenOK
<1>7. CASE command.tool = "bash" /\ ~(k \/ c + n > AnswerCap)
  <2>1. taken' = [chars |-> c + n, marked |-> FALSE] BY <1>2, <1>3, <1>4, <1>7 DEF Kept
  <2>2. taken'.chars = c + n /\ ~taken'.marked /\ c + n = produced + n BY <1>5, <1>7, <2>1
  <2> QED BY <1>4, <1>7, <2>1, <2>2 DEF TakenOK
<1>8. CASE command.tool # "bash" /\ (c + n) * Width <= CaptureCap
  <2>1. taken' = [chars |-> c + n, marked |-> FALSE] BY <1>2, <1>3, <1>4, <1>5, <1>8 DEF Kept
  <2>2. c = produced
    <3> SUFFICES ASSUME c * Width >= CaptureCap PROVE FALSE BY <1>5, <1>8
    <3>1. (c + n) * Width = c * Width + n * Width BY <1>1
    <3>2. n * Width \in Nat /\ n * Width > 0 /\ c * Width \in Nat BY <1>1
    <3> QED BY <1>1, <1>8, <3>1, <3>2
  <2>3. taken'.chars = c + n /\ ~taken'.marked /\ c + n = produced + n BY <2>1, <2>2
  <2> QED BY <1>4, <1>8, <2>1, <2>3 DEF TakenOK
<1>9. CASE command.tool # "bash" /\ ~((c + n) * Width <= CaptureCap)
  <2>1. PICK e : e = (CaptureCap + Width - 1) \div Width OBVIOUS
  <2>2. taken' = [chars |-> e, marked |-> FALSE] BY <1>2, <1>3, <1>4, <1>5, <1>9, <2>1 DEF Kept
  <2>3. e \in Nat /\ e <= c + n /\ e * Width >= CaptureCap
    <3>1. c + n \in Nat /\ (c + n) * Width \in Nat BY <1>1
    <3>2. (c + n) * Width > CaptureCap BY <1>1, <1>9, <3>1
    <3> QED BY <1>1, <2>1, <3>1, <3>2, LimitIsReached
  <2>4. taken'.chars = e /\ ~taken'.marked /\ e <= produced + n BY <1>4, <1>5, <2>2, <2>3
  <2> QED BY <1>4, <1>9, <2>2, <2>3, <2>4 DEF TakenOK
<1> QED BY <1>6, <1>7, <1>8, <1>9

(* An answer made from what was taken tells its cut.                       *)
LEMMA AnswerTells ==
    ASSUME TakenOK, NEW code, NEW ok, NEW a, a = AnswerOf(code, ok)
    PROVE  /\ a.ok = ok /\ a.code = code
           /\ a.shown <= AnswerCap /\ a.shown <= produced
           /\ ~a.truncated => a.shown = produced \/ taken.chars * Width >= CaptureCap
<1>1. AnswerCap \in Nat BY CommandAssumption
<1>2. taken.chars \in Nat /\ produced \in Nat /\ taken.chars <= produced
      /\ (~taken.marked => taken.chars = produced \/ taken.chars * Width >= CaptureCap)
  BY DEF TakenOK
<1>3. /\ a.ok = ok /\ a.code = code
      /\ a.shown = (IF taken.chars < AnswerCap THEN taken.chars ELSE AnswerCap)
      /\ a.truncated = (taken.marked \/ taken.chars > AnswerCap)
  BY DEF AnswerOf
<1>4. PICK c \in Nat : c = taken.chars BY <1>2
<1>5. a.shown <= AnswerCap /\ a.shown <= produced /\ (c <= AnswerCap => a.shown = c)
  BY <1>1, <1>2, <1>3, <1>4
<1>6. ~a.truncated => ~taken.marked /\ ~(c > AnswerCap) BY <1>3, <1>4, Zenon
<1>7. ~(c > AnswerCap) => c <= AnswerCap BY <1>1
<1>8. ~a.truncated => c = produced \/ c * Width >= CaptureCap BY <1>2, <1>4, <1>6
<1>9. ~a.truncated => a.shown = c BY <1>5, <1>6, <1>7
<1> QED BY <1>3, <1>4, <1>5, <1>8, <1>9

(* What is asked is a command, with paths and tokens as lists.             *)
LEMMA CommandsAre ==
    ASSUME NEW c \in WellFormed \cup Malformed
    PROVE  /\ \E S : c.path \in Seq(S)
           /\ c.trade \in Seq(EnvTokens)
           /\ c.verb = "order" => c.tool = "moomoo"
<1>1. <<>> \in Seq(EnvTokens) /\ \A S : <<>> \in Seq(S) BY EmptySeq
<1>2. \A S : \A q \in SeqsUpTo(S, 3) : q \in Seq(S)
  <2> SUFFICES ASSUME NEW S, NEW q \in SeqsUpTo(S, 3) PROVE q \in Seq(S) OBVIOUS
  <2>1. PICK k \in 0..3 : q \in [1..k -> S] BY DEF SeqsUpTo
  <2> QED BY <2>1, SeqDef
<1>3. \A q \in AskedPaths : \E S : q \in Seq(S)
  <2>1. <<".env">> \in Seq({".env"}) /\ <<"data">> \in Seq({"data"})
        /\ <<"dir", "data">> \in Seq({"dir", "data"})
    OBVIOUS
  <2> QED BY <1>2, <2>1 DEF AskedPaths
<1>4. CASE c \in {Bash(v, p) : v \in {"workspace", "repo"}, p \in AskedPaths}
  <2>1. PICK v \in {"workspace", "repo"}, p \in AskedPaths : c = Bash(v, p) BY <1>4
  <2>2. c.path = p /\ c.trade = <<>> /\ c.verb = "read" BY <2>1 DEF Bash
  <2> QED BY <1>1, <1>3, <2>2
<1>5. CASE c = Openbb
  <2>1. c.path = <<>> /\ c.trade = <<>> /\ c.verb = "quote" BY <1>5 DEF Openbb
  <2> QED BY <1>1, <2>1
<1>6. ASSUME NEW verb, NEW t \in Seq(EnvTokens), c = Moomoo(verb, t)
      PROVE  /\ \E S : c.path \in Seq(S)
             /\ c.trade \in Seq(EnvTokens) /\ c.tool = "moomoo"
  <2>1. c.path = <<>> /\ c.trade = t /\ c.tool = "moomoo" BY <1>6 DEF Moomoo
  <2> QED BY <1>1, <2>1
<1>7. CASE c = Moomoo("quote", <<>>) BY <1>1, <1>6, <1>7
<1>8. CASE c \in {Moomoo("order", t) : t \in SeqsUpTo(EnvTokens, 3)}
  <2>1. PICK t \in SeqsUpTo(EnvTokens, 3) : c = Moomoo("order", t) BY <1>8
  <2>2. t \in Seq(EnvTokens) BY <1>2
  <2> QED BY <1>6, <2>1, <2>2
<1>9. CASE c \in Malformed
  <2>1. PICK d \in {Openbb, Bash("repo", <<>>), Moomoo("quote", <<>>)} : c = [d EXCEPT !.verb = "other"]
    BY <1>9 DEF Malformed
  <2>2. c.path = <<>> /\ c.trade = <<>> /\ c.verb = "other" BY <2>1 DEF Openbb, Bash, Moomoo
  <2> QED BY <1>1, <2>2
<1> QED BY <1>4, <1>5, <1>7, <1>8, <1>9 DEF WellFormed

(* An open call was let through, so it orders in simulation and reads       *)
(* within its view.                                                        *)
LEMMA IndImpliesCommand == CommandInd => CommandInv
<1> SUFFICES ASSUME CommandInd PROVE CommandInv OBVIOUS
<1>1. CASE commandCall = "open"
  <2>1. Allowed(command) /\ command \in WellFormed \cup Malformed BY <1>1 DEF CommandInd, CallOK
  <2>2. /\ \E S : command.path \in Seq(S)
        /\ command.trade \in Seq(EnvTokens)
        /\ command.verb = "order" => command.tool = "moomoo"
    BY <2>1, CommandsAre
  <2>3. OrdersAreSimulated
    <3> SUFFICES ASSUME command.verb = "order" PROVE EnvUsed(command.trade) = "SIMULATE"
      BY DEF OrdersAreSimulated
    <3>1. OnlySimulated(command.trade) BY <2>1, <2>2 DEF Allowed
    <3> QED BY <2>2, <3>1, SimulatedIsUsed
  <2>4. PathsStayInside
    <3> SUFFICES ASSUME command.tool = "bash"
                 PROVE  \A k \in 0..Len(command.path) : Depth(command.path, k) >= 0
      BY DEF PathsStayInside
    <3>1. SafePath(command.view, command.path) BY <2>1 DEF Allowed
    <3>2. PICK S : command.path \in Seq(S) BY <2>2
    <3> QED BY <3>1, <3>2, SafePathsStay
  <2> QED BY <1>1, <2>3, <2>4 DEF CommandInd, CommandInv
<1>2. CASE commandCall # "open"
  <2>1. OrdersAreSimulated /\ PathsStayInside BY <1>2 DEF OrdersAreSimulated, PathsStayInside
  <2>2. WindowsCoverTable
    <3> SUFFICES ASSUME NEW total \in 0..MaxTableRows, NEW limit \in 1..MaxTableRows
                 PROVE  LET all == ReadAll(total, limit)
                        IN  /\ UNION {all[k] : k \in 1..Len(all)} = 1..total
                            /\ \A j, k \in 1..Len(all) : j < k => all[j] \cap all[k] = {}
      BY DEF WindowsCoverTable
    <3>1. total \in Nat /\ limit \in Nat \ {0} BY CommandAssumption
    <3>2. PICK all : all = ReadAll(total, limit) OBVIOUS
    <3>3. /\ UNION {all[k] : k \in 1..Len(all)} = 1..total
          /\ \A j, k \in 1..Len(all) : j < k => all[j] \cap all[k] = {}
      BY <3>1, <3>2, WindowsCover
    <3> QED BY <3>2, <3>3
  <2> QED BY <2>1, <2>2 DEF CommandInd, CommandInv
<1> QED BY <1>1, <1>2

(* Whatever is asked of the tools, whatever a program writes and however it *)
(* ends: orders that run are simulated ones, paths stay in their view, cuts *)
(* are told, success is real, and windows cover a table.                    *)
THEOREM CommandsAreSound == CommandSpec => []CommandInv
<1>1. CommandInit => CommandInd
  <2> SUFFICES ASSUME CommandInit PROVE CommandInd OBVIOUS
  <2>1. TakenOK BY DEF CommandInit, TakenOK, NothingTaken
  <2>2. CallOK
    <3>1. Openbb \in WellFormed BY DEF WellFormed
    <3>2. commandCall = "idle" /\ timedOut = FALSE /\ command = Openbb /\ child = "none"
      BY DEF CommandInit
    <3> QED BY <3>1, <3>2 DEF CallOK
  <2>3. CutsAreTold /\ SuccessIsReal BY DEF CommandInit, CutsAreTold, SuccessIsReal
  <2> QED BY <2>1, <2>2, <2>3 DEF CommandInd
<1>2. ASSUME CommandInd, [CommandNext]_commandVars PROVE CommandInd'
  <2>0. TakenOK /\ CallOK /\ CutsAreTold /\ SuccessIsReal BY <1>2 DEF CommandInd
  <2>1. ASSUME NEW c \in WellFormed \cup Malformed, AskCommand(c) PROVE CommandInd'
    <3>1. TakenOK' BY <2>1 DEF AskCommand, TakenOK, NothingTaken
    <3>2. CASE Allowed(c)
      <4>1. commandCall' = "open" /\ command' = c /\ timedOut' = FALSE BY <2>1, <3>2 DEF AskCommand
      <4>2. CallOK' BY <3>2, <4>1 DEF CallOK, Allowed
      <4> QED BY <3>1, <4>1, <4>2 DEF CommandInd, CutsAreTold, SuccessIsReal
    <3>3. CASE ~Allowed(c)
      <4>1. /\ commandCall' = "answered" /\ answer' = [NoAnswer EXCEPT !.code = "not_allowed"]
            /\ child' = child /\ command' = c /\ timedOut' = FALSE /\ commandCall # "open"
        BY <2>1, <3>3 DEF AskCommand
      <4>2. CallOK' BY <2>0, <4>1 DEF CallOK
      <4>3. answer'.ok = FALSE /\ answer'.code = "not_allowed" BY <4>1 DEF NoAnswer
      <4> QED BY <3>1, <4>2, <4>3 DEF CommandInd, CutsAreTold, SuccessIsReal
    <3> QED BY <3>2, <3>3
  <2>2. ASSUME NEW n \in 1..MaxOutput, Writes(n) PROVE CommandInd'
    <3>0. commandCall = "open" /\ commandCall' = "open" BY <2>0, <2>2 DEF Writes, CallOK
    <3>1. n \in Nat \ {0} OBVIOUS
    <3>2. TakenOK' BY <2>0, <2>2, <3>1, OutputIsTaken
    <3>3. CallOK' BY <2>0, <2>2, <3>0 DEF Writes, CallOK, Allowed
    <3> QED BY <3>0, <3>2, <3>3 DEF CommandInd, CutsAreTold, SuccessIsReal
  <2>3. ASSUME NEW code \in {"0", "1", "signal"}, ChildEnds(code) PROVE CommandInd'
    <3>0. commandCall = "open" /\ commandCall' = "open" BY <2>0, <2>3 DEF ChildEnds, CallOK
    <3>1. TakenOK' BY <2>0, <2>3 DEF ChildEnds, runnerVars, TakenOK
    <3>2. CallOK' BY <2>0, <2>3, <3>0 DEF ChildEnds, runnerVars, CallOK, Allowed
    <3> QED BY <3>0, <3>1, <3>2 DEF CommandInd, CutsAreTold, SuccessIsReal
  <2>4. CASE SpawnFails
    <3>1. TakenOK' BY <2>0, <2>4 DEF SpawnFails, runnerVars, TakenOK
    <3>2. CallOK' BY <2>0, <2>4 DEF SpawnFails, runnerVars, CallOK
    <3>3. /\ answer' = [NoAnswer EXCEPT !.code = IF timedOut THEN "timeout" ELSE "error"]
          /\ produced' = 0 /\ commandCall' = "answered"
      BY <2>4 DEF SpawnFails
    <3>4. answer'.ok = FALSE /\ answer'.shown = 0 BY <3>3 DEF NoAnswer
    <3>5. AnswerCap \in Nat BY CommandAssumption
    <3> QED BY <3>1, <3>2, <3>3, <3>4, <3>5 DEF CommandInd, CutsAreTold, SuccessIsReal
  <2>5. CASE ChildCloses
    <3>1. /\ taken' = taken /\ produced' = produced /\ command' = command /\ timedOut' = timedOut
          /\ child' = child /\ exit' = exit /\ child = "gone" /\ commandCall' = "answered"
      BY <2>5 DEF ChildCloses, runnerVars, CommandEnds
    <3>2. TakenOK' BY <2>0, <3>1 DEF TakenOK
    <3>3. CallOK' BY <2>0, <3>1 DEF CallOK
    <3>4. PICK code, ok : /\ answer' = AnswerOf(code, ok)
                          /\ ok = TRUE => exit = "0" /\ ~timedOut
      <4>1. CASE timedOut BY <2>5, <4>1 DEF ChildCloses, CommandEnds
      <4>2. CASE ~timedOut /\ exit = "0" BY <2>5, <4>2 DEF ChildCloses, CommandEnds
      <4>3. CASE ~timedOut /\ exit # "0" BY <2>5, <4>3 DEF ChildCloses, CommandEnds
      <4> QED BY <4>1, <4>2, <4>3
    <3>5. PICK a : a = answer' OBVIOUS
    <3>6. /\ a.ok = ok /\ a.code = code
          /\ a.shown <= AnswerCap /\ a.shown <= produced
          /\ ~a.truncated => a.shown = produced \/ taken.chars * Width >= CaptureCap
      BY <2>0, <3>4, <3>5, AnswerTells
    <3>7. CutsAreTold' BY <3>1, <3>5, <3>6 DEF CutsAreTold
    <3>8. SuccessIsReal' BY <3>1, <3>4, <3>5, <3>6 DEF SuccessIsReal
    <3> QED BY <3>2, <3>3, <3>7, <3>8 DEF CommandInd
  <2>6. CASE CommandTimeout
    <3>0. commandCall = "open" /\ commandCall' = "open" BY <2>6 DEF CommandTimeout
    <3>1. TakenOK' BY <2>0, <2>6 DEF CommandTimeout, TakenOK
    <3>2. CallOK' BY <2>0, <2>6, <3>0 DEF CommandTimeout, CallOK, Allowed
    <3> QED BY <3>0, <3>1, <3>2 DEF CommandInd, CutsAreTold, SuccessIsReal
  <2>7. CASE KillTimer
    <3>1. /\ commandCall' = commandCall /\ command' = command /\ exit' = exit /\ timedOut' = timedOut
          /\ taken' = taken /\ produced' = produced /\ answer' = answer
          /\ commandCall # "open" => child' = child
      BY <2>7 DEF KillTimer, Kills
    <3>2. TakenOK' BY <2>0, <3>1 DEF TakenOK
    <3>3. CallOK' BY <2>0, <3>1 DEF CallOK, Allowed
    <3>4. CutsAreTold' BY <2>0, <3>1 DEF CutsAreTold
    <3>5. SuccessIsReal' BY <2>0, <3>1 DEF SuccessIsReal
    <3> QED BY <3>2, <3>3, <3>4, <3>5 DEF CommandInd
  <2>8. CASE UNCHANGED commandVars
    <3>1. /\ commandCall' = commandCall /\ command' = command /\ exit' = exit /\ timedOut' = timedOut
          /\ taken' = taken /\ produced' = produced /\ answer' = answer /\ child' = child
      BY <2>8 DEF commandVars, childVars, runnerVars
    <3>2. TakenOK' BY <2>0, <3>1 DEF TakenOK
    <3>3. CallOK' BY <2>0, <3>1 DEF CallOK, Allowed
    <3>4. CutsAreTold' /\ SuccessIsReal' BY <2>0, <3>1 DEF CutsAreTold, SuccessIsReal
    <3> QED BY <3>2, <3>3, <3>4 DEF CommandInd
  <2> QED BY <1>2, <2>1, <2>2, <2>3, <2>4, <2>5, <2>6, <2>7, <2>8 DEF CommandNext
<1> QED BY <1>1, <1>2, IndImpliesCommand, PTL DEF CommandSpec
-----------------------------------------------------------------------------
(* The parts of the conversation together.                                 *)

(* A step of the conversation is a step or a stutter of each of its parts.  *)
LEMMA PartsStep ==
    ASSUME [ConversationNext]_conversationVars
    PROVE  /\ [IngressNext]_ingressVars /\ [Next]_vars /\ [PagingNext]_pagingVars
           /\ [LlmNext]_llmVars /\ [CommandNext]_commandVars
<1>1. CASE UNCHANGED conversationVars
  BY <1>1, Zenon DEF conversationVars
<1>2. CASE InIngress(IngressNext)
  BY <1>2, Zenon DEF InIngress
<1>3. CASE InDelivery(Next)
  BY <1>3, Zenon DEF InDelivery
<1>4. CASE InPaging(PagingNext)
  BY <1>4, Zenon DEF InPaging
<1>5. CASE InRound(LlmNext)
  BY <1>5, Zenon DEF InRound
<1>6. CASE InCommand(CommandNext)
  BY <1>6, Zenon DEF InCommand
<1> QED BY <1>1, <1>2, <1>3, <1>4, <1>5, <1>6, Zenon DEF ConversationNext

(* A behaviour of the conversation is one of each of its parts.             *)
LEMMA PartsOfTheConversation ==
    ConversationSpec => IngressSpec /\ Spec /\ PagingSpec /\ LlmSpec /\ CommandSpec
<1>1. ConversationInit => IngressInit /\ Init /\ PagingInit /\ LlmInit /\ CommandInit
  BY DEF ConversationInit
<1>2. [ConversationNext]_conversationVars =>
          /\ [IngressNext]_ingressVars /\ [Next]_vars /\ [PagingNext]_pagingVars
          /\ [LlmNext]_llmVars /\ [CommandNext]_commandVars
  BY PartsStep
<1>3. ConversationSpec => ConversationInit /\ [][ConversationNext]_conversationVars
  BY PTL DEF ConversationSpec
<1> QED BY <1>1, <1>2, <1>3, PTL DEF IngressSpec, Spec, PagingSpec, LlmSpec, CommandSpec

(* What is said reaches the model as it was said, whichever part a          *)
(* behaviour exercises: facts follow the gateways' events, the read cursor  *)
(* covers only what was shown, recovery of model calls is bounded, and a    *)
(* command's answer tells what happened.                                    *)
THEOREM ConversationStaysSound ==
    ConversationSpec =>
        [](FactsFollowEvents /\ CursorCoversShown /\ RecoveryIsBounded /\ CommandInv)
  BY PartsOfTheConversation, FactsKeepFollowing, CursorStaysBehind, RecoveryStaysBounded,
     CommandsAreSound, PTL

(* CursorPassesOnlyDisclosed in the conversation: while rows become visible *)
(* in order and every mailbox has its cursor, a cursor passes no message    *)
(* that was not disclosed.                                                  *)
THEOREM ConversationLosesNothing ==
    ASSUME OrderlyStore
    PROVE  ConversationSpec => []CursorPassesOnlyDisclosed
  BY PartsOfTheConversation, DeliveryLosesNothing, PTL
=============================================================================
