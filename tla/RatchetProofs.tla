--------------------------- MODULE RatchetProofs ---------------------------
(***************************************************************************)
(* What holds of Ratchet for any texts, any number of messages and any     *)
(* width of the counters.                                                  *)
(***************************************************************************)
EXTENDS Ratchet, SequenceTheorems, TLAPS

(***************************************************************************)
(* Chains                                                                  *)
(***************************************************************************)

\* Labels(n) is a list of n numbers.
LEMMA LabelsTyped == \A n \in Nat : Labels(n) \in Seq(Nat) /\ Len(Labels(n)) = n
BY DEF Labels

\* Advancing the chain of counter a up to b gives the chain of counter b.
LEMMA AdvanceLabels ==
  ASSUME NEW a \in Nat, NEW b \in Nat, a <= b
  PROVE  Advance(Labels(a), a, b) = Labels(b)
<1> DEFINE tail == [i \in 1..(b - a) |-> a + i - 1]
<1>1. /\ tail \in Seq(Nat) /\ Len(tail) = b - a
      /\ \A i \in 1..(b - a) : tail[i] = a + i - 1
  OBVIOUS
<1>2. Labels(a) \in Seq(Nat) /\ Len(Labels(a)) = a
  BY LabelsTyped
<1>3. Labels(b) \in Seq(Nat) /\ Len(Labels(b)) = b
  BY LabelsTyped
<1>4. Advance(Labels(a), a, b) = Labels(a) \o tail
  BY DEF Advance
<1> HIDE DEF tail
<1>5. /\ Labels(a) \o tail \in Seq(Nat) /\ Len(Labels(a) \o tail) = a + (b - a)
      /\ \A i \in 1..(a + (b - a)) :
           (Labels(a) \o tail)[i] = IF i <= a THEN Labels(a)[i] ELSE tail[i - a]
  BY <1>1, <1>2, ConcatProperties
<1>6. a + (b - a) = b
  OBVIOUS
<1>7. \A i \in 1..b : (Labels(a) \o tail)[i] = Labels(b)[i]
  <2> SUFFICES ASSUME NEW i \in 1..b
               PROVE  (Labels(a) \o tail)[i] = Labels(b)[i]
    OBVIOUS
  <2>1. (Labels(a) \o tail)[i] = IF i <= a THEN Labels(a)[i] ELSE tail[i - a]
    BY <1>5, <1>6
  <2>2. Labels(b)[i] = i - 1
    BY DEF Labels
  <2>3. i <= a => Labels(a)[i] = i - 1
    BY DEF Labels
  <2>4. ~(i <= a) => i - a \in 1..(b - a) /\ a + (i - a) - 1 = i - 1
    OBVIOUS
  <2> QED BY <2>1, <2>2, <2>3, <2>4, <1>1
<1> QED BY <1>3, <1>4, <1>5, <1>6, <1>7, SeqEqual

(***************************************************************************)
(* Types and the invariant                                                 *)
(***************************************************************************)

\* What decrypt finds to open, it finds under the number it was sent with.
LEMMA OpenedIsGenuine ==
  ASSUME TypeOK, IInv, NEW m \in Arriving, NEW c \in Nat, c = ToInt(m.counter),
         m.key = MessageKey(Labels(c), c)
  PROVE  c < sendCounter /\ m.text = sent[c + 1] /\ m.text \in Text
<1>1. CASE m \in wire
  <2>1. m.counter \in Nat /\ m.counter < sendCounter /\ sendCounter <= MaxSent /\ m.text \in Text
    BY <1>1 DEF TypeOK, Message, IInv, WireIsGenuine
  <2>2. m.counter = c
    BY <2>1, LimitsAssumption DEF ToInt, TypeOK
  <2> QED BY <1>1, <2>1, <2>2 DEF IInv, WireIsGenuine
<1>2. ASSUME NEW w \in wire, NEW d \in 0..(2 * IntLimit - 1), m = [w EXCEPT !.counter = d]
      PROVE  c < sendCounter /\ m.text = sent[c + 1] /\ m.text \in Text
  <2>1. w \in Message /\ m.key = w.key /\ m.text = w.text
    BY <1>2 DEF TypeOK, Message
  <2>2. w.key = MessageKey(Labels(w.counter), w.counter)
    BY DEF IInv, WireIsGenuine
  <2>3. w.counter = c
    BY <2>1, <2>2 DEF MessageKey
  <2> QED BY <2>1, <2>3 DEF IInv, WireIsGenuine, Message
<1>3. ASSUME NEW w \in wire, m = [w EXCEPT !.key = Damaged]
      PROVE  FALSE
  <2>1. w \in Message
    BY DEF TypeOK
  <2>2. m.key = Damaged
    BY <1>3, <2>1 DEF Message
  <2> QED BY <2>2 DEF Damaged, MessageKey
<1> QED BY <1>1, <1>2, <1>3 DEF Arriving

\* The counter of an arriving message is read as an int.
LEMMA ArrivingTyped ==
  ASSUME TypeOK, IInv, NEW m \in Arriving
  PROVE  ToInt(m.counter) \in Int /\ ToInt(m.counter) < IntLimit
<1>1. ASSUME NEW w \in wire
      PROVE  w.counter \in Nat /\ w.counter < IntLimit
  <2>1. w.counter \in Nat /\ w.counter < sendCounter /\ sendCounter <= MaxSent
    BY DEF TypeOK, Message, IInv, WireIsGenuine
  <2> QED BY <2>1, LimitsAssumption DEF TypeOK
<1>2. CASE m \in wire
  BY <1>1, <1>2, LimitsAssumption DEF ToInt
<1>3. ASSUME NEW w \in wire, NEW d \in 0..(2 * IntLimit - 1), m = [w EXCEPT !.counter = d]
      PROVE  ToInt(m.counter) \in Int /\ ToInt(m.counter) < IntLimit
  <2>1. m.counter = d
    BY <1>3 DEF TypeOK, Message
  <2> QED BY <2>1, LimitsAssumption DEF ToInt
<1>4. ASSUME NEW w \in wire, m = [w EXCEPT !.key = Damaged]
      PROVE  ToInt(m.counter) \in Int /\ ToInt(m.counter) < IntLimit
  <2>1. m.counter = w.counter
    BY <1>4 DEF TypeOK, Message
  <2> QED BY <1>1, <2>1, LimitsAssumption DEF ToInt
<1> QED BY <1>2, <1>3, <1>4 DEF Arriving

\* The two outcomes of decrypt: the text that was sent, or a chain moved up.
LEMMA DecryptOutcomes ==
  ASSUME TypeOK, IInv, NEW m \in Arriving, Decrypt(m)
  PROVE  \E c \in Nat :
           /\ recvCounter <= c /\ c < IntLimit
           /\ \/ /\ c < sendCounter /\ m.text = sent[c + 1] /\ m.text \in Text
                 /\ recvCounter' = c + 1 /\ recvChain' = Labels(c + 1)
                 /\ got' = Append(got, [number |-> c, text |-> m.text])
              \/ recvCounter' = c /\ recvChain' = Labels(c) /\ got' = got
<1> DEFINE c == ToInt(m.counter)
<1>1. c \in Int /\ c < IntLimit
  BY ArrivingTyped
<1>2. c \in Nat /\ recvCounter <= c /\ recvCounter \in Nat
  BY <1>1 DEF Decrypt, NotBehind, TypeOK
<1>3. Advance(recvChain, recvCounter, c) = Labels(c)
  BY <1>2, AdvanceLabels DEF IInv, ChainsFollowCounters
<1>4. Advance(Labels(c), c, c + 1) = Labels(c + 1)
  BY <1>2, AdvanceLabels
<1>5. CASE m.key = MessageKey(Labels(c), c)
  <2>1. c < sendCounter /\ m.text = sent[c + 1] /\ m.text \in Text
    BY <1>2, <1>5, OpenedIsGenuine
  <2>2. /\ recvCounter' = c + 1 /\ recvChain' = Labels(c + 1)
        /\ got' = Append(got, [number |-> c, text |-> m.text])
    BY <1>3, <1>4, <1>5 DEF Decrypt, StepDecrypt
  <2> QED BY <1>1, <1>2, <2>1, <2>2
<1>6. CASE m.key # MessageKey(Labels(c), c)
  <2>1. recvCounter' = c /\ recvChain' = Labels(c) /\ got' = got
    BY <1>3, <1>6 DEF Decrypt, StepDecrypt
  <2> QED BY <1>1, <1>2, <2>1
<1> QED BY <1>5, <1>6

\* A message put on the wire is sealed with the key of its number.
LEMMA EncryptSeals ==
  ASSUME TypeOK, IInv, NEW t \in Text, Encrypt(t)
  PROVE  TypeOK' /\ IInv'
<1>1. /\ sendCounter \in Nat /\ sendCounter < MaxSent
      /\ sent \in Seq(Text) /\ Len(sent) = sendCounter
      /\ sendChain = Labels(sendCounter)
  BY DEF TypeOK, IInv, ChainsFollowCounters, Encrypt
<1>2. sendChain' = Labels(sendCounter + 1) /\ sendCounter' = sendCounter + 1
  BY <1>1, AdvanceLabels DEF Encrypt
<1>3. sent' \in Seq(Text) /\ Len(sent') = sendCounter + 1 /\ sent'[sendCounter + 1] = t
      /\ \A i \in 1..sendCounter : sent'[i] = sent[i]
  BY <1>1 DEF Encrypt
<1> DEFINE m == [counter |-> sendCounter, key |-> MessageKey(sendChain, sendCounter), text |-> t]
<1>4. wire' = wire \cup {m}
  BY DEF Encrypt
<1>5. m \in Message
  BY <1>1, LabelsTyped DEF Message, MessageKey, Chain
<1>6. TypeOK'
  <2>1. sendChain' \in Chain
    BY <1>1, <1>2, LabelsTyped DEF Chain
  <2>2. wire' \subseteq Message
    BY <1>4, <1>5 DEF TypeOK
  <2> QED BY <1>1, <1>2, <1>3, <2>1, <2>2 DEF TypeOK, Encrypt
<1>7. WireIsGenuine'
  <2> SUFFICES ASSUME NEW w \in wire'
               PROVE  /\ w.counter < sendCounter'
                      /\ w.key = MessageKey(Labels(w.counter), w.counter)
                      /\ w.text = sent'[w.counter + 1]
    BY DEF WireIsGenuine, MessageKey, Labels
  <2>1. CASE w = m
    BY <1>1, <1>2, <1>3, <2>1
  <2>2. CASE w \in wire
    <3>1. w.counter \in Nat /\ w.counter < sendCounter
      BY <2>2 DEF TypeOK, Message, IInv, WireIsGenuine
    <3>2. w.key = MessageKey(Labels(w.counter), w.counter) /\ w.text = sent[w.counter + 1]
      BY <2>2 DEF IInv, WireIsGenuine
    <3>3. w.counter + 1 \in 1..sendCounter
      BY <1>1, <3>1
    <3> QED BY <1>1, <1>2, <1>3, <3>1, <3>2, <3>3
  <2> QED BY <1>4, <2>1, <2>2
<1>8. ChainsFollowCounters'
  <2>1. UNCHANGED <<recvCounter, recvChain>> /\ recvChain = Labels(recvCounter)
    BY DEF Encrypt, IInv, ChainsFollowCounters
  <2>2. recvChain' = Labels(recvCounter')
    BY <2>1
  <2> QED BY <1>2, <2>2 DEF ChainsFollowCounters
<1>9. sendCounter' <= MaxSent
  BY <1>1, <1>2, LimitsAssumption
<1>10. recvCounter' < IntLimit
  BY DEF Encrypt, IInv
<1> QED BY <1>2, <1>3, <1>6, <1>7, <1>8, <1>9, <1>10 DEF IInv

\* A message that arrives leaves the ends agreeing, whatever happened to it.
LEMMA DecryptKeeps ==
  ASSUME TypeOK, IInv, NEW m \in Arriving, Decrypt(m)
  PROVE  TypeOK' /\ IInv'
<1>1. UNCHANGED <<sendCounter, sendChain, wire, sent>>
  BY DEF Decrypt
<1>2. PICK c \in Nat :
           /\ recvCounter <= c /\ c < IntLimit
           /\ \/ /\ c < sendCounter /\ m.text = sent[c + 1] /\ m.text \in Text
                 /\ recvCounter' = c + 1 /\ recvChain' = Labels(c + 1)
                 /\ got' = Append(got, [number |-> c, text |-> m.text])
              \/ recvCounter' = c /\ recvChain' = Labels(c) /\ got' = got
  BY DecryptOutcomes
<1>3. sendCounter <= MaxSent /\ sendCounter \in Nat
  BY DEF IInv, TypeOK
<1>4. recvCounter' \in Nat /\ recvCounter' < IntLimit
  BY <1>2, <1>3, LimitsAssumption
<1>5. recvChain' = Labels(recvCounter')
  BY <1>2
<1>6. recvChain' \in Chain
  BY <1>4, <1>5, LabelsTyped DEF Chain
<1>7. got' \in Seq(Receipt)
  <2>1. got \in Seq(Receipt)
    BY DEF TypeOK
  <2>2. m.text \in Text => [number |-> c, text |-> m.text] \in Receipt
    BY DEF Receipt
  <2> QED BY <1>2, <2>1, <2>2
<1>8. TypeOK'
  BY <1>1, <1>4, <1>6, <1>7 DEF TypeOK
<1>9. WireIsGenuine'
  BY <1>1 DEF IInv, WireIsGenuine, MessageKey, Labels
<1> QED BY <1>1, <1>4, <1>5, <1>8, <1>9 DEF IInv, ChainsFollowCounters, Labels

\* Types and the invariant hold in every state.
THEOREM Invariance == Spec => [](TypeOK /\ IInv)
<1>1. Init => TypeOK /\ IInv
  <2> SUFFICES ASSUME Init PROVE TypeOK /\ IInv
    OBVIOUS
  <2>1. Labels(0) = <<>>
    BY DEF Labels
  <2>2. TypeOK
    <3>1. <<>> \in Seq(Nat) /\ <<>> \in Seq(Text) /\ <<>> \in Seq(Receipt)
      OBVIOUS
    <3> QED BY <3>1 DEF Init, TypeOK, Chain
  <2> QED BY <2>1, <2>2, LimitsAssumption DEF Init, IInv, ChainsFollowCounters, WireIsGenuine
<1>2. TypeOK /\ IInv /\ [Next]_vars => TypeOK' /\ IInv'
  <2> SUFFICES ASSUME TypeOK, IInv, [Next]_vars PROVE TypeOK' /\ IInv'
    OBVIOUS
  <2>1. ASSUME NEW t \in Text, Encrypt(t)
        PROVE  TypeOK' /\ IInv'
    BY <2>1, EncryptSeals
  <2>2. ASSUME NEW m \in Arriving, Decrypt(m)
        PROVE  TypeOK' /\ IInv'
    BY <2>2, DecryptKeeps
  <2>3. CASE UNCHANGED vars
    BY <2>3 DEF vars, TypeOK, IInv, ChainsFollowCounters, WireIsGenuine, MessageKey, Labels
  <2> QED BY <2>1, <2>2, <2>3 DEF Next
<1> QED BY <1>1, <1>2, PTL DEF Spec

(***************************************************************************)
(* What the invariant gives                                                *)
(***************************************************************************)

\* Every state of every behaviour is well typed.
THEOREM TypeCorrect == Spec => []TypeOK
BY Invariance, PTL

\* The ends never drift apart: what is not behind the receiver opens.
THEOREM FreshOpens == Spec => []FreshMessageOpens
<1>1. TypeOK /\ IInv => FreshMessageOpens
  <2> SUFFICES ASSUME TypeOK, IInv, NEW m \in wire, m.counter >= recvCounter
               PROVE  m.key = MessageKey(Advance(recvChain, recvCounter, m.counter), m.counter)
    BY DEF FreshMessageOpens
  <2>1. m.counter \in Nat /\ recvCounter \in Nat
    BY DEF TypeOK, Message
  <2>2. Advance(recvChain, recvCounter, m.counter) = Labels(m.counter)
    BY <2>1, AdvanceLabels DEF IInv, ChainsFollowCounters
  <2> QED BY <2>2 DEF IInv, WireIsGenuine
<1> QED BY <1>1, Invariance, PTL

\* The counters never leave the range of an int.
THEOREM NoOverflow == Spec => []CountersAreInts
<1>1. TypeOK /\ IInv => CountersAreInts
  BY LimitsAssumption DEF TypeOK, IInv, CountersAreInts
<1> QED BY <1>1, Invariance, PTL

\* The receiver hands out what was sent, each text once and in order.
THEOREM ImplementsInOrderDelivery == Spec => DeliversInOrder
<1>1. Init => Channel!Init
  BY DEF Init, Channel!Init
<1>2. TypeOK /\ IInv /\ [Next]_vars => [Channel!Next]_Channel!vars
  <2> SUFFICES ASSUME TypeOK, IInv, [Next]_vars PROVE [Channel!Next]_Channel!vars
    OBVIOUS
  <2>1. ASSUME NEW t \in Text, Encrypt(t)
        PROVE  Channel!Next
    BY <2>1 DEF Encrypt, Channel!Next, Channel!Send
  <2>2. ASSUME NEW m \in Arriving, Decrypt(m)
        PROVE  [Channel!Next]_Channel!vars
    <3>1. PICK c \in Nat :
           /\ recvCounter <= c /\ c < IntLimit
           /\ \/ /\ c < sendCounter /\ m.text = sent[c + 1] /\ m.text \in Text
                 /\ recvCounter' = c + 1 /\ recvChain' = Labels(c + 1)
                 /\ got' = Append(got, [number |-> c, text |-> m.text])
              \/ recvCounter' = c /\ recvChain' = Labels(c) /\ got' = got
      BY <2>2, DecryptOutcomes
    <3>2. sent' = sent /\ recvCounter \in Nat /\ sendCounter \in Nat /\ Len(sent) = sendCounter
      BY <2>2 DEF Decrypt, TypeOK, IInv
    <3>3. CASE got' = Append(got, [number |-> c, text |-> sent[c + 1]])
               /\ c < sendCounter /\ recvCounter' = c + 1
      <4>1. Channel!Deliver(c)
        BY <3>1, <3>2, <3>3 DEF Channel!Deliver
      <4>2. c \in 0..(Len(sent) - 1)
        BY <3>2, <3>3
      <4> QED BY <4>1, <4>2 DEF Channel!Next
    <3>4. CASE recvCounter' = c /\ got' = got
      BY <3>1, <3>2, <3>4 DEF Channel!Next, Channel!PassOver, Channel!vars
    <3> QED BY <3>1, <3>3, <3>4
  <2>3. CASE UNCHANGED vars
    BY <2>3 DEF vars, Channel!vars
  <2> QED BY <2>1, <2>2, <2>3 DEF Next
<1> QED BY <1>1, <1>2, Invariance, PTL DEF Spec, DeliversInOrder, Channel!Spec

\* The abstract channel keeps its order: what comes next lies past all that has
\* been handed out.
LEMMA ChannelOrder ==
  ASSUME TypeOK, Channel!Ordered, \A i \in 1..Len(got) : got[i].number < recvCounter,
         [Channel!Next]_Channel!vars
  PROVE  (Channel!Ordered /\ \A i \in 1..Len(got) : got[i].number < recvCounter)'
<1>1. /\ got \in Seq(Receipt) /\ Len(got) \in Nat /\ sent \in Seq(Text) /\ Len(sent) \in Nat
      /\ recvCounter \in Nat
  BY DEF TypeOK
<1>2. \A i \in 1..Len(got) : got[i] \in Receipt /\ got[i].number \in Nat
  <2>1. \A i \in 1..Len(got) : got[i] \in Receipt
    BY <1>1
  <2> QED BY <2>1 DEF Receipt
<1>3. ASSUME NEW t \in Text, Channel!Send(t)
      PROVE  (Channel!Ordered /\ \A i \in 1..Len(got) : got[i].number < recvCounter)'
  <2>1. sent' = Append(sent, t) /\ got' = got /\ recvCounter' = recvCounter
    BY <1>3 DEF Channel!Send
  <2>2. /\ Len(sent') = Len(sent) + 1
        /\ \A n \in Nat : n < Len(sent) => sent'[n + 1] = sent[n + 1]
    BY <1>1, <2>1
  <2> QED BY <1>1, <1>2, <2>1, <2>2 DEF Channel!Ordered
<1>4. ASSUME NEW c \in 0..(Len(sent) - 1), Channel!Deliver(c)
      PROVE  (Channel!Ordered /\ \A i \in 1..Len(got) : got[i].number < recvCounter)'
  <2> DEFINE r == [number |-> c, text |-> sent[c + 1]]
  <2>1. /\ recvCounter <= c /\ c < Len(sent) /\ c \in Nat
        /\ got' = Append(got, r) /\ recvCounter' = c + 1 /\ sent' = sent
    BY <1>1, <1>4 DEF Channel!Deliver
  <2>2. r.number = c /\ r.text = sent[c + 1]
    OBVIOUS
  <2> HIDE DEF r
  <2>3. /\ Len(got') = Len(got) + 1 /\ got'[Len(got) + 1] = r
        /\ \A i \in 1..Len(got) : got'[i] = got[i]
    BY <1>1, <2>1
  <2>4. \A i \in 1..Len(got') : i \in 1..Len(got) \/ i = Len(got) + 1
    BY <1>1, <2>3
  <2>5. \A i \in 1..Len(got) : got[i].number < c
    BY <1>1, <1>2, <2>1
  <2> QED BY <1>1, <1>2, <2>1, <2>2, <2>3, <2>4, <2>5 DEF Channel!Ordered
<1>5. CASE Channel!PassOver
  BY <1>1, <1>2, <1>5 DEF Channel!PassOver, Channel!Ordered
<1>6. CASE UNCHANGED Channel!vars
  BY <1>6 DEF Channel!vars, Channel!Ordered
<1> QED BY <1>3, <1>4, <1>5, <1>6 DEF Channel!Next

\* The texts decrypt hands out are the ones sent under their numbers, and the
\* numbers only grow: nothing is handed out twice or out of order.
COROLLARY HandsOutInOrder == Spec => []Channel!Ordered
<1> DEFINE Below == \A i \in 1..Len(got) : got[i].number < recvCounter
<1>1. Channel!Init => Channel!Ordered /\ Below
  BY DEF Channel!Init, Channel!Ordered
<1>2. TypeOK /\ Channel!Ordered /\ Below /\ [Channel!Next]_Channel!vars
        => (Channel!Ordered /\ Below)'
  BY ChannelOrder
<1> QED BY <1>1, <1>2, TypeCorrect, ImplementsInOrderDelivery, PTL DEF DeliversInOrder, Channel!Spec
=============================================================================
