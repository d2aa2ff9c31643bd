------------------------------ MODULE Ratchet ------------------------------
(***************************************************************************)
(* DoubleRatchetSession: the sending end and the receiving end of one      *)
(* direction, and a network that loses, repeats, reorders and damages      *)
(* messages.                                                               *)
(*                                                                         *)
(* A chain key is the list of the labels it has been advanced with: HMAC   *)
(* is taken to be injective, so equal keys are equal lists.  The key of a  *)
(* message is the pair of the chain key and the label it is derived with.  *)
(* The header (the counter) is not covered by the AEAD tag.                *)
(***************************************************************************)
EXTENDS Integers, Sequences

CONSTANTS Text,     \* the plaintexts
          MaxSent,  \* bound: messages sent
          IntLimit  \* 2^31: int counters, sent as unsigned 32-bit numbers

ASSUME LimitsAssumption == /\ MaxSent \in Nat /\ IntLimit \in Nat
                           /\ MaxSent < IntLimit

VARIABLES sendCounter, sendChain,  \* m_sendCounter, m_sendChainKey
          recvCounter, recvChain,  \* m_receiveCounter, m_receiveChainKey
          wire,                    \* every message put on the network
          sent,                    \* history: the plaintexts given to encrypt
          got                      \* history: the plaintexts decrypt returned

vars == <<sendCounter, sendChain, recvCounter, recvChain, wire, sent, got>>

\* fromSharedSecret: both ends start from the base chain key.
Init == /\ sendCounter = 0 /\ sendChain = <<>>
        /\ recvCounter = 0 /\ recvChain = <<>>
        /\ wire = {}
        /\ sent = <<>> /\ got = <<>>

\* nextMessageKey
MessageKey(chain, counter) == <<chain, counter>>

\* advanceChain, once for each label from..to-1.
Advance(chain, from, to) == chain \o [i \in 1..(to - from) |-> from + i - 1]

Encrypt(t) ==
  /\ sendCounter < MaxSent
  /\ wire' = wire \cup {[counter |-> sendCounter,
                         key     |-> MessageKey(sendChain, sendCounter),
                         text    |-> t]}
  /\ sendChain' = Advance(sendChain, sendCounter, sendCounter + 1)
  /\ sendCounter' = sendCounter + 1
  /\ sent' = Append(sent, t)
  /\ UNCHANGED <<recvCounter, recvChain, got>>

\* Mutant: the counter is kept as it was on the wire.
AsUnsigned(c) == c

\* deserialize: the 32 bits of the header read as an int.
ToInt(c) == IF c < IntLimit THEN c ELSE c - 2 * IntLimit

\* The AEAD tag of a damaged body, or of the wrong associated data, fits no key.
Damaged == <<<<>>, -1>>

\* What may arrive: a message, as it was sent or with its header or its
\* body changed.
Arriving == wire \cup {[m EXCEPT !.counter = c] : m \in wire, c \in 0..(2 * IntLimit - 1)}
                 \cup {[m EXCEPT !.key = Damaged] : m \in wire}

\* Mutant: decrypt takes any counter.
AnyCounter(counter) == TRUE

\* decrypt turns away what is behind its counter.
NotBehind(counter) == counter >= recvCounter

\* Mutant: the receiving chain is left where it was when the tag is wrong.
StepDecryptRollback(counter, m) ==
  LET chain == Advance(recvChain, recvCounter, counter)
  IN IF m.key = MessageKey(chain, counter)
     THEN /\ recvChain' = Advance(chain, counter, counter + 1)
          /\ recvCounter' = counter + 1
          /\ got' = Append(got, [number |-> counter, text |-> m.text])
     ELSE /\ recvCounter' = counter
          /\ UNCHANGED <<recvChain, got>>

\* Mutant: nothing moves past the message that was opened.
StepDecryptStay(counter, m) ==
  LET chain == Advance(recvChain, recvCounter, counter)
  IN /\ recvChain' = chain
     /\ recvCounter' = counter
     /\ got' = IF m.key = MessageKey(chain, counter)
               THEN Append(got, [number |-> counter, text |-> m.text]) ELSE got

\* The chain is moved up to the message's counter before its tag is checked,
\* and one further only when the tag fits.
StepDecrypt(counter, m) ==
  LET chain == Advance(recvChain, recvCounter, counter)
  IN IF m.key = MessageKey(chain, counter)
     THEN /\ recvChain' = Advance(chain, counter, counter + 1)
          /\ recvCounter' = counter + 1
          /\ got' = Append(got, [number |-> counter, text |-> m.text])
     ELSE /\ recvChain' = chain
          /\ recvCounter' = counter
          /\ UNCHANGED got

Decrypt(m) ==
  /\ NotBehind(ToInt(m.counter))
  /\ StepDecrypt(ToInt(m.counter), m)
  /\ UNCHANGED <<sendCounter, sendChain, wire, sent>>

Next == \/ \E t \in Text : Encrypt(t)
        \/ \E m \in Arriving : Decrypt(m)

Spec == Init /\ [][Next]_vars

(***************************************************************************)
(* Properties                                                              *)
(***************************************************************************)

\* The chain key after n messages.
Labels(n) == [i \in 1..n |-> i - 1]

Chain   == Seq(Nat)
Message == [counter : Nat, key : Chain \X Int, text : Text]
Receipt == [number : Nat, text : Text]

\* The type invariant.
TypeOK == /\ sendCounter \in Nat /\ sendChain \in Chain
          /\ recvCounter \in Nat /\ recvChain \in Chain
          /\ wire \subseteq Message
          /\ sent \in Seq(Text)
          /\ got \in Seq(Receipt)

\* Whatever arrived before, a message that is not behind the receiver opens:
\* losing, repeating and damaging messages never takes the two ends apart.
\* (decrypt moves its chain for a message it then refuses, and for the ones
\* it skips; the chain must stay the one the sender sealed with.)
FreshMessageOpens ==
  \A m \in wire : m.counter >= recvCounter =>
    m.key = MessageKey(Advance(recvChain, recvCounter, m.counter), m.counter)

\* The counters stay ints: no jump makes the receiver's counter overflow.
CountersAreInts == sendCounter < IntLimit /\ recvCounter < IntLimit

Channel == INSTANCE InOrderDelivery WITH next <- recvCounter

\* decrypt hands out only texts that were sent, each once and in order,
\* with any header and any body: the promise of InOrderDelivery.
DeliversInOrder == Channel!Spec

(***************************************************************************)
(* The inductive invariant                                                 *)
(***************************************************************************)

\* Each end's chain is the one its counter says.
ChainsFollowCounters == /\ sendChain = Labels(sendCounter)
                        /\ recvChain = Labels(recvCounter)

\* What is on the wire was sealed with the key of its number.
WireIsGenuine ==
  \A m \in wire : /\ m.counter < sendCounter
                  /\ m.key = MessageKey(Labels(m.counter), m.counter)
                  /\ m.text = sent[m.counter + 1]

IInv == /\ Len(sent) = sendCounter /\ sendCounter <= MaxSent
        /\ recvCounter < IntLimit
        /\ ChainsFollowCounters
        /\ WireIsGenuine
=============================================================================
