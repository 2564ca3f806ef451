--------------------------- MODULE SequenceFacts ---------------------------
(***************************************************************************)
(* Facts about tables that are kept as sequences.  What the rows hold is   *)
(* of no interest to most steps, so a table is said to be a sequence over  *)
(* its own rows.                                                           *)
(***************************************************************************)
EXTENDS Integers, Sequences, TLAPS

(* s is a sequence of whatever it holds.                                    *)
IsSequence(s) == s \in Seq({s[i] : i \in DOMAIN s})

(* A sequence is a function on 1 .. n.                                      *)
LEMMA SequenceDomain ==
    ASSUME NEW s, IsSequence(s)
    PROVE  Len(s) \in Nat /\ DOMAIN s = 1 .. Len(s)
BY DEF IsSequence

(* A function on 1 .. n is a sequence.                                      *)
LEMMA SequenceOn ==
    ASSUME NEW s, NEW n \in Nat, DOMAIN s = 1 .. n, s = [i \in DOMAIN s |-> s[i]]
    PROVE  IsSequence(s)
<1>. DEFINE R == {s[i] : i \in DOMAIN s}
<1>1. s \in [1 .. n -> R]
  OBVIOUS
<1>2. s \in Seq(R)
  BY <1>1
<1>. QED  BY <1>2 DEF IsSequence

(* A member of Seq(S) is one.                                               *)
LEMMA SequenceOf ==
    ASSUME NEW S, NEW s \in Seq(S)
    PROVE  IsSequence(s)
<1>1. Len(s) \in Nat /\ DOMAIN s = 1 .. Len(s) /\ s = [i \in DOMAIN s |-> s[i]]
  OBVIOUS
<1>. QED  BY <1>1, SequenceOn

(* Appending keeps the members there are and adds one.                      *)
LEMMA SequenceAppend ==
    ASSUME NEW s, IsSequence(s), NEW e
    PROVE  /\ IsSequence(Append(s, e))
           /\ DOMAIN Append(s, e) = 1 .. Len(s) + 1
           /\ \A i \in DOMAIN s : Append(s, e)[i] = s[i]
           /\ Append(s, e)[Len(s) + 1] = e
<1>. DEFINE R == {s[i] : i \in DOMAIN s} \cup {e}
            a == Append(s, e)
<1>1. s \in Seq(R) /\ Len(s) \in Nat /\ DOMAIN s = 1 .. Len(s)
  BY DEF IsSequence
<1>2. /\ a \in Seq(R)
      /\ DOMAIN a = 1 .. Len(s) + 1
      /\ \A i \in DOMAIN s : a[i] = s[i]
      /\ a[Len(s) + 1] = e
  BY <1>1
<1>3. IsSequence(a)
  BY <1>2, SequenceOf, Zenon
<1>. QED  BY <1>2, <1>3, Zenon

Grown(s, t, e) ==
    \E n : /\ IsSequence(t)
           /\ DOMAIN t = DOMAIN s \cup {n}
           /\ \A i \in DOMAIN s : t[i] = s[i]
           /\ t[n] = e

(* The same without arithmetic: the new member has a place of its own.      *)
LEMMA SequenceGrows ==
    ASSUME NEW s, IsSequence(s), NEW e
    PROVE  Grown(s, Append(s, e), e)
<1>1. Len(s) \in Nat /\ DOMAIN s = 1 .. Len(s)
  BY SequenceDomain
<1>2. /\ IsSequence(Append(s, e))
      /\ DOMAIN Append(s, e) = 1 .. Len(s) + 1
      /\ \A i \in DOMAIN s : Append(s, e)[i] = s[i]
      /\ Append(s, e)[Len(s) + 1] = e
  BY SequenceAppend, Zenon
<1>3. 1 .. Len(s) + 1 = DOMAIN s \cup {Len(s) + 1}
  BY <1>1
<1>. QED  BY <1>2, <1>3, Zenon DEF Grown

(* So does concatenation, with the members of the second sequence.          *)
LEMMA SequenceConcat ==
    ASSUME NEW s, IsSequence(s), NEW t, IsSequence(t)
    PROVE  /\ IsSequence(s \o t)
           /\ DOMAIN (s \o t) = 1 .. Len(s) + Len(t)
           /\ \A i \in DOMAIN s : (s \o t)[i] = s[i]
           /\ \A c \in DOMAIN (s \o t) \ DOMAIN s : \E i \in DOMAIN t : (s \o t)[c] = t[i]
<1>. DEFINE R == {s[i] : i \in DOMAIN s} \cup {t[i] : i \in DOMAIN t}
            a == s \o t
<1>1. /\ s \in Seq(R) /\ Len(s) \in Nat /\ DOMAIN s = 1 .. Len(s)
      /\ t \in Seq(R) /\ Len(t) \in Nat /\ DOMAIN t = 1 .. Len(t)
  BY DEF IsSequence
<1>2. /\ a \in Seq(R)
      /\ DOMAIN a = 1 .. Len(s) + Len(t)
      /\ \A i \in DOMAIN s : a[i] = s[i]
      /\ \A i \in DOMAIN t : a[Len(s) + i] = t[i]
  BY <1>1
<1>3. IsSequence(a)
  BY <1>2, SequenceOf, Zenon
<1>4. ASSUME NEW c \in DOMAIN a \ DOMAIN s
      PROVE  \E i \in DOMAIN t : a[c] = t[i]
  <2>1. c - Len(s) \in DOMAIN t /\ Len(s) + (c - Len(s)) = c
    BY <1>1, <1>2
  <2>2. a[c] = t[c - Len(s)]
    BY <1>2, <2>1
  <2>. QED  BY <2>1, <2>2
<1>. QED  BY <1>2, <1>3, <1>4, Zenon

(* Replacing members in place leaves a sequence.                            *)
LEMMA SequenceRewritten ==
    ASSUME NEW a, IsSequence(a), NEW b, DOMAIN b = DOMAIN a, b = [i \in DOMAIN b |-> b[i]]
    PROVE  IsSequence(b)
BY SequenceDomain, SequenceOn
=============================================================================
