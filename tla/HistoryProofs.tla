---------------------------- MODULE HistoryProofs ----------------------------
(* Lemmas about the bounded history, for histories of any length.          *)
EXTENDS History, SequenceTheorems, TLAPS

\* Below the modulus nothing wraps.
LEMMA ModSmall == \A k \in Nat, n \in Nat \ {0} : k < n => k % n = k
OBVIOUS

\* An id stays an int.
LEMMA SuccType == \A id \in Ids : Succ(id) \in Ids
BY HistoryAssumption DEF Ids, Succ

\* What Record keeps: everything, or all but the oldest entry.
LEMMA RecordShape ==
    ASSUME NEW s \in Seq(Ids), NEW id \in Ids, Len(s) <= MaxHistory
    PROVE  /\ Record(s, id) \in Seq(Ids)
           /\ Len(s) < MaxHistory =>
                /\ Len(Record(s, id)) = Len(s) + 1
                /\ Record(s, id)[Len(s) + 1] = id
                /\ \A i \in 1 .. Len(s) : Record(s, id)[i] = s[i]
           /\ Len(s) = MaxHistory /\ MaxHistory > 0 =>
                /\ Len(Record(s, id)) = MaxHistory
                /\ Record(s, id)[MaxHistory] = id
                /\ \A i \in 1 .. MaxHistory - 1 : Record(s, id)[i] = s[i + 1]
           /\ MaxHistory = 0 => Len(Record(s, id)) = 0
<1> DEFINE t == Append(s, id)
<1>1. /\ t \in Seq(Ids) /\ Len(t) = Len(s) + 1 /\ Len(s) \in Nat
      /\ t[Len(s) + 1] = id
      /\ \A i \in 1 .. Len(s) : t[i] = s[i]
  BY AppendProperties, LenProperties
<1>2. CASE Len(s) < MaxHistory
  BY <1>1, <1>2, HistoryAssumption DEF Record
<1>3. CASE Len(s) = MaxHistory
  <2>1. Record(s, id) = SubSeq(t, 2, MaxHistory + 1)
    BY <1>1, <1>3, HistoryAssumption DEF Record
  <2>2. \A i \in 2 .. MaxHistory + 1 : t[i] \in Ids
    BY <1>1, <1>3, ElementOfSeq
  <2>3. /\ SubSeq(t, 2, MaxHistory + 1) \in Seq(Ids)
        /\ Len(SubSeq(t, 2, MaxHistory + 1)) = MaxHistory
        /\ \A i \in 1 .. MaxHistory : SubSeq(t, 2, MaxHistory + 1)[i] = t[i + 1]
    BY <1>1, <1>3, <2>2, SubSeqProperties, HistoryAssumption
  <2> QED
    BY <1>1, <1>3, <2>1, <2>3, HistoryAssumption
<1> QED
  BY <1>1, <1>2, <1>3, HistoryAssumption

\* Recording the next id moves the window on.
LEMMA RecordWindow ==
    ASSUME NEW s \in Seq(Ids), NEW first \in {0, 1}, NEW next \in Ids,
           Window(s, first, next)
    PROVE  Window(Record(s, next), first, Succ(next))
<1> DEFINE r == Record(s, next)
<1>1. Len(s) \in Nat /\ Len(s) <= MaxHistory
  BY LenProperties DEF Window
<1>2. CASE Len(s) < MaxHistory
  <2>1. /\ Len(r) = Len(s) + 1
        /\ r[Len(s) + 1] = next
        /\ \A i \in 1 .. Len(s) : r[i] = s[i]
    BY <1>1, <1>2, RecordShape
  <2>2. \A i \in 1 .. Len(r) - 1 : r[i + 1] = Succ(r[i])
    <3> SUFFICES ASSUME NEW i \in 1 .. Len(s) PROVE r[i + 1] = Succ(r[i])
      BY <2>1, <1>1
    <3>1. CASE i = Len(s)
      BY <1>1, <2>1, <3>1 DEF Window
    <3>2. CASE i < Len(s)
      <4>1. i \in 1 .. Len(s) - 1 /\ i + 1 \in 1 .. Len(s)
        BY <1>1, <3>2
      <4> QED
        BY <2>1, <4>1 DEF Window
    <3> QED
      BY <1>1, <3>1, <3>2
  <2>3. Len(r) < MaxHistory => Succ(next) = first + Len(r)
    <3>1. next = first + Len(s)
      BY <1>2 DEF Window
    <3> HIDE DEF r
    <3> SUFFICES ASSUME Len(r) < MaxHistory PROVE Succ(next) = first + Len(r)
      OBVIOUS
    <3>2. next + 1 < IntModulus
      BY <1>1, <2>1, <3>1, HistoryAssumption
    <3>3. Succ(next) = next + 1
      <4>1. next + 1 \in Nat /\ IntModulus \in Nat \ {0}
        BY HistoryAssumption DEF Ids
      <4> QED
        BY <3>2, <4>1, ModSmall DEF Succ
    <3> QED
      BY <1>1, <2>1, <3>1, <3>3
  <2>4. Len(r) <= MaxHistory
    BY <1>1, <1>2, <2>1, HistoryAssumption
  <2>5. Succ(r[Len(r)]) = Succ(next)
    BY <2>1
  <2> HIDE DEF r
  <2>6. Window(r, first, Succ(next))
    BY <2>2, <2>3, <2>4, <2>5 DEF Window
  <2> QED
    BY <2>6 DEF r
<1>3. CASE Len(s) = MaxHistory /\ MaxHistory > 0
  <2>1. /\ Len(r) = MaxHistory
        /\ r[MaxHistory] = next
        /\ \A i \in 1 .. MaxHistory - 1 : r[i] = s[i + 1]
    BY <1>1, <1>3, RecordShape
  <2>2. \A i \in 1 .. Len(r) - 1 : r[i + 1] = Succ(r[i])
    <3> SUFFICES ASSUME NEW i \in 1 .. MaxHistory - 1 PROVE r[i + 1] = Succ(r[i])
      BY <2>1
    <3>1. CASE i = MaxHistory - 1
      BY <1>3, <2>1, <3>1, HistoryAssumption DEF Window
    <3>2. CASE i < MaxHistory - 1
      <4>1. i + 1 \in 1 .. MaxHistory - 1
        BY <3>2, HistoryAssumption
      <4> QED
        BY <1>3, <2>1, <4>1 DEF Window
    <3> QED
      BY <3>1, <3>2, HistoryAssumption
  <2> HIDE DEF r
  <2> QED
    BY <2>1, <2>2, <1>3, HistoryAssumption DEF Window, r
<1>4. CASE MaxHistory = 0
  BY <1>1, <1>4, RecordShape DEF Window
<1> QED
  BY <1>1, <1>2, <1>3, <1>4, HistoryAssumption
=============================================================================
