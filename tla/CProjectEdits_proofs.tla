----------------------- MODULE CProjectEdits_proofs ------------------------
(***************************************************************************)
(* Proofs about CProjectEdits: a call makes all of its edits or none       *)
(* (MakesAllOrNothing), touches only what it was asked to                  *)
(* (ChangesOnlyAsked), and leaves every document as it is when it is made  *)
(* again (RepeatIsHarmless), for any machines, calls, documents and faults *)
(* that satisfy the assumptions of CProjectEdits.                          *)
(*                                                                         *)
(* None is inductive: half way through a call a document holds some of the *)
(* edits, and a file may be torn.  The invariant EditsInv says what a call *)
(* has at each of its places: the first two properties then speak of the   *)
(* places where it is over.  It comes after what it rests on: induction,   *)
(* sequences, the tables and the edits they ask for, what an edit does to  *)
(* a document, and what a call can resolve to.  One lemma per action       *)
(* follows it.                                                             *)
(*                                                                         *)
(* RepeatInv adds what makes the third one inductive: that an edit, once   *)
(* made, is settled - it would change nothing again, or what it did would  *)
(* be dropped again - and that no later edit unsettles it.                 *)
(***************************************************************************)
EXTENDS CProjectEdits, WellFoundedInduction, FiniteSetTheorems, TLAPS

-----------------------------------------------------------------------------
(* Induction, over a set: the library's takes a predicate.                 *)

\* A set of numbers with 0 in it, and with each number the next one, has them all.
LEMMA SetInduction ==
    ASSUME NEW T, 0 \in T, \A n \in Nat : n \in T => n + 1 \in T
    PROVE  Nat \subseteq T
<1> DEFINE Missing == Nat \ T
<1>1. SUFFICES ASSUME Missing # {} PROVE FALSE
  OBVIOUS
<1>2. PICK m \in Missing : \A y \in Missing : ~(<<y, m>> \in OpToRel(<, Nat))
  BY <1>1, NatLessThanWellFounded, WFMin
<1>3. m \in Nat /\ m \notin T /\ \A y \in Missing : ~(y < m)
  BY <1>2 DEF OpToRel
<1>4. m # 0
  BY <1>3
<1>5. m - 1 \in Nat /\ m - 1 < m /\ (m - 1) + 1 = m
  BY <1>3, <1>4
<1>6. m - 1 \in T
  BY <1>3, <1>5
<1> QED
  BY <1>3, <1>5, <1>6

-----------------------------------------------------------------------------
(* FlattenSeq, which is a recursive function.                              *)

\* What FlattenSeq has put together after each of the sequences.
LEMMA Flattening ==
    ASSUME NEW S, NEW ss \in Seq(Seq(S))
    PROVE  \E f \in [0..Len(ss) -> Seq(S)] :
               /\ f[0] = <<>> /\ FlattenSeq(ss) = f[Len(ss)]
               /\ \A i \in 1..Len(ss) : f[i] = f[i - 1] \o ss[i]
<1>1. CASE Len(ss) = 0
  <2>1. ss = <<>> /\ <<>> \in Seq(S)
    BY <1>1
  <2>2. FlattenSeq(ss) = <<>>
    BY <1>1, <2>1 DEF FlattenSeq
  <2> DEFINE f == [i \in 0..Len(ss) |-> <<>>]
  <2>3. /\ f \in [0..Len(ss) -> Seq(S)] /\ f[0] = <<>> /\ f[Len(ss)] = <<>>
        /\ 1..Len(ss) = {}
    BY <1>1, <2>1
  <2> QED
    BY <2>2, <2>3
<1>2. CASE Len(ss) # 0
  <2> DEFINE Is(f, n) == \A i \in 1..n : f[i] = IF i = 1 THEN ss[i] ELSE f[i - 1] \o ss[i]
             Reaches(n) == \E f \in [1..n -> Seq(S)] : Is(f, n)
             T == {n \in Nat : n + 1 <= Len(ss) => Reaches(n + 1)}
  <2>1. 0 \in T
    <3> DEFINE f == [i \in 1..0 + 1 |-> ss[1]]
    <3>1. f \in [1..0 + 1 -> Seq(S)] /\ Is(f, 0 + 1)
      BY <1>2
    <3>2. Reaches(0 + 1)
      BY <3>1
    <3> QED
      BY <3>2
  <2>2. \A n \in Nat : n \in T => n + 1 \in T
    <3> HIDE DEF Reaches
    <3>1. SUFFICES ASSUME NEW n \in Nat, n + 1 <= Len(ss) => Reaches(n + 1), (n + 1) + 1 <= Len(ss)
                   PROVE  Reaches((n + 1) + 1)
      OBVIOUS
    <3>7. Len(ss) \in Nat /\ n + 1 <= Len(ss)
      BY <3>1
    <3>8. Reaches(n + 1)
      BY <3>1, <3>7
    <3> USE DEF Reaches
    <3>2. PICK f \in [1..n + 1 -> Seq(S)] : Is(f, n + 1)
      BY <3>8
    <3> DEFINE g == [i \in 1..(n + 1) + 1 |-> IF i = n + 2 THEN f[n + 1] \o ss[n + 2] ELSE f[i]]
    <3>3. ss[n + 2] \in Seq(S) /\ f[n + 1] \in Seq(S)
      BY <3>1
    <3>4. f[n + 1] \o ss[n + 2] \in Seq(S)
      BY <3>3
    <3>5. g \in [1..(n + 1) + 1 -> Seq(S)]
      BY <3>4
    <3>6. Is(g, (n + 1) + 1)
      <4>1. SUFFICES ASSUME NEW i \in 1..(n + 1) + 1
                     PROVE  g[i] = IF i = 1 THEN ss[i] ELSE g[i - 1] \o ss[i]
        OBVIOUS
      <4>2. CASE i = n + 2
        <5>1. i # 1 /\ i - 1 = n + 1 /\ n + 1 \in 1..(n + 1) + 1 /\ n + 1 # n + 2
          BY <4>2
        <5>2. g[i] = f[n + 1] \o ss[n + 2] /\ g[i - 1] = f[n + 1]
          BY <4>2, <5>1
        <5> QED
          BY <4>2, <5>1, <5>2
      <4>3. CASE i # n + 2
        <5>1. i \in 1..n + 1
          BY <4>3
        <5>2. f[i] = IF i = 1 THEN ss[i] ELSE f[i - 1] \o ss[i]
          BY <3>2, <5>1
        <5>3. i # 1 => i - 1 \in 1..(n + 1) + 1 /\ i - 1 # n + 2
          BY <5>1
        <5> QED
          BY <4>3, <5>2, <5>3
      <4> QED
        BY <4>2, <4>3
    <3> QED
      BY <3>5, <3>6
  <2> HIDE DEF T
  <2>3. Nat \subseteq T
    BY <2>1, <2>2, SetInduction
  <2> USE DEF T
  <2>4. Len(ss) - 1 \in Nat /\ (Len(ss) - 1) + 1 = Len(ss)
    BY <1>2
  <2>5. Reaches(Len(ss))
    <3> HIDE DEF Reaches
    <3>1. Len(ss) - 1 \in T
      BY <2>3, <2>4
    <3>2. Reaches((Len(ss) - 1) + 1)
      BY <2>4, <3>1
    <3> QED
      BY <2>4, <3>2
  <2>6. PICK h \in [1..Len(ss) -> Seq(S)] : Is(h, Len(ss))
    BY <2>5
  <2> DEFINE Equation(f) == f = [i \in 1..Len(ss) |-> IF i = 1 THEN ss[i] ELSE f[i - 1] \o ss[i]]
             flat == CHOOSE f : Equation(f)
  <2>7. Equation(h)
    BY <2>6
  <2>8. Equation(flat)
    BY <2>7
  <2>9. FlattenSeq(ss) = flat[Len(ss)]
    BY <1>2 DEF FlattenSeq
  <2> HIDE DEF flat
  <2> DEFINE f == [i \in 0..Len(ss) |-> IF i = 0 THEN <<>> ELSE flat[i]]
             Good == {n \in Nat : n + 1 <= Len(ss) => flat[n + 1] \in Seq(S)}
  <2>10. \A i \in 1..Len(ss) : flat[i] = IF i = 1 THEN ss[i] ELSE flat[i - 1] \o ss[i]
    BY <2>8
  <2>11. Nat \subseteq Good
    <3>1. 0 \in Good
      BY <1>2, <2>10
    <3>2. ASSUME NEW n \in Nat, n \in Good PROVE n + 1 \in Good
      <4>1. SUFFICES ASSUME (n + 1) + 1 <= Len(ss) PROVE flat[(n + 1) + 1] \in Seq(S)
        OBVIOUS
      <4>2. flat[n + 1] \in Seq(S) /\ ss[(n + 1) + 1] \in Seq(S)
        BY <3>2, <4>1
      <4>3. flat[(n + 1) + 1] = flat[n + 1] \o ss[(n + 1) + 1]
        <5>1. (n + 1) + 1 \in 1..Len(ss) /\ (n + 1) + 1 # 1 /\ ((n + 1) + 1) - 1 = n + 1
          BY <4>1
        <5> QED
          BY <2>10, <5>1
      <4> QED
        BY <4>2, <4>3
    <3> HIDE DEF Good
    <3> QED
      BY <3>1, <3>2, SetInduction
  <2>12. \A i \in 1..Len(ss) : flat[i] \in Seq(S)
    <3>1. TAKE i \in 1..Len(ss)
    <3>2. i - 1 \in Nat /\ (i - 1) + 1 = i /\ i <= Len(ss)
      OBVIOUS
    <3> HIDE DEF Good
    <3>3. i - 1 \in Good
      BY <2>11, <3>2
    <3> USE DEF Good
    <3> QED
      BY <3>2, <3>3
  <2>13. f \in [0..Len(ss) -> Seq(S)] /\ f[0] = <<>> /\ f[Len(ss)] = flat[Len(ss)]
    BY <1>2, <2>12
  <2>14. ASSUME NEW i \in 1..Len(ss) PROVE f[i] = f[i - 1] \o ss[i]
    <3>1. f[i] = flat[i] /\ ss[i] \in Seq(S)
      OBVIOUS
    <3>2. CASE i = 1
      <4>1. f[i - 1] = <<>> /\ flat[i] = ss[i]
        BY <2>10, <3>2
      <4>2. <<>> \o ss[i] = ss[i]
        BY <3>1
      <4> QED
        BY <3>1, <4>1, <4>2
    <3>3. CASE i # 1
      <4>1. f[i - 1] = flat[i - 1]
        BY <3>3
      <4>2. flat[i] = flat[i - 1] \o ss[i]
        BY <2>10, <3>3
      <4> QED
        BY <3>1, <4>1, <4>2
    <3> QED
      BY <3>2, <3>3
  <2> HIDE DEF f
  <2> QED
    BY <2>9, <2>13, <2>14
<1> QED
  BY <1>1, <1>2

-----------------------------------------------------------------------------
(* The elements of sequences.                                              *)

LEMMA ToSetConcat ==
    ASSUME NEW S, NEW s \in Seq(S), NEW t \in Seq(S)
    PROVE  ToSet(s \o t) = ToSet(s) \cup ToSet(t)
<1>1. /\ Len(s \o t) = Len(s) + Len(t) /\ Len(s) \in Nat /\ Len(t) \in Nat
      /\ DOMAIN (s \o t) = 1..Len(s) + Len(t) /\ DOMAIN s = 1..Len(s) /\ DOMAIN t = 1..Len(t)
      /\ \A i \in 1..Len(s) + Len(t) : (s \o t)[i] = IF i <= Len(s) THEN s[i] ELSE t[i - Len(s)]
  OBVIOUS
<1>2. ToSet(s \o t) \subseteq ToSet(s) \cup ToSet(t)
  BY <1>1 DEF ToSet
<1>3. ToSet(s) \subseteq ToSet(s \o t)
  BY <1>1 DEF ToSet
<1>4. ToSet(t) \subseteq ToSet(s \o t)
  <2>1. SUFFICES ASSUME NEW i \in 1..Len(t) PROVE t[i] \in ToSet(s \o t)
    BY <1>1 DEF ToSet
  <2>2. /\ i + Len(s) \in 1..Len(s) + Len(t) /\ (s \o t)[i + Len(s)] = t[i]
    BY <1>1
  <2> QED
    BY <1>1, <2>2 DEF ToSet
<1> QED
  BY <1>2, <1>3, <1>4

LEMMA ToSetAppend ==
    ASSUME NEW S, NEW s \in Seq(S), NEW e
    PROVE  ToSet(Append(s, e)) = ToSet(s) \cup {e}
<1>1. /\ Len(s) \in Nat /\ DOMAIN s = 1..Len(s) /\ DOMAIN Append(s, e) = 1..Len(s) + 1
      /\ \A i \in 1..Len(s) : Append(s, e)[i] = s[i]
      /\ Append(s, e)[Len(s) + 1] = e
  OBVIOUS
<1>2. 1..Len(s) + 1 = 1..Len(s) \cup {Len(s) + 1}
  BY <1>1
<1> QED
  BY <1>1, <1>2 DEF ToSet

LEMMA ToSetTail ==
    ASSUME NEW S, NEW s \in Seq(S), s # <<>>
    PROVE  /\ Head(s) \in S /\ Tail(s) \in Seq(S)
           /\ ToSet(s) = {Head(s)} \cup ToSet(Tail(s))
<1>1. /\ Len(s) \in Nat /\ Len(s) # 0 /\ DOMAIN s = 1..Len(s) /\ Head(s) = s[1]
      /\ Tail(s) \in Seq(S) /\ Len(Tail(s)) = Len(s) - 1 /\ DOMAIN Tail(s) = 1..Len(s) - 1
      /\ \A i \in 1..Len(s) - 1 : Tail(s)[i] = s[i + 1]
  OBVIOUS
<1>2. ToSet(Tail(s)) \subseteq ToSet(s) /\ Head(s) \in ToSet(s)
  BY <1>1 DEF ToSet
<1>3. ASSUME NEW i \in 1..Len(s) PROVE s[i] \in {Head(s)} \cup ToSet(Tail(s))
  <2>1. i = 1 \/ (i - 1 \in 1..Len(s) - 1 /\ Tail(s)[i - 1] = s[i])
    BY <1>1
  <2> QED
    BY <1>1, <2>1 DEF ToSet
<1> QED
  BY <1>1, <1>2, <1>3 DEF ToSet

LEMMA SingletonElements ==
    ASSUME NEW S, NEW e \in S PROVE ToSet(<<e>>) = {e} /\ <<e>> \in Seq(S)
BY DEF ToSet

LEMMA IsSequence ==
    ASSUME NEW S, NEW n \in Nat, NEW s, s = [i \in 1..n |-> s[i]], \A i \in 1..n : s[i] \in S
    PROVE  s \in Seq(S)
<1>1. s \in [1..n -> S]
  OBVIOUS
<1> QED
  BY <1>1

LEMMA ToSetElements ==
    ASSUME NEW S, NEW s \in Seq(S) PROVE ToSet(s) \subseteq S
BY DEF ToSet

\* What FlattenSeq returns is a sequence of the sequences' elements.
LEMMA Flattened ==
    ASSUME NEW S, NEW ss \in Seq(Seq(S))
    PROVE  /\ FlattenSeq(ss) \in Seq(S)
           /\ ToSet(FlattenSeq(ss)) = UNION {ToSet(ss[i]) : i \in 1..Len(ss)}
<1>1. PICK f \in [0..Len(ss) -> Seq(S)] :
          /\ f[0] = <<>> /\ FlattenSeq(ss) = f[Len(ss)]
          /\ \A i \in 1..Len(ss) : f[i] = f[i - 1] \o ss[i]
  BY Flattening
<1> DEFINE Upto(n) == UNION {ToSet(ss[i]) : i \in 1..n}
           T == {n \in Nat : n <= Len(ss) => ToSet(f[n]) = Upto(n)}
<1>2. 0 \in T
  BY <1>1 DEF ToSet
<1>3. ASSUME NEW n \in Nat, n \in T PROVE n + 1 \in T
  <2>1. SUFFICES ASSUME n + 1 <= Len(ss) PROVE ToSet(f[n + 1]) = Upto(n + 1)
    OBVIOUS
  <2>2. Len(ss) \in Nat /\ n \in 0..Len(ss) /\ n + 1 \in 1..Len(ss) /\ (n + 1) - 1 = n
    BY <2>1
  <2>3. f[n] \in Seq(S) /\ ss[n + 1] \in Seq(S) /\ f[n + 1] = f[n] \o ss[n + 1]
    <3>1. f[n + 1] = f[(n + 1) - 1] \o ss[n + 1]
      BY <1>1, <2>2
    <3>2. f[n] \in Seq(S)
      BY <2>2
    <3> QED
      BY <2>2, <3>1, <3>2
  <2>4. ToSet(f[n + 1]) = ToSet(f[n]) \cup ToSet(ss[n + 1])
    BY <2>3, ToSetConcat
  <2>5. ToSet(f[n]) = Upto(n)
    BY <1>3, <2>2
  <2>6. 1..n + 1 = 1..n \cup {n + 1}
    OBVIOUS
  <2>7. Upto(n + 1) = Upto(n) \cup ToSet(ss[n + 1])
    BY <2>6
  <2> QED
    BY <2>4, <2>5, <2>7
<1> HIDE DEF T
<1>4. Nat \subseteq T
  BY <1>2, <1>3, SetInduction
<1>5. Len(ss) \in T /\ Len(ss) \in Nat
  BY <1>4
<1> USE DEF T
<1> QED
  BY <1>1, <1>5

-----------------------------------------------------------------------------
(* Removed.                                                                *)

LEMMA RemovedElements ==
    ASSUME NEW S, NEW list \in Seq(S), NEW entry
    PROVE  /\ Removed(list, entry) \in Seq(S)
           /\ ToSet(Removed(list, entry)) = ToSet(list) \ {entry}
<1> DEFINE kept == [i \in DOMAIN list |-> IF list[i] = entry THEN <<>> ELSE <<list[i]>>]
<1>1. Len(list) \in Nat /\ DOMAIN list = 1..Len(list) /\ \A i \in 1..Len(list) : list[i] \in S
  OBVIOUS
<1>2. kept \in Seq(Seq(S)) /\ Len(kept) = Len(list)
  BY <1>1
<1>3. /\ FlattenSeq(kept) \in Seq(S)
      /\ ToSet(FlattenSeq(kept)) = UNION {ToSet(kept[i]) : i \in 1..Len(kept)}
  BY <1>2, Flattened
<1>4. \A i \in 1..Len(list) : ToSet(kept[i]) = {list[i]} \ {entry}
  BY <1>1 DEF ToSet
<1>5. UNION {ToSet(kept[i]) : i \in 1..Len(kept)} = ToSet(list) \ {entry}
  <2> HIDE DEF kept
  <2>1. UNION {ToSet(kept[i]) : i \in 1..Len(kept)} = UNION {{list[i]} \ {entry} : i \in 1..Len(list)}
    BY <1>1, <1>2, <1>4
  <2>2. ToSet(list) = {list[i] : i \in 1..Len(list)}
    BY <1>1 DEF ToSet
  <2>3. UNION {{list[i]} \ {entry} : i \in 1..Len(list)} = {list[i] : i \in 1..Len(list)} \ {entry}
    OBVIOUS
  <2> QED
    BY <2>1, <2>2, <2>3
<1> QED
  BY <1>3, <1>5 DEF Removed

\* Entries are removed from the end as if they had not been there.
LEMMA RemovedFromEnd ==
    ASSUME NEW S, NEW list \in Seq(S), NEW entry, NEW n \in 0..Len(list),
           \A i \in 1..n : list[i] # entry, \A i \in n + 1..Len(list) : list[i] = entry
    PROVE  Removed(list, entry) = SubSeq(list, 1, n)
<1> DEFINE kept == [i \in DOMAIN list |-> IF list[i] = entry THEN <<>> ELSE <<list[i]>>]
<1>1. Len(list) \in Nat /\ DOMAIN list = 1..Len(list) /\ \A i \in 1..Len(list) : list[i] \in S
  OBVIOUS
<1>2. kept \in Seq(Seq(S)) /\ Len(kept) = Len(list)
  BY <1>1
<1>3. PICK f \in [0..Len(kept) -> Seq(S)] :
          /\ f[0] = <<>> /\ FlattenSeq(kept) = f[Len(kept)]
          /\ \A i \in 1..Len(kept) : f[i] = f[i - 1] \o kept[i]
  <2>1. \A ss \in Seq(Seq(S)) : \E f \in [0..Len(ss) -> Seq(S)] :
            /\ f[0] = <<>> /\ FlattenSeq(ss) = f[Len(ss)]
            /\ \A i \in 1..Len(ss) : f[i] = f[i - 1] \o ss[i]
    BY Flattening
  <2> HIDE DEF kept
  <2> QED
    BY <1>2, <2>1
<1> DEFINE Before(i) == IF i <= n THEN SubSeq(list, 1, i) ELSE SubSeq(list, 1, n)
           T == {i \in Nat : i <= Len(list) => f[i] = Before(i)}
<1>4. 0 \in T
  BY <1>3
<1>5. ASSUME NEW i \in Nat, i \in T PROVE i + 1 \in T
  <2>1. SUFFICES ASSUME i + 1 <= Len(list) PROVE f[i + 1] = Before(i + 1)
    OBVIOUS
  <2>2. f[i] = Before(i) /\ f[i + 1] = f[i] \o kept[i + 1]
    <3> HIDE DEF kept, Before
    <3>1. i + 1 \in 1..Len(kept) /\ (i + 1) - 1 = i /\ i <= Len(list)
      BY <1>1, <1>2, <2>1
    <3>2. f[i + 1] = f[(i + 1) - 1] \o kept[i + 1]
      BY <1>3, <3>1
    <3>3. f[i] = Before(i)
      BY <1>5, <3>1
    <3> QED
      BY <3>1, <3>2, <3>3
  <2>3. CASE i + 1 <= n
    <3>1. kept[i + 1] = <<list[i + 1]>> /\ Before(i) = SubSeq(list, 1, i)
      BY <1>1, <2>1, <2>3
    <3>2. SubSeq(list, 1, i) \o <<list[i + 1]>> = SubSeq(list, 1, i + 1)
      BY <1>1, <2>1
    <3> QED
      BY <2>2, <2>3, <3>1, <3>2
  <2>4. CASE ~(i + 1 <= n)
    <3>1. kept[i + 1] = <<>> /\ Before(i) = SubSeq(list, 1, n) /\ Before(i + 1) = SubSeq(list, 1, n)
      BY <1>1, <2>1, <2>4
    <3>2. SubSeq(list, 1, n) \in Seq(S)
      BY <1>1
    <3>3. SubSeq(list, 1, n) \o <<>> = SubSeq(list, 1, n)
      BY <3>2
    <3> QED
      BY <2>2, <3>1, <3>3
  <2> QED
    BY <2>3, <2>4
<1> HIDE DEF T
<1>6. Nat \subseteq T
  BY <1>4, <1>5, SetInduction
<1>7. Len(list) \in T
  BY <1>1, <1>6
<1> USE DEF T
<1>8. f[Len(list)] = SubSeq(list, 1, n)
  BY <1>1, <1>7
<1> QED
  BY <1>2, <1>3, <1>8 DEF Removed

-----------------------------------------------------------------------------
(* The edits a call asks for.                                              *)

Kinds == {"set_value", "set_value_soft", "append_list", "remove_list", "add_symbol", "unknown_preset"}
Operation == [kind : Kinds, class : Text, value : Text, entry : Path]

\* Every edit of a sequence is one, there is one value for an option's class, and
\* none is about the symbols.
Settling(ops) ==
    /\ ops \in Seq(Operation)
    /\ \A a, b \in ToSet(ops) : Sets(a) /\ Sets(b) /\ a.class = b.class => a.value = b.value
    /\ \A a \in ToSet(ops) : a.class # Symbols /\ a.kind \notin {"add_symbol", "remove_list"}

LEMMA OnlyIsIn == ASSUME NEW option, option # {} PROVE Only(option) \in option
BY DEF Only

LEMMA MakesSet ==
    ASSUME NEW class \in Text, NEW value \in Text
    PROVE  /\ SetOption(class, value) \in Operation /\ SetOption(class, value).kind = "set_value"
           /\ SetOption(class, value).class = class /\ SetOption(class, value).value = value
BY DEF SetOption, Edit, Operation, Kinds, Path

LEMMA MakesSoft ==
    ASSUME NEW class \in Text, NEW value \in Text
    PROVE  /\ SetSoft(class, value) \in Operation /\ SetSoft(class, value).kind = "set_value_soft"
           /\ SetSoft(class, value).class = class /\ SetSoft(class, value).value = value
BY DEF SetSoft, Edit, Operation, Kinds, Path

LEMMA MakesAppend ==
    ASSUME NEW class \in Text, NEW entry \in Path
    PROVE  /\ AppendTo(class, entry) \in Operation /\ AppendTo(class, entry).kind = "append_list"
           /\ AppendTo(class, entry).class = class /\ AppendTo(class, entry).entry = entry
BY TextAssumption DEF Literals, AppendTo, Edit, Operation, Kinds, Path

LEMMA MakesSymbol ==
    ASSUME NEW entry \in Path
    PROVE  /\ AddSymbol(entry) \in Operation /\ AddSymbol(entry).kind = "add_symbol"
           /\ AddSymbol(entry).class = Symbols /\ AddSymbol(entry).entry = entry
BY TextAssumption DEF Literals, AddSymbol, Edit, Symbols, Operation, Kinds, Path

LEMMA FpuIsString == \A family \in DOMAIN FamilyFpu : FamilyFpu[family] \in Text
BY TextAssumption DEF Literals, FamilyFpu

LEMMA FpuSettling ==
    ASSUME NEW families
    PROVE  /\ FpuOps(families) \in Seq(Operation)
           /\ \A a \in ToSet(FpuOps(families)) : Sets(a) =>
                a.class \in {"managedbuild.option.fpu", "managedbuild.option.floatabi"}
           /\ Settling(FpuOps(families))
<1> DEFINE known == families \cap DOMAIN FamilyFpu
           fpu == SetOption("managedbuild.option.fpu", FamilyFpu[Only(known)])
           abi == SetOption("managedbuild.option.floatabi", "hard")
<1>1. CASE known = {}
  <2>1. FpuOps(families) = <<>>
    BY <1>1 DEF FpuOps
  <2>2. ToSet(<<>>) = {}
    BY DEF ToSet
  <2> QED
    BY <2>1, <2>2 DEF Settling
<1>2. CASE known # {}
  <2>1. FpuOps(families) = <<fpu, abi>>
    BY <1>2 DEF FpuOps
  <2>2. FamilyFpu[Only(known)] \in Text
    <3>1. Only(known) \in DOMAIN FamilyFpu
      BY <1>2, OnlyIsIn
    <3> QED
      BY <3>1, FpuIsString
  <2>6. {"managedbuild.option.fpu", "managedbuild.option.floatabi", "hard"} \subseteq Text
    BY TextAssumption DEF Literals
  <2>3. /\ fpu \in Operation /\ abi \in Operation
        /\ fpu.class = "managedbuild.option.fpu" /\ abi.class = "managedbuild.option.floatabi"
        /\ fpu.kind = "set_value" /\ abi.kind = "set_value"
    <3>1. \A class, value \in Text :
             /\ SetOption(class, value) \in Operation /\ SetOption(class, value).kind = "set_value"
             /\ SetOption(class, value).class = class
      BY MakesSet
    <3> QED
      BY <2>2, <2>6, <3>1
  <2> HIDE DEF fpu, abi
  <2>4. ToSet(<<fpu, abi>>) = {fpu, abi}
    BY DEF ToSet
  <2>5. <<fpu, abi>> \in Seq(Operation)
    BY <2>3
  <2> QED
    BY <2>1, <2>3, <2>4, <2>5 DEF Settling, Symbols
<1> QED
  BY <1>1, <1>2

LEMMA SettlingConcat ==
    ASSUME NEW a, NEW b, Settling(a), Settling(b),
           \A x \in ToSet(a), y \in ToSet(b) : Sets(x) /\ Sets(y) => x.class # y.class
    PROVE  Settling(a \o b)
<1>1. a \in Seq(Operation) /\ b \in Seq(Operation)
  BY DEF Settling
<1>2. a \o b \in Seq(Operation) /\ ToSet(a \o b) = ToSet(a) \cup ToSet(b)
  BY <1>1, ToSetConcat
<1> QED
  BY <1>2 DEF Settling

LEMMA PresetsSettling ==
    ASSUME NEW preset \in DOMAIN Presets
    PROVE  /\ Settling(Presets[preset])
           /\ \A a \in ToSet(Presets[preset]) :
                a.class \notin {"managedbuild.option.fpu", "managedbuild.option.floatabi"}
<1>1. /\ {"compiler.option.optimization.level", "compiler.option.debuglevel",
          "compiler.option.otherflags", "linker.option.otherflags",
          "linker.option.usenewlibnano", "most", "g1", "size", "true", "more", "g3",
          "-flto", "-Wl,--gc-sections"} \subseteq Text
  BY TextAssumption DEF Literals
<1>2. \A x \in Text : <<x>> \in Path
  BY DEF Path
<1>3. CASE preset = "fast"
  <2> DEFINE a == SetOption("compiler.option.optimization.level", "most")
             b == SetOption("compiler.option.debuglevel", "g1")
             c == AppendTo("compiler.option.otherflags", <<"-flto">>)
             d == AppendTo("linker.option.otherflags", <<"-flto">>)
  <2>1. Presets[preset] = <<a, b, c, d>>
    BY <1>3 DEF Presets
  <2>2. /\ a \in Operation /\ a.class = "compiler.option.optimization.level"
        /\ b \in Operation /\ b.class = "compiler.option.debuglevel"
        /\ a.kind = "set_value" /\ b.kind = "set_value"
    BY <1>1, MakesSet
  <2>3. /\ c \in Operation /\ c.class = "compiler.option.otherflags"
        /\ d \in Operation /\ d.class = "linker.option.otherflags"
        /\ c.kind = "append_list" /\ d.kind = "append_list"
    BY <1>1, <1>2, MakesAppend
  <2> HIDE DEF a, b, c, d
  <2>4. ToSet(<<a, b, c, d>>) = {a, b, c, d} /\ <<a, b, c, d>> \in Seq(Operation)
    BY <2>2, <2>3 DEF ToSet
  <2> QED
    BY <2>1, <2>2, <2>3, <2>4 DEF Settling, Sets, Symbols
<1>4. CASE preset = "size"
  <2> DEFINE a == SetOption("compiler.option.optimization.level", "size")
             b == SetOption("compiler.option.debuglevel", "g1")
             c == AppendTo("linker.option.otherflags", <<"-Wl,--gc-sections">>)
             d == SetSoft("linker.option.usenewlibnano", "true")
  <2>1. Presets[preset] = <<a, b, c, d>>
    BY <1>4 DEF Presets
  <2>2. /\ a \in Operation /\ a.class = "compiler.option.optimization.level"
        /\ b \in Operation /\ b.class = "compiler.option.debuglevel"
        /\ a.kind = "set_value" /\ b.kind = "set_value"
    BY <1>1, MakesSet
  <2>3. c \in Operation /\ c.class = "linker.option.otherflags" /\ c.kind = "append_list"
    BY <1>1, <1>2, MakesAppend
  <2>5. d \in Operation /\ d.class = "linker.option.usenewlibnano" /\ d.kind = "set_value_soft"
    BY <1>1, MakesSoft
  <2> HIDE DEF a, b, c, d
  <2>4. ToSet(<<a, b, c, d>>) = {a, b, c, d} /\ <<a, b, c, d>> \in Seq(Operation)
    BY <2>2, <2>3, <2>5 DEF ToSet
  <2> QED
    BY <2>1, <2>2, <2>3, <2>4, <2>5 DEF Settling, Sets, Symbols
<1>5. CASE preset = "balanced"
  <2> DEFINE a == SetOption("compiler.option.optimization.level", "more")
             b == SetOption("compiler.option.debuglevel", "g3")
  <2>1. Presets[preset] = <<a, b>>
    BY <1>5 DEF Presets
  <2>2. /\ a \in Operation /\ a.class = "compiler.option.optimization.level"
        /\ b \in Operation /\ b.class = "compiler.option.debuglevel"
        /\ a.kind = "set_value" /\ b.kind = "set_value"
    BY <1>1, MakesSet
  <2> HIDE DEF a, b
  <2>4. ToSet(<<a, b>>) = {a, b} /\ <<a, b>> \in Seq(Operation)
    BY <2>2 DEF ToSet
  <2> QED
    BY <2>1, <2>2, <2>4 DEF Settling, Sets, Symbols
<1> QED
  BY <1>3, <1>4, <1>5 DEF Presets

LEMMA PresetOpsSettling == ASSUME NEW preset, NEW families PROVE Settling(PresetOps(preset, families))
<1>1. CASE preset \notin DOMAIN Presets
  <2> DEFINE a == Edit("unknown_preset", "", "", <<>>)
  <2>1. PresetOps(preset, families) = <<a>>
    BY <1>1 DEF PresetOps, Presets
  <2>2. "" \in Text
    BY TextAssumption DEF Literals
  <2>3. a \in Operation /\ a.kind = "unknown_preset" /\ a.class = ""
    <3>1. a = [kind |-> "unknown_preset", class |-> "", value |-> "", entry |-> <<>>]
      BY DEF Edit
    <3>2. "unknown_preset" \in Kinds /\ <<>> \in Path
      BY DEF Kinds, Path
    <3> HIDE DEF a
    <3> QED
      BY <2>2, <3>1, <3>2 DEF Operation
  <2> HIDE DEF a
  <2>4. ToSet(<<a>>) = {a} /\ <<a>> \in Seq(Operation)
    BY <2>3, SingletonElements
  <2> QED
    BY <2>1, <2>3, <2>4 DEF Settling, Sets, Symbols
<1>2. CASE preset \in DOMAIN Presets /\ preset = "fast"
  <2>1. PresetOps(preset, families) = Presets[preset] \o FpuOps(families)
    BY <1>2 DEF PresetOps
  <2>2. Settling(Presets[preset]) /\ Settling(FpuOps(families))
    BY <1>2, PresetsSettling, FpuSettling
  <2>3. \A x \in ToSet(Presets[preset]), y \in ToSet(FpuOps(families)) :
            Sets(x) /\ Sets(y) => x.class # y.class
    BY <1>2, PresetsSettling, FpuSettling
  <2> QED
    BY <2>1, <2>2, <2>3, SettlingConcat
<1>3. CASE preset \in DOMAIN Presets /\ preset # "fast"
  <2>1. PresetOps(preset, families) = Presets[preset]
    BY <1>3 DEF PresetOps
  <2> QED
    BY <1>3, <2>1, PresetsSettling
<1> QED
  BY <1>1, <1>2, <1>3

LEMMA AliasSettling ==
    ASSUME NEW class \in Text, class # Symbols, NEW option \in SUBSET Text,
           NEW aliases, \A v \in DOMAIN aliases : aliases[v] \in Text
    PROVE  /\ Settling(SetAlias(class, option, aliases))
           /\ option = {} => ToSet(SetAlias(class, option, aliases)) = {}
           /\ \A a \in ToSet(SetAlias(class, option, aliases)) : a.class = class
<1>1. CASE option = {}
  <2>1. SetAlias(class, option, aliases) = <<>> /\ ToSet(<<>>) = {}
    BY <1>1 DEF SetAlias, ToSet
  <2> QED
    BY <2>1 DEF Settling
<1>2. CASE option # {}
  <2> DEFINE v == Only(option)
             a == SetOption(class, IF v \in DOMAIN aliases THEN aliases[v] ELSE v)
  <2>1. v \in Text
    BY <1>2, OnlyIsIn
  <2>2. a \in Operation /\ a.kind = "set_value" /\ a.class = class
    <3>1. (IF v \in DOMAIN aliases THEN aliases[v] ELSE v) \in Text
      BY <2>1
    <3> QED
      BY <3>1, MakesSet
  <2>3. SetAlias(class, option, aliases) = <<a>>
    BY <1>2 DEF SetAlias
  <2> HIDE DEF a
  <2>4. ToSet(<<a>>) = {a} /\ <<a>> \in Seq(Operation)
    BY <2>2, SingletonElements
  <2> QED
    BY <1>2, <2>2, <2>3, <2>4 DEF Settling
<1> QED
  BY <1>1, <1>2

LEMMA AliasesAreText ==
    /\ \A v \in DOMAIN DebugLevels : DebugLevels[v] \in Text
    /\ \A v \in DOMAIN Optimizations : Optimizations[v] \in Text
BY TextAssumption DEF Literals, DebugLevels, Optimizations

\* The edits that append: no option is set.
Appending(ops) ==
    /\ ops \in Seq(Operation)
    /\ \A a \in ToSet(ops) : a.kind = "append_list" /\ a.class # Symbols

LEMMA AppendingSettling == ASSUME NEW ops, Appending(ops) PROVE Settling(ops)
BY DEF Appending, Settling, Sets

LEMMA AppendingMapped ==
    ASSUME NEW class \in Text, class # Symbols, NEW entries \in Seq(Path)
    PROVE  Appending([i \in DOMAIN entries |-> AppendTo(class, entries[i])])
<1> DEFINE ops == [i \in DOMAIN entries |-> AppendTo(class, entries[i])]
<1>1. \A i \in DOMAIN entries :
          /\ AppendTo(class, entries[i]) \in Operation
          /\ AppendTo(class, entries[i]).kind = "append_list"
          /\ AppendTo(class, entries[i]).class = class
  BY MakesAppend
<1>2. DOMAIN entries = 1..Len(entries) /\ Len(entries) \in Nat
  OBVIOUS
<1>3. ops \in Seq(Operation)
  BY <1>1, <1>2
<1>4. \A a \in ToSet(ops) : a.kind = "append_list" /\ a.class = class
  BY <1>1 DEF ToSet
<1> QED
  BY <1>3, <1>4 DEF Appending

LEMMA LibraryAppending == ASSUME NEW lib \in Words PROVE Appending(LibraryOps(lib))
<1> DEFINE dir == AppendTo("linker.option.directories", Front(lib))
           file == AppendTo("linker.option.libraries", <<Last(lib)>>)
<1>1. {"linker.option.directories", "linker.option.libraries"} \subseteq Text
  BY TextAssumption DEF Literals
<1>2. lib \in Seq(Text) /\ lib # <<>> /\ Len(lib) \in Nat /\ Len(lib) # 0
  BY DEF Words
<1>3. Front(lib) \in Path /\ <<Last(lib)>> \in Path
  BY <1>2 DEF Front, Last, Path
<1>4. /\ dir \in Operation /\ dir.kind = "append_list" /\ dir.class = "linker.option.directories"
      /\ file \in Operation /\ file.kind = "append_list" /\ file.class = "linker.option.libraries"
  BY <1>1, <1>3, MakesAppend
<1>5. LibraryOps(lib) = (IF Len(lib) = 1 THEN <<>> ELSE <<dir>>) \o <<file>>
  BY DEF LibraryOps
<1> HIDE DEF dir, file
<1>6. /\ <<dir>> \in Seq(Operation) /\ ToSet(<<dir>>) = {dir}
      /\ <<file>> \in Seq(Operation) /\ ToSet(<<file>>) = {file}
      /\ <<>> \in Seq(Operation) /\ ToSet(<<>>) = {}
  <2>1. ToSet(<<>>) = {}
    BY DEF ToSet
  <2>2. \A e \in Operation : ToSet(<<e>>) = {e} /\ <<e>> \in Seq(Operation)
    BY SingletonElements
  <2>3. <<>> \in Seq(Operation)
    OBVIOUS
  <2> QED
    BY <1>4, <2>1, <2>2, <2>3
<1> DEFINE dirs == <<dir>>
           files == <<file>>
<1>7. CASE Len(lib) = 1
  <2>1. /\ LibraryOps(lib) = <<>> \o <<file>> /\ <<>> \o <<file>> \in Seq(Operation)
        /\ ToSet(<<>> \o <<file>>) = {} \cup {file}
    BY <1>5, <1>6, <1>7, ToSetConcat
  <2> QED
    BY <1>4, <2>1 DEF Appending, Symbols
<1>8. CASE Len(lib) # 1
  <2>2. /\ dirs \in Seq(Operation) /\ ToSet(dirs) = {dir}
        /\ files \in Seq(Operation) /\ ToSet(files) = {file}
        /\ LibraryOps(lib) = dirs \o files
    BY <1>5, <1>6, <1>8
  <2> HIDE DEF dirs, files
  <2>1. /\ LibraryOps(lib) \in Seq(Operation)
        /\ ToSet(LibraryOps(lib)) = {dir} \cup {file}
    BY <2>2, ToSetConcat
  <2> QED
    BY <1>4, <2>1 DEF Appending, Symbols
<1> QED
  BY <1>7, <1>8

LEMMA LibrariesAppending ==
    ASSUME NEW libraries \in Seq(Words)
    PROVE  Appending(FlattenSeq([i \in DOMAIN libraries |-> LibraryOps(libraries[i])]))
<1> DEFINE ss == [i \in DOMAIN libraries |-> LibraryOps(libraries[i])]
<1>1. \A i \in DOMAIN libraries : Appending(LibraryOps(libraries[i]))
  BY LibraryAppending
<1>2. DOMAIN libraries = 1..Len(libraries) /\ Len(libraries) \in Nat
  OBVIOUS
<1>3. ss \in Seq(Seq(Operation)) /\ Len(ss) = Len(libraries)
  BY <1>1, <1>2 DEF Appending
<1>4. /\ FlattenSeq(ss) \in Seq(Operation)
      /\ ToSet(FlattenSeq(ss)) = UNION {ToSet(ss[i]) : i \in 1..Len(ss)}
  <2> HIDE DEF ss
  <2> QED
    BY <1>3, Flattened
<1>5. \A i \in 1..Len(ss) : \A a \in ToSet(ss[i]) : a.kind = "append_list" /\ a.class # Symbols
  BY <1>1, <1>2, <1>3 DEF Appending
<1> QED
  BY <1>4, <1>5 DEF Appending

\* What a call that is not refused asks for: its options are settled, and the symbols
\* are asked for by add_symbol alone.
Wellformed(c, ops) ==
    /\ ops \in Seq(Operation)
    /\ \A a, b \in ToSet(ops) : Sets(a) /\ Sets(b) /\ a.class = b.class => a.value = b.value
    /\ \A a \in ToSet(ops) :
          /\ a.class = Symbols <=> a.kind = "add_symbol"
          /\ a.kind = "add_symbol" => a.entry \in ToSet(c.symbols) /\ a = AddSymbol(a.entry)
          /\ a.kind # "remove_list"

LEMMA OpsWellformed ==
    ASSUME NEW h \in Hosts, NEW c \in CallsOn(h), NEW ctx, ~KwargsRaise(c)
    PROVE  Wellformed(c, Ops(c, ctx))
<1> DEFINE preset == IF c.preset = {} THEN <<>>
                     ELSE PresetOps(Only(c.preset), Configured(ctx, "device_family"))
           debug == SetAlias("compiler.option.debuglevel", c.debug_level, DebugLevels)
           level == SetAlias("compiler.option.optimization.level", c.optimization, Optimizations)
           symbols == [i \in DOMAIN c.symbols |-> AddSymbol(c.symbols[i])]
           includes == [i \in DOMAIN c.includes |-> AppendTo("compiler.option.includepaths", c.includes[i])]
           libraries == FlattenSeq([i \in DOMAIN c.libraries |-> LibraryOps(c.libraries[i])])
<1>1. /\ c.symbols \in Seq(Words) /\ c.includes \in Seq(Path) /\ c.libraries \in Seq(Words)
      /\ c.debug_level \in SUBSET Text /\ c.optimization \in SUBSET Text
  BY CallsAssumption
<1>2. {"compiler.option.debuglevel", "compiler.option.optimization.level",
       "compiler.option.includepaths"} \subseteq Text
  BY TextAssumption DEF Literals
<1>3. Settling(preset)
  <2>1. Settling(<<>>)
    BY DEF Settling, ToSet
  <2> QED
    BY <2>1, PresetOpsSettling
<1>4. /\ Settling(debug) /\ (c.debug_level = {} => ToSet(debug) = {})
      /\ \A a \in ToSet(debug) : a.class = "compiler.option.debuglevel"
  BY <1>1, <1>2, AliasSettling, AliasesAreText DEF Symbols
<1>5. /\ Settling(level) /\ (c.optimization = {} => ToSet(level) = {})
      /\ \A a \in ToSet(level) : a.class = "compiler.option.optimization.level"
  BY <1>1, <1>2, AliasSettling, AliasesAreText DEF Symbols
<1>6. c.preset = {} => ToSet(preset) = {}
  BY DEF ToSet
<1>7. c.preset = {} \/ (c.debug_level = {} /\ c.optimization = {})
  BY DEF KwargsRaise
<1>8. Appending(includes) /\ Appending(libraries)
  BY <1>1, <1>2, AppendingMapped, LibrariesAppending DEF Symbols
<1>9. /\ symbols \in Seq(Operation)
      /\ \A a \in ToSet(symbols) :
            /\ a.kind = "add_symbol" /\ a.class = Symbols
            /\ a.entry \in ToSet(c.symbols) /\ a = AddSymbol(a.entry)
  <2>1. \A i \in DOMAIN c.symbols :
            /\ AddSymbol(c.symbols[i]) \in Operation /\ AddSymbol(c.symbols[i]).kind = "add_symbol"
            /\ AddSymbol(c.symbols[i]).class = Symbols /\ AddSymbol(c.symbols[i]).entry = c.symbols[i]
    BY <1>1, MakesSymbol DEF Words, Path
  <2>2. DOMAIN c.symbols = 1..Len(c.symbols) /\ Len(c.symbols) \in Nat
    BY <1>1
  <2>3. symbols \in Seq(Operation) /\ DOMAIN symbols = DOMAIN c.symbols
    BY <2>1, <2>2
  <2>4. \A i \in DOMAIN c.symbols : symbols[i] = AddSymbol(c.symbols[i])
    OBVIOUS
  <2> HIDE DEF symbols
  <2> QED
    BY <2>1, <2>3, <2>4 DEF ToSet
<1>10. Ops(c, ctx) = ((((preset \o debug) \o level) \o symbols) \o includes) \o libraries
  BY DEF Ops
<1> HIDE DEF preset, debug, level, symbols, includes, libraries
<1>11. Settling(preset \o debug)
  BY <1>3, <1>4, <1>6, <1>7, SettlingConcat
<1>12. ToSet(preset \o debug) = ToSet(preset) \cup ToSet(debug)
  BY <1>3, <1>4, ToSetConcat DEF Settling
<1>13. Settling((preset \o debug) \o level)
  <2>1. \A x \in ToSet(preset \o debug), y \in ToSet(level) : Sets(x) /\ Sets(y) => x.class # y.class
    BY <1>4, <1>5, <1>6, <1>7, <1>12
  <2> QED
    BY <1>5, <1>11, <2>1, SettlingConcat
<1> DEFINE set == (preset \o debug) \o level
<1> HIDE DEF set
<1>14. Settling(set)
  BY <1>13 DEF set
<1>15. set \in Seq(Operation) /\ includes \in Seq(Operation) /\ libraries \in Seq(Operation)
  BY <1>8, <1>14 DEF Settling, Appending
<1>16. \A s, t \in Seq(Operation) :
          s \o t \in Seq(Operation) /\ ToSet(s \o t) = ToSet(s) \cup ToSet(t)
  BY ToSetConcat
<1> DEFINE two == set \o symbols
           three == two \o includes
           four == three \o libraries
<1>17. two \in Seq(Operation) /\ ToSet(two) = ToSet(set) \cup ToSet(symbols)
  BY <1>9, <1>15, <1>16
<1>18. three \in Seq(Operation) /\ ToSet(three) = ToSet(two) \cup ToSet(includes)
  <2> HIDE DEF two
  <2> QED
    BY <1>15, <1>16, <1>17
<1>19. four \in Seq(Operation) /\ ToSet(four) = ToSet(three) \cup ToSet(libraries)
  <2> HIDE DEF three
  <2> QED
    BY <1>15, <1>16, <1>18
<1>20. Ops(c, ctx) = four
  BY <1>10 DEF set
<1> HIDE DEF two, three, four
<1>21. \A a \in ToSet(symbols) \cup ToSet(includes) \cup ToSet(libraries) :
          ~Sets(a) /\ a.kind # "remove_list"
  BY <1>8, <1>9 DEF Appending, Sets
<1> QED
  BY <1>8, <1>9, <1>14, <1>17, <1>18, <1>19, <1>20, <1>21 DEF Wellformed, Settling, Appending

-----------------------------------------------------------------------------
(* What an edit does to a document.                                        *)

Appends(op) == op.kind \in {"append_list", "add_symbol"}

\* The edits _edit_option makes.
Possible(op) ==
    /\ op.kind \in Kinds \ {"unknown_preset"} /\ op.value \in Text
    /\ Appends(op) => op.entry \in Path

LEMMA AppendedElements ==
    ASSUME NEW list \in Seq(Path), NEW entry \in Path
    PROVE  /\ Appended(list, entry) \in Seq(Path)
           /\ ToSet(Appended(list, entry)) = ToSet(list) \cup {entry}
           /\ entry \in ToSet(list) => Appended(list, entry) = list
           /\ entry \notin ToSet(list) => Appended(list, entry) = Append(list, entry)
<1>1. Contains(list, entry) <=> entry \in ToSet(list)
  BY DEF Contains, ToSet
<1>2. Append(list, entry) \in Seq(Path) /\ ToSet(Append(list, entry)) = ToSet(list) \cup {entry}
  BY ToSetAppend
<1> QED
  BY <1>1, <1>2 DEF Appended

\* An edit changes an option's value, or its list by one entry, if it is about the
\* option's class.
OptionEdited(old, new, op) ==
    /\ new \in OptionElement /\ new.class = old.class
    /\ op.class # old.class => new = old
    /\ op.class = old.class =>
          /\ Sets(op) => new.value = op.value /\ new.list = old.list
          /\ Appends(op) => new.value = old.value /\ new.list = Appended(old.list, op.entry)
          /\ op.kind = "remove_list" => new.value = old.value /\ new.list = Removed(old.list, op.entry)

LEMMA EditsOption ==
    ASSUME NEW option \in OptionElement, NEW op, Possible(op)
    PROVE  OptionEdited(option, EditedOption(option, op), op)
<1>1. option.list \in Seq(Path) /\ option.value \in Text /\ option.class \in Text
  BY DEF OptionElement
<1>2. option = [class |-> option.class, value |-> option.value, list |-> option.list]
  BY DEF OptionElement
<1>3. CASE op.class # option.class
  <2>1. EditedOption(option, op) = option
    BY <1>3 DEF EditedOption
  <2> QED
    BY <1>3, <2>1 DEF OptionEdited
<1>4. CASE op.class = option.class /\ Sets(op)
  <2>1. EditedOption(option, op) = [option EXCEPT !.value = op.value]
    BY <1>4 DEF EditedOption, Sets
  <2>2. EditedOption(option, op) = [class |-> option.class, value |-> op.value, list |-> option.list]
    BY <1>2, <2>1
  <2>3. op.value \in Text /\ ~Appends(op) /\ op.kind # "remove_list"
    BY <1>4 DEF Possible, Appends, Sets
  <2> QED
    BY <1>1, <1>4, <2>2, <2>3 DEF OptionEdited, OptionElement
<1>5. CASE op.class = option.class /\ Appends(op)
  <2>1. EditedOption(option, op) = [option EXCEPT !.list = Appended(option.list, op.entry)]
    BY <1>5 DEF EditedOption, Appends
  <2>2. EditedOption(option, op) =
            [class |-> option.class, value |-> option.value, list |-> Appended(option.list, op.entry)]
    BY <1>2, <2>1
  <2>3. Appended(option.list, op.entry) \in Seq(Path) /\ ~Sets(op) /\ op.kind # "remove_list"
    BY <1>1, <1>5, AppendedElements DEF Possible, Appends, Sets
  <2> QED
    BY <1>1, <1>5, <2>2, <2>3 DEF OptionEdited, OptionElement
<1>6. CASE op.class = option.class /\ op.kind = "remove_list"
  <2>1. EditedOption(option, op) = [option EXCEPT !.list = Removed(option.list, op.entry)]
    BY <1>6 DEF EditedOption
  <2>2. EditedOption(option, op) =
            [class |-> option.class, value |-> option.value, list |-> Removed(option.list, op.entry)]
    BY <1>2, <2>1
  <2>3. Removed(option.list, op.entry) \in Seq(Path) /\ ~Sets(op) /\ ~Appends(op)
    BY <1>1, <1>6, RemovedElements DEF Appends, Sets
  <2> QED
    BY <1>1, <1>6, <2>2, <2>3 DEF OptionEdited, OptionElement
<1> QED
  BY <1>3, <1>4, <1>5, <1>6 DEF Possible, Kinds, Sets, Appends

\* Two documents of the same configurations, with the same options in the same order.
Alongside(configs, others) ==
    /\ DOMAIN others = DOMAIN configs
    /\ \A i \in DOMAIN configs :
          /\ others[i].name = configs[i].name
          /\ DOMAIN others[i].options = DOMAIN configs[i].options
          /\ \A j \in DOMAIN configs[i].options :
                others[i].options[j].class = configs[i].options[j].class

LEMMA ScopeByName == ASSUME NEW a, NEW b, a.name = b.name PROVE Scope(a) <=> Scope(b)
BY DEF Scope

LEMMA ConfigParts ==
    ASSUME NEW config \in ConfigElement
    PROVE  /\ config = [name |-> config.name, excluding |-> config.excluding, options |-> config.options]
           /\ config.name \in Words /\ config.excluding \in SUBSET Path
           /\ config.options \in Seq(OptionElement)
           /\ DOMAIN config.options = 1..Len(config.options) /\ Len(config.options) \in Nat
           /\ \A j \in DOMAIN config.options : config.options[j] \in OptionElement
BY DEF ConfigElement

LEMMA DocumentParts ==
    ASSUME NEW configs \in Seq(ConfigElement)
    PROVE  /\ DOMAIN configs = 1..Len(configs) /\ Len(configs) \in Nat
           /\ \A i \in DOMAIN configs : configs[i] \in ConfigElement
OBVIOUS

LEMMA EditsConfig ==
    ASSUME NEW config \in ConfigElement, NEW op, Possible(op)
    PROVE  LET new == EditedConfig(config, op)
           IN  /\ new \in ConfigElement /\ new.name = config.name /\ new.excluding = config.excluding
               /\ DOMAIN new.options = DOMAIN config.options
               /\ \A j \in DOMAIN config.options :
                     /\ new.options[j] = EditedOption(config.options[j], op)
                     /\ OptionEdited(config.options[j], new.options[j], op)
<1> DEFINE new == EditedConfig(config, op)
           options == [j \in DOMAIN config.options |-> EditedOption(config.options[j], op)]
<1>1. new = [config EXCEPT !.options = options]
  BY DEF EditedConfig
<1>2. \A j \in DOMAIN config.options :
          OptionEdited(config.options[j], EditedOption(config.options[j], op), op)
  BY ConfigParts, EditsOption
<1>3. options \in Seq(OptionElement)
  <2>1. \A j \in DOMAIN config.options : EditedOption(config.options[j], op) \in OptionElement
    BY <1>2 DEF OptionEdited
  <2> QED
    BY <2>1, ConfigParts
<1>4. /\ DOMAIN options = DOMAIN config.options
      /\ \A j \in DOMAIN config.options : options[j] = EditedOption(config.options[j], op)
  OBVIOUS
<1> HIDE DEF options
<1>5. new = [name |-> config.name, excluding |-> config.excluding, options |-> options]
  BY <1>1, ConfigParts
<1> HIDE DEF new
<1>6. /\ new \in ConfigElement /\ new.name = config.name /\ new.excluding = config.excluding
      /\ new.options = options
  BY <1>3, <1>5, ConfigParts DEF ConfigElement
<1>7. /\ DOMAIN new.options = DOMAIN config.options
      /\ \A j \in DOMAIN config.options :
            /\ new.options[j] = EditedOption(config.options[j], op)
            /\ OptionEdited(config.options[j], new.options[j], op)
  BY <1>2, <1>4, <1>6
<1> QED
  BY <1>6, <1>7 DEF new

\* An edit of a document edits the options of the configurations in its scope.
LEMMA EditsDocument ==
    ASSUME NEW configs \in Seq(ConfigElement), NEW op, Possible(op)
    PROVE  LET new == Edited(configs, op)
           IN  /\ new \in Seq(ConfigElement) /\ Alongside(configs, new)
               /\ \A i \in DOMAIN configs :
                     /\ new[i].excluding = configs[i].excluding
                     /\ Scope(new[i]) <=> Scope(configs[i])
                     /\ ~Scope(configs[i]) => new[i] = configs[i]
                     /\ Scope(configs[i]) =>
                           /\ new[i] = EditedConfig(configs[i], op)
                           /\ \A j \in DOMAIN configs[i].options :
                                 OptionEdited(configs[i].options[j], new[i].options[j], op)
<1> DEFINE new == Edited(configs, op)
<1>1. /\ DOMAIN new = DOMAIN configs
      /\ \A i \in DOMAIN configs :
            new[i] = IF Scope(configs[i]) THEN EditedConfig(configs[i], op) ELSE configs[i]
  BY DEF Edited
<1>2. ASSUME NEW i \in DOMAIN configs
      PROVE  /\ new[i] \in ConfigElement /\ new[i].name = configs[i].name
             /\ new[i].excluding = configs[i].excluding
             /\ DOMAIN new[i].options = DOMAIN configs[i].options
             /\ Scope(configs[i]) => \A j \in DOMAIN configs[i].options :
                   OptionEdited(configs[i].options[j], new[i].options[j], op)
             /\ \A j \in DOMAIN configs[i].options : new[i].options[j].class = configs[i].options[j].class
  <2> HIDE DEF new
  <2>1. configs[i] \in ConfigElement
    BY DocumentParts
  <2>2. CASE ~Scope(configs[i])
    BY <1>1, <2>1, <2>2
  <2>3. CASE Scope(configs[i])
    <3>1. new[i] = EditedConfig(configs[i], op)
      BY <1>1, <2>3
    <3>2. /\ new[i] \in ConfigElement /\ new[i].name = configs[i].name
          /\ new[i].excluding = configs[i].excluding
          /\ DOMAIN new[i].options = DOMAIN configs[i].options
          /\ \A j \in DOMAIN configs[i].options :
                OptionEdited(configs[i].options[j], new[i].options[j], op)
      BY <2>1, <3>1, EditsConfig
    <3> QED
      BY <3>2 DEF OptionEdited
  <2> QED
    BY <2>2, <2>3
<1>3. new \in Seq(ConfigElement)
  <2>1. new = [i \in 1..Len(configs) |-> new[i]]
    BY DocumentParts DEF Edited
  <2> HIDE DEF new
  <2>2. Len(configs) \in Nat /\ \A i \in 1..Len(configs) : new[i] \in ConfigElement
    BY <1>2, DocumentParts
  <2> QED
    BY <2>1, <2>2, IsSequence
<1> HIDE DEF new
<1>4. Alongside(configs, new)
  BY <1>1, <1>2 DEF Alongside
<1>5. \A i \in DOMAIN configs : Scope(new[i]) <=> Scope(configs[i])
  BY <1>2, ScopeByName
<1> QED
  BY <1>1, <1>2, <1>3, <1>4, <1>5 DEF new

LEMMA UnexcludesDocument ==
    ASSUME NEW configs \in Seq(ConfigElement), NEW name
    PROVE  LET new == Unexcluded(configs, name)
           IN  /\ new \in Seq(ConfigElement) /\ Alongside(configs, new)
               /\ \A i \in DOMAIN configs :
                     /\ new[i].options = configs[i].options
                     /\ Scope(new[i]) <=> Scope(configs[i])
                     /\ new[i].excluding = {path \in configs[i].excluding : Last(path) # name}
<1> DEFINE new == Unexcluded(configs, name)
           kept(i) == {path \in configs[i].excluding : Last(path) # name}
<1>1. /\ DOMAIN new = DOMAIN configs
      /\ \A i \in DOMAIN configs : new[i] = [configs[i] EXCEPT !.excluding = kept(i)]
  BY DEF Unexcluded
<1>2. ASSUME NEW i \in DOMAIN configs
      PROVE  /\ new[i] \in ConfigElement /\ new[i].name = configs[i].name
             /\ new[i].options = configs[i].options /\ new[i].excluding = kept(i)
  <2>1. configs[i] \in ConfigElement
    BY DocumentParts
  <2>2. kept(i) \in SUBSET Path
    BY <2>1, ConfigParts
  <2> HIDE DEF kept
  <2>3. new[i] = [name |-> configs[i].name, excluding |-> kept(i), options |-> configs[i].options]
    BY <1>1, <2>1, ConfigParts
  <2> HIDE DEF new
  <2> QED
    BY <2>1, <2>2, <2>3, ConfigParts DEF ConfigElement
<1>3. new \in Seq(ConfigElement)
  <2>1. new = [i \in 1..Len(configs) |-> new[i]]
    BY DocumentParts DEF Unexcluded
  <2> HIDE DEF new
  <2>2. Len(configs) \in Nat /\ \A i \in 1..Len(configs) : new[i] \in ConfigElement
    BY <1>2, DocumentParts
  <2> QED
    BY <2>1, <2>2, IsSequence
<1> HIDE DEF new
<1>4. Alongside(configs, new)
  BY <1>1, <1>2 DEF Alongside
<1>5. \A i \in DOMAIN configs : Scope(new[i]) <=> Scope(configs[i])
  BY <1>2, ScopeByName
<1> QED
  BY <1>1, <1>2, <1>3, <1>4, <1>5 DEF new

-----------------------------------------------------------------------------
(* The types, and where the control may be in them.                        *)

Early == {"load", "resolve", "snapshot"}
Protected == {"edit", "decide", "rollback", "writing", "restoring"}
Places == Early \cup Protected \cup {"build"} \cup Ended
Copy == [from : Path, to : PathArgument]

ContextTyped(ctx) == ctx.cwd \in Path /\ ctx.project \subseteq ProjectDescriptor

Typed ==
    /\ host \in Hosts /\ call \in CallsOn(host) /\ pc \in Places
    /\ ContextTyped(context)
    /\ target \in [project : Path, configuration : Path, all : BOOLEAN]
    /\ tree \in Seq(ConfigElement) /\ todo \in Seq(Operation) /\ copies \in Seq(Copy)
    /\ ToSet(todo) \subseteq Requested

\* The files: what they are, and that every project of before is still there.
Stored ==
    /\ settings \in [DOMAIN before.settings -> Document]
    /\ before.settings \in [DOMAIN before.settings -> Document]
    /\ DOMAIN content \subseteq Path \ {<<>>}
    /\ IsFiniteSet(DOMAIN content) /\ DOMAIN before.content \subseteq DOMAIN content
    /\ \A p \in DOMAIN settings : p \in Path /\ p \o SettingsFile \in DOMAIN content

-----------------------------------------------------------------------------
(* Paths.                                                                  *)

LEMMA HostParts ==
    ASSUME host \in Hosts
    PROVE  /\ Host.files = DOMAIN content /\ Host.cwd = host.cwd /\ Host.names = host.names
           /\ Host.descriptors = host.descriptors /\ host.cwd \in Path
           /\ host.names \in [DOMAIN host.names -> Words]
           /\ host.descriptors \in [DOMAIN host.descriptors -> ProjectDescriptor]
BY HostsAssumption DEF Host

LEMMA CallParts ==
    ASSUME NEW h \in Hosts, NEW c \in CallsOn(h)
    PROVE  /\ \A search \in c.search :
                /\ search.folder \subseteq PathArgument
                /\ search.name \subseteq Words /\ AtMostOne(search.name)
           /\ c.args.project \subseteq PathArgument /\ c.project \subseteq PathArgument
           /\ c.configuration \subseteq Words /\ c.all \subseteq BOOLEAN
           /\ c.symbols \in Seq(Words) /\ c.sources \in Seq(Copy)
BY CallsAssumption DEF Copy

LEMMA CoerceIsPath ==
    ASSUME NEW path \in PathArgument, NEW anchor \in Path
    PROVE  Coerce(path, anchor) \in Path
BY DEF Coerce, PathArgument, Path

LEMMA PrefixOfItself == ASSUME NEW path \in Path PROVE IsPrefix(path, path)
BY DEF IsPrefix, Path

LEMMA ExistingFile == ASSUME NEW h, NEW path \in h.files, path \in Path PROVE Exists(h, path)
BY PrefixOfItself DEF Exists

LEMMA FrontOfPath ==
    ASSUME NEW path \in Path, Len(path) # 0
    PROVE  /\ Front(path) \in Path /\ Len(Front(path)) = Len(path) - 1
           /\ \A i \in 1..Len(path) - 1 : Front(path)[i] = path[i]
<1>1. path \in Seq(Text) /\ Len(path) \in Nat /\ Len(path) - 1 \in Nat
      /\ \A i \in 1..Len(path) : path[i] \in Text
  BY DEF Path
<1>2. Front(path) = SubSeq(path, 1, Len(path) - 1)
  BY DEF Front
<1> DEFINE n == Len(path) - 1
<1>3. n \in Nat /\ n <= Len(path)
  BY <1>1
<1> HIDE DEF n
<1>4. /\ SubSeq(path, 1, n) = [i \in 1..n |-> path[i]]
  BY <1>1, <1>3
<1>5. SubSeq(path, 1, n) \in Seq(Text) /\ Len(SubSeq(path, 1, n)) = n
  BY <1>1, <1>3, <1>4
<1> QED
  BY <1>2, <1>4, <1>5 DEF Path, n

LEMMA AppendedPath ==
    ASSUME NEW path \in Path, NEW file
    PROVE  /\ Len(path \o <<file>>) = Len(path) + 1 /\ Last(path \o <<file>>) = file
           /\ Front(path \o <<file>>) = path
           /\ \A i \in 1..Len(path) : (path \o <<file>>)[i] = path[i]
BY DEF Front, Last, Path

LEMMA PrefixByElements ==
    ASSUME NEW s \in Path, NEW t \in Path
    PROVE  IsPrefix(s, t) <=> Len(s) <= Len(t) /\ \A i \in 1..Len(s) : s[i] = t[i]
BY DEF IsPrefix, Path

-----------------------------------------------------------------------------
(* find_project.                                                           *)

Walkable(root, d) == IsPrefix(root, d) /\ Len(d) <= Len(root) + 2

LEMMA WalkFinds ==
    ASSUME NEW root \in Path, host \in Hosts, Stored
    PROVE  /\ \A d \in Walk(Host, root) : d \in Path /\ Walkable(root, d)
           /\ \A q \in DOMAIN settings : Walkable(root, q) =>
                q \in Walk(Host, root) \/ \E i \in DOMAIN q : q[i] \in Hidden
           /\ IsFiniteSet(Walk(Host, root))
<1> DEFINE files == {f \in DOMAIN content :
               /\ IsPrefix(root, f) /\ Len(f) \in Len(root) + 1 .. Len(root) + 3
               /\ Last(f) = SettingsFile[1]
               /\ \A i \in Len(root) + 1 .. Len(f) - 1 : f[i] \notin Hidden}
<1>1. Walk(Host, root) = {Front(f) : f \in files}
  BY HostParts DEF Walk
<1>2. DOMAIN content \subseteq Path /\ IsFiniteSet(DOMAIN content) /\ Len(root) \in Nat
  BY DEF Stored, Path
<1>3. ASSUME NEW f \in files PROVE Front(f) \in Path /\ Walkable(root, Front(f))
  <2>1. f \in Path /\ IsPrefix(root, f) /\ Len(f) \in Len(root) + 1 .. Len(root) + 3
    BY <1>2
  <2>2. /\ Len(f) # 0 /\ Front(f) \in Path /\ Len(Front(f)) = Len(f) - 1
        /\ \A i \in 1..Len(f) - 1 : Front(f)[i] = f[i]
    BY <1>2, <2>1, FrontOfPath
  <2>3. IsPrefix(root, Front(f))
    <3>1. /\ Len(f) \in Nat /\ Len(root) <= Len(f) - 1
          /\ \A i \in 1..Len(root) : root[i] = f[i] /\ i \in 1..Len(f) - 1
      BY <1>2, <2>1, PrefixByElements DEF Path
    <3>2. Len(root) <= Len(Front(f)) /\ \A i \in 1..Len(root) : root[i] = Front(f)[i]
      BY <2>2, <3>1
    <3> QED
      BY <2>2, <3>2, PrefixByElements
  <2> QED
    BY <1>2, <2>1, <2>2, <2>3 DEF Walkable
<1>4. ASSUME NEW q \in DOMAIN settings, Walkable(root, q), \A i \in DOMAIN q : q[i] \notin Hidden
      PROVE  q \in Walk(Host, root)
  <2>1. q \in Path /\ q \o SettingsFile \in DOMAIN content /\ Len(q) \in Nat /\ DOMAIN q = 1..Len(q)
    BY DEF Stored, Path
  <2> DEFINE f == q \o <<".cproject">>
  <2>2. /\ f \in DOMAIN content /\ f \in Path
        /\ Len(f) = Len(q) + 1 /\ Last(f) = ".cproject" /\ Front(f) = q
        /\ \A i \in 1..Len(q) : f[i] = q[i]
    BY <1>2, <2>1, AppendedPath DEF SettingsFile
  <2> HIDE DEF f
  <2>3. IsPrefix(root, f) /\ Len(f) \in Len(root) + 1 .. Len(root) + 3
    BY <1>2, <1>4, <2>1, <2>2, PrefixByElements DEF Walkable
  <2>4. \A i \in Len(root) + 1 .. Len(f) - 1 : f[i] \notin Hidden
    BY <1>2, <1>4, <2>1, <2>2
  <2>5. f \in files
    BY <2>2, <2>3, <2>4 DEF SettingsFile
  <2> QED
    BY <1>1, <2>2, <2>5
<1>5. IsFiniteSet({Front(f) : f \in files})
  <2>1. IsFiniteSet(files)
    BY <1>2, FS_Subset
  <2> DEFINE T == {Front(f) : f \in files}
             g == [f \in files |-> Front(f)]
  <2>2. g \in Surjection(files, T)
    BY DEF Surjection
  <2> QED
    BY <2>1, <2>2, FS_Surjection
<1> HIDE DEF files
<1> QED
  BY <1>1, <1>3, <1>4, <1>5

LEMMA PickPicks ==
    ASSUME NEW candidates, IsFiniteSet(candidates), NEW answer, NEW dir \in Pick(candidates, answer)
    PROVE  dir \in candidates /\ (dir \in answer \/ \A q \in candidates : q = dir)
<1>1. CASE Cardinality(candidates) = 1
  <2>1. \E x : candidates = {x}
    BY <1>1, FS_Singleton
  <2> QED
    BY <1>1, <2>1 DEF Pick
<1>2. CASE Cardinality(candidates) # 1
  BY <1>2 DEF Pick
<1> QED
  BY <1>1, <1>2

\* What a search finds is a project it can mean.
LEMMA FoundBySearch ==
    ASSUME host \in Hosts, call \in CallsOn(host), Stored, ContextTyped(context),
           call.search # {},
           NEW dir \in Discover(Host, context, Only(call.search), call.on_ambiguous)
    PROVE  dir \in Path /\ Found(dir)
<1> DEFINE search == Only(call.search)
           root == SearchRoot(host, context, search.folder)
           candidates == Walk(Host, root)
           similar == {d \in candidates : Similar(Only(search.name), ProjectName(host, d))}
<1>1. /\ search \in call.search /\ search.folder \subseteq PathArgument
      /\ search.name \subseteq Words /\ AtMostOne(search.name)
  BY OnlyIsIn, CallParts
<1>2. root \in Path
  BY <1>1, OnlyIsIn, HostParts, CoerceIsPath DEF SearchRoot, ContextTyped
<1>3. /\ \A d \in candidates : d \in Path /\ Walkable(root, d)
      /\ \A q \in DOMAIN settings : Walkable(root, q) =>
            q \in candidates \/ \E i \in DOMAIN q : q[i] \in Hidden
      /\ IsFiniteSet(candidates)
  BY <1>2, WalkFinds
<1>4. \A d : /\ ProjectName(Host, d) = ProjectName(host, d)
             /\ Nearby(d) <=> Walkable(root, d)
  BY HostParts DEF ProjectName, Nearby, Walkable
<1>5. SearchRoot(Host, context, search.folder) = root
  BY HostParts DEF SearchRoot
<1> HIDE DEF candidates, root
<1>6. CASE search.name = {}
  <2>1. dir \in Pick(candidates, call.on_ambiguous)
    BY <1>5, <1>6 DEF Discover, candidates
  <2>2. dir \in candidates /\ (dir \in call.on_ambiguous \/ \A q \in candidates : q = dir)
    BY <1>3, <2>1, PickPicks
  <2>3. \A d : Alike(d) <=> Walkable(root, d)
    BY <1>4, <1>6 DEF Alike
  <2> QED
    BY <1>3, <2>2, <2>3 DEF Found
<1>7. CASE search.name # {}
  <2>1. Only(search.name) \in Words /\ search.name = {Only(search.name)}
    BY <1>1, <1>7, OnlyIsIn DEF AtMostOne
  <2>2. \A d : Alike(d) <=> Walkable(root, d) /\ Similar(Only(search.name), ProjectName(host, d))
    BY <1>4, <2>1 DEF Alike
  <2>3. dir \in PickNamed(Host, candidates, Only(search.name), call.on_ambiguous)
    BY <1>5, <1>7 DEF Discover, candidates
  <2>4. CASE dir \in candidates /\ ProjectName(host, dir) = Only(search.name)
    <3>1. Similar(Only(search.name), Only(search.name))
      <4>1. Only(search.name) \in Seq(Text)
        BY <2>1 DEF Words
      <4> HIDE DEF search
      <4>2. 0 \in 0..Len(Only(search.name)) - Len(Only(search.name))
        BY <4>1
      <4>3. SubSeq(Only(search.name), 0 + 1, 0 + Len(Only(search.name))) = Only(search.name)
        BY <4>1
      <4> QED
        BY <4>2, <4>3 DEF Similar
    <3>2. Alike(dir)
      BY <1>3, <2>2, <2>4, <3>1
    <3> QED
      BY <1>3, <2>1, <2>4, <3>2 DEF Found
  <2>5. CASE dir \in Pick(similar, call.on_ambiguous)
    <3>1. IsFiniteSet(similar)
      BY <1>3, FS_Subset
    <3>2. dir \in similar /\ (dir \in call.on_ambiguous \/ \A q \in similar : q = dir)
      BY <2>5, <3>1, PickPicks
    <3>3. \A d : Alike(d) /\ d \in candidates => d \in similar
      BY <2>2
    <3>4. Alike(dir) /\ dir \in Path
      BY <1>3, <2>2, <3>2
    <3>5. ASSUME NEW q \in DOMAIN settings, Alike(q)
          PROVE  q \in similar \/ \E i \in DOMAIN q : q[i] \in Hidden
      BY <1>3, <2>2, <3>3, <3>5
    <3> QED
      BY <3>2, <3>4, <3>5 DEF Found
  <2> QED
    BY <1>4, <2>3, <2>4, <2>5 DEF PickNamed
<1> QED
  BY <1>6, <1>7
-----------------------------------------------------------------------------
(* The inductive invariants.                                               *)

\* The call is resolved; its project's file is read and backed up; the file is written.
Resolved == target.configuration # <<>>
Opened ==
    /\ Resolved /\ target.project \in DOMAIN settings
    /\ backup = {before.settings[target.project]}
    /\ before.settings[target.project].state = "whole"
Saved ==
    /\ Opened /\ settings[target.project] = Whole(tree)
    /\ todo = <<>> /\ copies = <<>>

ControlInv ==
    /\ pc \in {"load", "resolve"} => target = NoTarget /\ built = {}
    /\ pc \in Early => backup = {} /\ todo = <<>> /\ content = before.content
    /\ pc \in {"snapshot", "build", "result"} => Resolved
    /\ pc \in Protected => Opened
    /\ Resolved => ~KwargsRaise(call)
    /\ pc = "decide" => todo # <<>>
    /\ pc = "writing" => todo = <<>> /\ copies = <<>>

SettingsInv ==
    /\ settings # before.settings => Opened
    /\ \A p \in DOMAIN settings : p # target.project => settings[p] = before.settings[p]
    /\ Opened => settings[target.project] \in {before.settings[target.project], Torn, Whole(tree)}
    /\ pc \in Early \cup {"edit", "decide", "other_error"} => settings = before.settings
    /\ pc \in {"build", "result"} => Saved \/ (settings = before.settings /\ ~EditsRequested(call))
    /\ pc = "substrate_error" => Saved \/ settings = before.settings
    /\ pc = "unread" => Saved

MeantInv ==
    /\ Resolved => Meant(target.project) /\ (target.all => AllAsked)
    /\ \A b \in built : Resolved /\ b.project = target.project

ContentInv == \A f \in DOMAIN before.content :
                  content[f] # before.content[f] => call.on_existing = {"replace"}

\* What was in the file when the call began.
Former == before.settings[target.project].configs

TreeInv ==
    Opened =>
        /\ Alongside(Former, tree)
        /\ \A i \in DOMAIN Former :
              IF Scope(Former[i])
                THEN \A j \in DOMAIN Former[i].options :
                        ChangedAsAsked(Former[i].options[j], tree[i].options[j])
                ELSE tree[i].options = Former[i].options

\* The edits that are still to make; the others are made.
Left == ToSet(IF pc = "decide" THEN Tail(todo) ELSE todo)
EditsMade(config, ops) == Scope(config) =>
    \A j \in DOMAIN config.options : \A op \in ops : HasEdit(config.options[j], op)
DoneInv == Opened => \A i \in DOMAIN tree : EditsMade(tree[i], Requested \ Left)

\* Sources are copied after the edits, unless there is a file where they should go.
SourceMade(copy) ==
    /\ {copy.from, Destination(copy)} \subseteq DOMAIN content
    /\ content[Destination(copy)] = content[copy.from]
    /\ \A i \in DOMAIN tree : \A path \in tree[i].excluding : Last(path) # Last(Destination(copy))
SourcesInv ==
    Opened /\ call.on_existing = {} => \A copy \in ToSet(call.sources) \ ToSet(copies) : SourceMade(copy)

EditsInv ==
    /\ Typed /\ Stored /\ ControlInv /\ SettingsInv /\ MeantInv /\ ContentInv
    /\ TreeInv /\ DoneInv /\ SourcesInv

-----------------------------------------------------------------------------
(* The context, and what a call resolves to.                               *)

LEMMA ConfiguredParts ==
    ASSUME NEW ctx, ContextTyped(ctx)
    PROVE  /\ Configured(ctx, "project_path") \subseteq PathArgument
           /\ Configured(ctx, "default_configuration") \subseteq Words
           /\ Configured(ctx, "modify_all_configurations") \subseteq BOOLEAN
<1>1. ASSUME NEW descriptor \in ctx.project
      PROVE  /\ descriptor["project_path"] \subseteq PathArgument
             /\ descriptor["default_configuration"] \subseteq Words
             /\ descriptor["modify_all_configurations"] \subseteq BOOLEAN
  BY DEF ContextTyped, ProjectDescriptor
<1> QED
  BY <1>1 DEF Configured

LEMMA DescriptorPathIsPath ==
    ASSUME NEW ctx, ContextTyped(ctx), NEW p \in DescriptorPath(ctx, "project_path")
    PROVE  p \in Path
<1>1. PICK path \in Configured(ctx, "project_path") : p = Coerce(path, ctx.cwd)
  BY DEF DescriptorPath
<1> QED
  BY <1>1, ConfiguredParts, CoerceIsPath DEF ContextTyped

\* from_environment gives a context, if it does not raise.
LEMMA ContextIsTyped ==
    ASSUME host \in Hosts, call \in CallsOn(host), ~ContextRaises(Host, call.args)
    PROVE  ContextTyped(FromEnvironment(Host, call.args))
<1> DEFINE ctx == FromEnvironment(Host, call.args)
           descriptors == {Host.descriptors[file] : file \in FindProject(Host, call.args)}
<1>1. ctx.cwd = ContextCwd(Host, call.args) /\ ctx.project = descriptors
  BY DEF FromEnvironment
<1>2. ContextCwd(Host, call.args) \in Path
  BY HostParts, CallParts, OnlyIsIn, CoerceIsPath DEF ContextCwd
<1>3. FindProject(Host, call.args) \subseteq DOMAIN Host.descriptors
  BY DEF ContextRaises
<1>4. descriptors \subseteq ProjectDescriptor
  BY <1>3, HostParts
<1> QED
  BY <1>1, <1>2, <1>4 DEF ContextTyped

LEMMA PathIsPrefix ==
    ASSUME NEW s \in Path, NEW t \in Path, IsStrictPrefix(s, t)
    PROVE  \E n \in 0..Len(t) - 1 : SubSeq(t, 1, n) = s
<1>1. /\ Len(s) <= Len(t) /\ Len(s) \in Nat /\ Len(t) \in Nat
      /\ SubSeq(s, 1, Len(s)) = SubSeq(t, 1, Len(s)) /\ s # t
  BY DEF IsStrictPrefix, IsPrefix, Path
<1>2. SubSeq(s, 1, Len(s)) = s /\ SubSeq(t, 1, Len(t)) = t
  BY DEF Path
<1>3. Len(s) # Len(t)
  BY <1>1, <1>2
<1> DEFINE m == Len(s)
           n == Len(t)
<1>4. m <= n /\ m \in Nat /\ n \in Nat /\ m # n /\ SubSeq(t, 1, m) = s
  BY <1>1, <1>2, <1>3, Zenon
<1> HIDE DEF m, n
<1>5. m \in 0..n - 1
  BY <1>4
<1> QED
  BY <1>4, <1>5 DEF n

\* What a call resolves to is a project its caller can mean.
LEMMA ResolvesToMeant ==
    ASSUME host \in Hosts, call \in CallsOn(host), Stored, ContextTyped(context),
           NEW argument \in ProjectArguments,
           NEW p \in ResolveProject(Host, context, argument)
    PROVE  p \in Path /\ Meant(p)
<1>1. host.cwd \in Path /\ Host.cwd = host.cwd
  BY HostParts
<1>2. CASE call.search = {} /\ call.project = {}
  <2>1. p \in DescriptorPath(context, "project_path")
    BY <1>2 DEF ProjectArguments, ResolveProject
  <2> QED
    BY <1>2, <2>1, DescriptorPathIsPath DEF Meant
<1>3. CASE call.search = {} /\ call.project # {}
  <2> DEFINE explicit == Coerce(Only(call.project), host.cwd)
  <2>1. explicit \in Path
    BY <1>1, <1>3, OnlyIsIn, CallParts, CoerceIsPath
  <2>2. p \in ExplicitProject(Host, context, Only(call.project))
    BY <1>3 DEF ProjectArguments, ResolveProject
  <2>3. p = explicit \/ (p \in DescriptorPath(context, "project_path") /\ IsStrictPrefix(explicit, p))
    BY <1>1, <2>2 DEF ExplicitProject
  <2>4. p \in Path /\ IsPrefix(explicit, p)
    BY <2>1, <2>3, DescriptorPathIsPath, PrefixOfItself DEF IsStrictPrefix
  <2> QED
    BY <1>3, <2>4 DEF Meant
<1>4. CASE call.search # {}
  <2>1. PICK dir \in Discover(Host, context, Only(call.search), call.on_ambiguous) :
            argument = {Explicit(dir)}
    BY <1>4 DEF ProjectArguments
  <2>2. dir \in Path /\ Found(dir)
    BY <1>4, FoundBySearch
  <2>3. p \in ExplicitProject(Host, context, Explicit(dir))
    BY <2>1 DEF ResolveProject, Only
  <2>4. p = dir \/ (p \in DescriptorPath(context, "project_path") /\ IsStrictPrefix(dir, p))
    BY <2>3 DEF ExplicitProject, Explicit, Coerce
  <2>5. CASE p = dir
    BY <1>4, <2>2, <2>5 DEF Meant
  <2>6. CASE p \in DescriptorPath(context, "project_path") /\ IsStrictPrefix(dir, p)
    <3>1. p \in Path
      BY <2>6, DescriptorPathIsPath
    <3>2. \E n \in 0..Len(p) - 1 : Found(SubSeq(p, 1, n))
      BY <2>2, <2>6, <3>1, PathIsPrefix
    <3> QED
      BY <1>4, <2>6, <3>1, <3>2 DEF Meant
  <2> QED
    BY <2>4, <2>5, <2>6
<1> QED
  BY <1>2, <1>3, <1>4

LEMMA ResolvesConfiguration ==
    ASSUME host \in Hosts, call \in CallsOn(host), ContextTyped(context)
    PROVE  ResolveConfiguration(context, call.configuration) \in Words
<1> DEFINE options == OrElse(call.configuration,
                             OrElse(Configured(context, "default_configuration"), {<<"Debug">>}))
<1>1. <<"Debug">> \in Words
  <2>1. "Debug" \in Text
    BY TextAssumption DEF Literals
  <2> QED
    BY <2>1 DEF Words
<1>2. options # {} /\ options \subseteq Words
  BY <1>1, ConfiguredParts, CallParts DEF OrElse
<1> QED
  BY <1>2, OnlyIsIn DEF ResolveConfiguration

LEMMA ResolvesAll ==
    ASSUME host \in Hosts, call \in CallsOn(host), ContextTyped(context)
    PROVE  LET all == ResolveAllConfigurations(context, call.all)
           IN  all \in BOOLEAN /\ (all => AllAsked)
<1> DEFINE asked == OrElse(call.all, Configured(context, "modify_all_configurations"))
           options == OrElse(call.all, OrElse(Configured(context, "modify_all_configurations"), {FALSE}))
<1>1. options # {} /\ options \subseteq BOOLEAN
  BY ConfiguredParts, CallParts DEF OrElse
<1>2. options = asked \/ options = {FALSE}
  BY DEF OrElse
<1>3. Only(options) \in options
  BY <1>1, OnlyIsIn
<1>4. Only(options) \in BOOLEAN /\ (Only(options) => TRUE \in asked)
  <2> HIDE DEF options, asked
  <2> QED
    BY <1>1, <1>2, <1>3
<1> QED
  BY <1>4 DEF ResolveAllConfigurations, AllAsked

-----------------------------------------------------------------------------
(* What the invariants depend on.                                          *)

LEMMA OpenedSame ==
    ASSUME UNCHANGED <<target, backup, before>>, DOMAIN settings' = DOMAIN settings
    PROVE  Opened' <=> Opened
BY DEF Opened, Resolved

LEMMA MeantSame ==
    ASSUME UNCHANGED <<host, call, context>>, DOMAIN settings' = DOMAIN settings
    PROVE  /\ \A p : Meant(p)' <=> Meant(p)
           /\ AllAsked' <=> AllAsked
<1>1. \A p : Alike(p)' <=> Alike(p)
  BY DEF Alike, Nearby
<1>2. \A p : Found(p)' <=> Found(p)
  BY <1>1 DEF Found
<1>3. \A p : Meant(p)' <=> Meant(p)
  BY <1>2 DEF Meant
<1>4. AllAsked' <=> AllAsked
  BY DEF AllAsked
<1> QED
  BY <1>3, <1>4

LEMMA RequestedSame ==
    ASSUME UNCHANGED <<call, context>>
    PROVE  Requested' = Requested
BY DEF Requested

LEMMA TreeSame ==
    ASSUME TreeInv, UNCHANGED <<call, context, target, tree, before>>, told \subseteq told',
           Opened' => Opened
    PROVE  TreeInv'
<1>1. Requested' = Requested /\ Overruled \subseteq Overruled'
  BY RequestedSame DEF Overruled
<1>2. \A old, new : ChangedAsAsked(old, new) => ChangedAsAsked(old, new)'
  BY <1>1 DEF ChangedAsAsked
<1>3. (\A config : Scope(config)' <=> Scope(config)) /\ Former' = Former
  BY DEF Scope, Former
<1> QED
  BY <1>2, <1>3 DEF TreeInv

LEMMA EditsMadeSame ==
    ASSUME UNCHANGED <<call, target>>, told \subseteq told'
    PROVE  \A config, ops : EditsMade(config, ops) => EditsMade(config, ops)'
<1>1. Overruled \subseteq Overruled'
  BY DEF Overruled
<1>2. \A option, op : HasEdit(option, op) => HasEdit(option, op)'
  BY <1>1 DEF HasEdit, Sets
<1>3. \A config : Scope(config)' <=> Scope(config)
  BY DEF Scope
<1> QED
  BY <1>2, <1>3 DEF EditsMade

LEMMA DoneSame ==
    ASSUME DoneInv, UNCHANGED <<call, context, target, tree>>, told \subseteq told',
           Opened' => Opened, Left \subseteq Left'
    PROVE  DoneInv'
<1>1. Requested' = Requested
  BY RequestedSame
<1>2. \A config, ops : EditsMade(config, ops) => EditsMade(config, ops)'
  BY EditsMadeSame
<1>3. \A config : EditsMade(config, Requested \ Left) => EditsMade(config, Requested \ Left')
  BY DEF EditsMade
<1> QED
  BY <1>1, <1>2, <1>3 DEF DoneInv

LEMMA SourcesSame ==
    ASSUME SourcesInv, UNCHANGED <<call, target, tree, copies, content>>, Opened' => Opened
    PROVE  SourcesInv'
<1>1. \A copy : SourceMade(copy)' <=> SourceMade(copy)
  BY DEF SourceMade, Destination
<1> QED
  BY <1>1 DEF SourcesInv

LEMMA LeftSame ==
    ASSUME todo \in Seq(Operation), todo' = todo, pc = "decide" => todo # <<>>,
           pc' = "decide" => pc = "decide"
    PROVE  Left \subseteq Left'
BY ToSetTail DEF Left

\* A step that leaves the editor and the target alone.
Quiet ==
    /\ UNCHANGED <<host, call, context, target, tree, todo, copies, backup, content, before>>
    /\ told \subseteq told'
    /\ pc' \in Places /\ (pc' = "decide" => pc = "decide")
    /\ settings' \in [DOMAIN settings -> Document]

LEMMA QuietStep ==
    ASSUME EditsInv, Quiet
    PROVE  /\ Typed' /\ Stored' /\ ContentInv' /\ TreeInv' /\ DoneInv' /\ SourcesInv'
           /\ Opened' <=> Opened
           /\ UNCHANGED built => MeantInv'
<1>1. DOMAIN settings' = DOMAIN settings /\ (Opened' <=> Opened)
  BY OpenedSame DEF Quiet
<1>2. Typed'
  BY RequestedSame DEF EditsInv, Typed, ContextTyped, Quiet
<1>3. Stored'
  BY <1>1 DEF EditsInv, Stored, Quiet
<1>4. ContentInv'
  BY DEF EditsInv, ContentInv, Quiet
<1>5. TreeInv' /\ SourcesInv'
  BY <1>1, TreeSame, SourcesSame DEF EditsInv, Quiet
<1>6. DoneInv'
  <2>1. Left \subseteq Left'
    BY LeftSame DEF EditsInv, Typed, ControlInv, Quiet
  <2> QED
    BY <1>1, <2>1, DoneSame DEF EditsInv, Quiet
<1>7. ASSUME UNCHANGED built PROVE MeantInv'
  <2>1. /\ \A p : Meant(p)' <=> Meant(p)
        /\ AllAsked' <=> AllAsked
    BY <1>1, MeantSame DEF Quiet
  <2> QED
    BY <1>7, <2>1 DEF EditsInv, MeantInv, Resolved, Quiet
<1> QED
  BY <1>1, <1>2, <1>3, <1>4, <1>5, <1>6, <1>7

-----------------------------------------------------------------------------
(* The steps before and after the edits.                                   *)

LEMMA EditsInitInv == EditsInit => EditsInv
<1> SUFFICES ASSUME EditsInit PROVE EditsInv
  OBVIOUS
<1> USE DEF EditsInit
<1>1. ~Resolved /\ ~Opened
  BY DEF Resolved, Opened, NoTarget
<1>2. Typed
  <2>1. <<>> \in Seq(ConfigElement) /\ <<>> \in Seq(Operation) /\ <<>> \in Seq(Copy) /\ <<>> \in Path
    BY DEF Path
  <2>2. ToSet(todo) = {}
    BY DEF ToSet
  <2> QED
    BY <2>1, <2>2 DEF Typed, Places, Early, ContextTyped, NoContext, NoTarget
<1>3. Stored
  <2>1. settings \in [DOMAIN settings -> Document] /\ before.settings = settings
    BY DocumentsAssumption
  <2>2. DOMAIN content = host.files /\ before.content = content
    OBVIOUS
  <2>3. host.files \subseteq Path \ {<<>>} /\ IsFiniteSet(host.files)
    BY HostsAssumption
  <2>4. \A p \in DOMAIN settings : p \in Path /\ p \o SettingsFile \in host.files
    BY DocumentsAssumption
  <2> QED
    BY <2>1, <2>2, <2>3, <2>4 DEF Stored
<1>4. ControlInv /\ SettingsInv
  BY <1>1 DEF ControlInv, SettingsInv, Early, Protected
<1>5. MeantInv /\ ContentInv /\ TreeInv /\ DoneInv /\ SourcesInv
  BY <1>1 DEF MeantInv, ContentInv, TreeInv, DoneInv, SourcesInv
<1> QED
  BY <1>2, <1>3, <1>4, <1>5 DEF EditsInv

\* A step of a call that has no backup.
LEMMA UnopenedStep ==
    ASSUME EditsInv, pc \in Early, host' = host, call' = call, pc' \in Places, pc' # "decide",
           ContextTyped(context)', target' \in [project : Path, configuration : Path, all : BOOLEAN],
           UNCHANGED <<tree, todo, copies, content, settings, before, told>>,
           backup' = backup \/ ~Opened'
    PROVE  /\ Typed' /\ Stored' /\ ContentInv' /\ TreeInv' /\ DoneInv' /\ SourcesInv'
           /\ (backup' = backup => backup' = {})
           /\ todo' = <<>> /\ ~Opened' /\ settings' = before.settings' /\ content' = before.content'
<1>1. todo' = <<>> /\ content' = before.content' /\ ~Opened' /\ (backup' = backup => backup' = {})
  BY DEF EditsInv, ControlInv, Opened
<1>2. settings' = before.settings'
  BY DEF EditsInv, SettingsInv
<1>3. Typed'
  <2>1. ToSet(todo') = {}
    BY <1>1 DEF ToSet
  <2> QED
    BY <2>1 DEF EditsInv, Typed
<1>4. Stored' /\ ContentInv'
  BY DEF EditsInv, Stored, ContentInv
<1> QED
  BY <1>1, <1>2, <1>3, <1>4 DEF TreeInv, DoneInv, SourcesInv

LEMMA LoadInv == ASSUME EditsInv, Load PROVE EditsInv'
<1> USE DEF Load, world, history, editor
<1>1. pc = "load" /\ pc' \in {"substrate_error", "resolve"}
  BY DEF Goto
<1>2. ContextTyped(context)'
  BY ContextIsTyped DEF EditsInv, Typed, ContextTyped
<1>3. target' = NoTarget /\ built' = {} /\ target = NoTarget
  BY <1>1 DEF EditsInv, ControlInv
<1>4. /\ Typed' /\ Stored' /\ ContentInv' /\ TreeInv' /\ DoneInv' /\ SourcesInv'
      /\ backup' = {} /\ todo' = <<>> /\ ~Opened' /\ settings' = before.settings'
      /\ content' = before.content'
  BY <1>1, <1>2, <1>3, UnopenedStep DEF EditsInv, Typed, Places, Early, Ended
<1>5. ~Resolved'
  BY <1>3 DEF Resolved, NoTarget
<1>6. ControlInv' /\ SettingsInv' /\ MeantInv'
  BY <1>1, <1>3, <1>4, <1>5 DEF ControlInv, SettingsInv, MeantInv, Protected
<1> QED
  BY <1>4, <1>6 DEF EditsInv

LEMMA ResolveInv == ASSUME EditsInv, Resolve PROVE EditsInv'
<1> USE DEF world, history, editor
<1>1. /\ pc = "resolve" /\ target = NoTarget /\ built' = {}
      /\ UNCHANGED <<world, history, editor, call, context, built>>
  BY DEF Resolve, EditsInv, ControlInv
<1>2. host \in Hosts /\ call \in CallsOn(host) /\ ContextTyped(context) /\ Stored
  BY DEF EditsInv, Typed
<1>3. \/ pc' \in {"substrate_error", "other_error"} /\ target' = target
      \/ /\ ~KwargsRaise(call)
         /\ \E argument \in ProjectArguments :
               LET project == ResolveProject(Host, context, argument)
               IN  /\ project # {}
                   /\ target' = [project |-> Only(project),
                                 configuration |-> ResolveConfiguration(context, call.configuration),
                                 all |-> ResolveAllConfigurations(context, call.all)]
                   /\ pc' = IF EditsRequested(call) THEN "snapshot" ELSE "build"
  BY DEF Resolve, Goto
<1>4. CASE pc' \in {"substrate_error", "other_error"} /\ target' = target
  <2>1. /\ Typed' /\ Stored' /\ ContentInv' /\ TreeInv' /\ DoneInv' /\ SourcesInv'
        /\ backup' = {} /\ todo' = <<>> /\ ~Opened' /\ settings' = before.settings'
        /\ content' = before.content'
    BY <1>1, <1>4, UnopenedStep DEF EditsInv, Typed, Places, Early, Ended, ContextTyped
  <2>2. ~Resolved'
    BY <1>1, <1>4 DEF Resolved, NoTarget
  <2>3. ControlInv' /\ SettingsInv' /\ MeantInv'
    BY <1>1, <1>4, <2>1, <2>2 DEF ControlInv, SettingsInv, MeantInv, Protected, Early
  <2> QED
    BY <2>1, <2>3 DEF EditsInv
<1>5. ASSUME ~KwargsRaise(call), NEW argument \in ProjectArguments,
             ResolveProject(Host, context, argument) # {},
             target' = [project |-> Only(ResolveProject(Host, context, argument)),
                        configuration |-> ResolveConfiguration(context, call.configuration),
                        all |-> ResolveAllConfigurations(context, call.all)],
             pc' = IF EditsRequested(call) THEN "snapshot" ELSE "build"
      PROVE  EditsInv'
  <2>0. PICK p : p = Only(ResolveProject(Host, context, argument))
    OBVIOUS
  <2> DEFINE configuration == ResolveConfiguration(context, call.configuration)
             all == ResolveAllConfigurations(context, call.all)
  <2>1. p \in ResolveProject(Host, context, argument)
    BY <1>5, <2>0, OnlyIsIn
  <2>2. p \in Path /\ Meant(p)
    BY <1>2, <2>1, ResolvesToMeant
  <2>3. configuration \in Words
    BY <1>2, ResolvesConfiguration
  <2>4. all \in BOOLEAN /\ (all => AllAsked)
    BY <1>2, ResolvesAll
  <2>5. target' = [project |-> p, configuration |-> configuration, all |-> all]
    BY <1>5, <2>0
  <2> HIDE DEF configuration, all
  <2>6. /\ target' \in [project : Path, configuration : Path, all : BOOLEAN]
        /\ target'.configuration # <<>> /\ target'.project = p /\ target'.all = all
    BY <2>2, <2>3, <2>4, <2>5 DEF Path, Words
  <2>7. /\ Typed' /\ Stored' /\ ContentInv' /\ TreeInv' /\ DoneInv' /\ SourcesInv'
        /\ backup' = {} /\ todo' = <<>> /\ ~Opened' /\ settings' = before.settings'
        /\ content' = before.content'
    <3>1. pc' \in {"snapshot", "build"}
      BY <1>5
    <3> QED
      BY <1>1, <2>6, <3>1, UnopenedStep DEF EditsInv, Typed, Places, Early, ContextTyped
  <2>8. Meant(p)' /\ (all => AllAsked')
    BY <1>1, <2>2, <2>4, MeantSame
  <2>9. MeantInv'
    BY <1>1, <2>6, <2>8 DEF MeantInv
  <2>10. Resolved'
    BY <2>6 DEF Resolved
  <2>11. ControlInv'
    BY <1>1, <1>5, <2>7, <2>10 DEF ControlInv, Protected
  <2>12. SettingsInv'
    BY <1>1, <1>5, <2>7 DEF SettingsInv, Early
  <2> QED
    BY <2>7, <2>9, <2>11, <2>12 DEF EditsInv
<1> QED
  BY <1>3, <1>4, <1>5

LEMMA SnapshotInv == ASSUME EditsInv, Snapshot PROVE EditsInv'
<1> USE DEF world, history, resolved
<1>1. /\ pc = "snapshot" /\ Resolved /\ ~KwargsRaise(call) /\ built' = built
      /\ UNCHANGED <<host, content, settings, told, before, call, context, target>>
  BY DEF Snapshot, EditsInv, ControlInv
<1>2. /\ settings = before.settings /\ content = before.content /\ Resolved'
      /\ DOMAIN settings' = DOMAIN settings
  BY <1>1 DEF EditsInv, SettingsInv, ControlInv, Early, Resolved
<1>3. MeantInv'
  <2>1. /\ \A p : Meant(p)' <=> Meant(p)
        /\ AllAsked' <=> AllAsked
    BY <1>1, <1>2, MeantSame
  <2> QED
    BY <1>1, <2>1 DEF EditsInv, MeantInv, Resolved
<1>4. CASE /\ pc' \in {"substrate_error", "other_error"} /\ UNCHANGED <<tree, todo, copies>>
           /\ backup' = backup \/ ~Opened'
  <2>1. /\ Typed' /\ Stored' /\ ContentInv' /\ TreeInv' /\ DoneInv' /\ SourcesInv'
        /\ todo' = <<>> /\ ~Opened' /\ settings' = before.settings' /\ content' = before.content'
    BY <1>1, <1>4, UnopenedStep DEF EditsInv, Typed, Places, Early, Ended, ContextTyped
  <2>2. ControlInv' /\ SettingsInv'
    BY <1>1, <1>4, <2>1 DEF ControlInv, SettingsInv, Protected, Early
  <2> QED
    BY <1>3, <2>1, <2>2 DEF EditsInv
<1>5. CASE /\ target.project \in DOMAIN settings /\ settings[target.project].state = "whole"
           /\ backup' = {settings[target.project]} /\ tree' = settings[target.project].configs
           /\ todo' = Ops(call, context) /\ copies' = call.sources /\ pc' = "edit"
  <2>1. Opened'
    BY <1>1, <1>2, <1>5 DEF Opened
  <2>2. Former' = tree' /\ tree' \in Seq(ConfigElement)
    BY <1>1, <1>2, <1>5 DEF Former, EditsInv, Stored, Document
  <2>3. Typed'
    <3>1. Ops(call, context) \in Seq(Operation)
      BY <1>1, OpsWellformed DEF EditsInv, Typed, Wellformed
    <3>2. call.sources \in Seq(Copy)
      BY CallParts DEF EditsInv, Typed
    <3> QED
      BY <1>1, <1>5, <2>2, <3>1, <3>2 DEF EditsInv, Typed, ContextTyped, Places, Protected, Requested
  <2>4. Stored' /\ ContentInv'
    BY <1>1 DEF EditsInv, Stored, ContentInv
  <2>5. ControlInv' /\ SettingsInv'
    BY <1>1, <1>2, <1>5, <2>1 DEF ControlInv, SettingsInv, Protected, Early
  <2>6. TreeInv'
    <3>1. Alongside(Former, tree)'
      BY <2>2 DEF Alongside
    <3>2. \A option : ChangedAsAsked(option, option)'
      BY DEF ChangedAsAsked
    <3> QED
      BY <2>2, <3>1, <3>2 DEF TreeInv
  <2>7. DoneInv'
    <3>1. Left' = Requested'
      BY <1>1, <1>5 DEF Left, Requested
    <3> QED
      BY <3>1 DEF DoneInv, EditsMade
  <2>8. SourcesInv'
    BY <1>1, <1>5 DEF SourcesInv
  <2> QED
    BY <1>3, <2>3, <2>4, <2>5, <2>6, <2>7, <2>8 DEF EditsInv
<1>6. \/ /\ pc' \in {"substrate_error", "other_error"} /\ UNCHANGED <<tree, todo, copies, backup>>
      \/ /\ target.project \in DOMAIN settings
         /\ backup' = {settings[target.project]}
         /\ IF settings[target.project].state # "whole"
              THEN pc' = "substrate_error" /\ UNCHANGED <<tree, todo, copies>>
              ELSE /\ tree' = settings[target.project].configs
                   /\ todo' = Ops(call, context) /\ copies' = call.sources
                   /\ pc' = "edit"
  BY DEF Snapshot, Goto, editor
<1>7. settings[target.project].state # "whole" => ~Opened'
  BY <1>1, <1>2 DEF Opened
<1> QED
  BY <1>4, <1>5, <1>6, <1>7

\* The steps that are neither the editor's nor the first ones.
\* A step that at most saves the project's file.
LEMMA SavesQuietly ==
    ASSUME EditsInv, pc \in Protected, pc' \in Protected \cup {"build"} \cup Ended, pc' # "decide",
           UNCHANGED <<host, content, told, before, tree, todo, copies, backup, call, context, target, built>>,
           NEW doc \in {before.settings[target.project], Torn, Whole(tree)},
           settings' = settings \/ settings' = [settings EXCEPT ![target.project] = doc]
    PROVE  /\ Typed' /\ Stored' /\ ContentInv' /\ TreeInv' /\ DoneInv' /\ SourcesInv' /\ MeantInv'
           /\ Opened /\ Opened' /\ Resolved' /\ ~KwargsRaise(call)
           /\ (\A p \in DOMAIN settings' : p # target'.project => settings'[p] = before'.settings[p])
           /\ (settings' # settings => settings'[target.project] = doc)
           /\ (settings' # settings /\ doc = before.settings[target.project] => settings' = before.settings)
<1>1. Opened /\ Resolved /\ ~KwargsRaise(call) /\ Typed /\ Stored /\ SettingsInv
  BY DEF EditsInv, ControlInv, Opened
<1>2. target.project \in DOMAIN settings /\ settings \in [DOMAIN settings -> Document]
  BY <1>1 DEF Opened, Stored
<1>3. doc \in Document
  <2>1. before.settings[target.project] \in Document
    BY <1>1, <1>2 DEF Stored
  <2>2. Torn \in Document /\ Whole(tree) \in Document
    BY <1>1 DEF Typed, Torn, Whole, Document
  <2> QED
    BY <2>1, <2>2
<1>4. settings' \in [DOMAIN settings -> Document]
  BY <1>2, <1>3
<1>5. Quiet
  BY <1>4 DEF Quiet, Places, Protected
<1>6. /\ Typed' /\ Stored' /\ ContentInv' /\ TreeInv' /\ DoneInv' /\ SourcesInv'
      /\ Opened' /\ MeantInv'
  BY <1>1, <1>5, QuietStep
<1>7. \A p \in DOMAIN settings' : p # target'.project => settings'[p] = before'.settings[p]
  BY <1>1, <1>2 DEF SettingsInv
<1>8. settings' # settings => settings'[target.project] = doc
  BY <1>2
<1>9. ASSUME settings' # settings, doc = before.settings[target.project]
      PROVE  settings' = before.settings
  <2>1. \A p \in DOMAIN settings : settings'[p] = before.settings[p]
    BY <1>2, <1>7, <1>8, <1>9
  <2>2. before.settings \in [DOMAIN before.settings -> Document] /\ DOMAIN settings = DOMAIN before.settings
    BY <1>1 DEF Stored
  <2> QED
    BY <1>4, <2>1, <2>2
<1> QED
  BY <1>1, <1>6, <1>7, <1>8, <1>9 DEF Opened

LEMMA WriteInv == ASSUME EditsInv, Write PROVE EditsInv'
<1> USE DEF Write, history, editor, resolved
<1>1. /\ pc = "edit" /\ todo = <<>> /\ copies = <<>> /\ Opened /\ settings = before.settings
      /\ \/ pc' = "writing" /\ settings' = [settings EXCEPT ![target.project] = Torn]
         \/ pc' = "other_error" /\ settings' = settings
      /\ UNCHANGED <<host, content, told, before, editor, call, context, target, built>>
  BY DEF Goto, Saves, EditsInv, ControlInv, SettingsInv, Protected
<1>2. /\ pc \in Protected /\ pc' \in Protected \cup {"build"} \cup Ended /\ pc' # "decide"
      /\ settings' = settings \/ settings' = [settings EXCEPT ![target.project] = Torn]
  BY <1>1 DEF Protected, Ended
<1>3. /\ Typed' /\ Stored' /\ ContentInv' /\ TreeInv' /\ DoneInv' /\ SourcesInv' /\ MeantInv'
      /\ Opened' /\ Resolved' /\ ~KwargsRaise(call)
      /\ (\A p \in DOMAIN settings' : p # target'.project => settings'[p] = before'.settings[p])
      /\ (settings' # settings => settings'[target.project] = Torn)
  BY <1>1, <1>2, SavesQuietly
<1>4. ControlInv'
  BY <1>1, <1>3 DEF ControlInv, Protected, Early
<1>5. SettingsInv'
  BY <1>1, <1>3 DEF SettingsInv, EditsInv, Early
<1> QED
  BY <1>3, <1>4, <1>5 DEF EditsInv

LEMMA WrittenInv == ASSUME EditsInv, Written PROVE EditsInv'
<1> DEFINE doc == Whole(tree)
<1>1. /\ pc = "writing" /\ todo = <<>> /\ copies = <<>> /\ Opened
      /\ UNCHANGED <<host, content, told, before, tree, todo, copies, backup, call, context, target, built>>
      /\ \/ pc' = "rollback" /\ settings' = settings
         \/ pc' \in {"build", "unread"} /\ settings' = [settings EXCEPT ![target.project] = doc]
  BY DEF Written, history, editor, resolved, Goto, Failed, Saves, EditsInv, ControlInv, Protected
<1>2. /\ pc \in Protected /\ pc' \in Protected \cup {"build"} \cup Ended /\ pc' # "decide"
      /\ settings' = settings \/ settings' = [settings EXCEPT ![target.project] = doc]
  BY <1>1 DEF Protected, Ended
<1>3. /\ Typed' /\ Stored' /\ ContentInv' /\ TreeInv' /\ DoneInv' /\ SourcesInv' /\ MeantInv'
      /\ Opened' /\ Resolved' /\ ~KwargsRaise(call)
      /\ (\A p \in DOMAIN settings' : p # target'.project => settings'[p] = before'.settings[p])
  BY <1>1, <1>2, SavesQuietly
<1>4. target.project \in DOMAIN settings
  BY <1>1 DEF Opened
<1>5. ControlInv'
  BY <1>1, <1>3 DEF ControlInv, Protected, Early
<1>6. CASE pc' = "rollback" /\ settings' = settings
  <2>1. SettingsInv'
    BY <1>1, <1>3, <1>6 DEF SettingsInv, EditsInv, Early
  <2> QED
    BY <1>3, <1>5, <2>1 DEF EditsInv
<1>7. CASE pc' \in {"build", "unread"} /\ settings' = [settings EXCEPT ![target.project] = doc]
  <2>1. settings'[target'.project] = Whole(tree')
    BY <1>1, <1>4, <1>7
  <2>2. Saved'
    BY <1>1, <1>3, <2>1 DEF Saved
  <2>3. SettingsInv'
    BY <1>3, <1>7, <2>1, <2>2 DEF SettingsInv, Early
  <2> QED
    BY <1>3, <1>5, <2>3 DEF EditsInv
<1> QED
  BY <1>1, <1>6, <1>7

LEMMA RollbackInv == ASSUME EditsInv, Rollback PROVE EditsInv'
<1>1. /\ pc = "rollback" /\ Opened
      /\ UNCHANGED <<host, content, told, before, tree, todo, copies, backup, call, context, target, built>>
      /\ \/ pc' = "unrestored" /\ settings' = settings
         \/ pc' = "restoring" /\ settings' = [settings EXCEPT ![target.project] = Torn]
  BY DEF Rollback, history, editor, resolved, Goto, Saves, EditsInv, ControlInv, Protected
<1>2. /\ pc \in Protected /\ pc' \in Protected \cup {"build"} \cup Ended /\ pc' # "decide"
      /\ settings' = settings \/ settings' = [settings EXCEPT ![target.project] = Torn]
  BY <1>1 DEF Protected, Ended
<1>3. /\ Typed' /\ Stored' /\ ContentInv' /\ TreeInv' /\ DoneInv' /\ SourcesInv' /\ MeantInv'
      /\ Opened' /\ Resolved' /\ ~KwargsRaise(call)
      /\ (\A p \in DOMAIN settings' : p # target'.project => settings'[p] = before'.settings[p])
      /\ (settings' # settings => settings'[target.project] = Torn)
  BY <1>1, <1>2, SavesQuietly
<1>4. settings'[target.project] \in {before.settings[target.project], Torn, Whole(tree)}
  BY <1>1, <1>3 DEF EditsInv, SettingsInv
<1>5. ControlInv'
  BY <1>1, <1>3 DEF ControlInv, Protected, Early
<1>6. SettingsInv'
  BY <1>1, <1>3, <1>4 DEF SettingsInv, Early
<1> QED
  BY <1>3, <1>5, <1>6 DEF EditsInv

LEMMA RestoredInv == ASSUME EditsInv, Restored PROVE EditsInv'
<1> DEFINE doc == before.settings[target.project]
<1>1. /\ pc = "restoring" /\ Opened
      /\ UNCHANGED <<host, content, told, before, tree, todo, copies, backup, call, context, target, built>>
      /\ \/ pc' = "unrestored" /\ settings' = settings
         \/ pc' = "substrate_error" /\ settings' = [settings EXCEPT ![target.project] = Only(backup)]
  BY DEF Restored, history, editor, resolved, Goto, Saves, EditsInv, ControlInv, Protected
<1>2. Only(backup) = doc
  BY <1>1 DEF Opened, Only
<1>3. /\ pc \in Protected /\ pc' \in Protected \cup {"build"} \cup Ended /\ pc' # "decide"
      /\ settings' = settings \/ settings' = [settings EXCEPT ![target.project] = doc]
  BY <1>1, <1>2 DEF Protected, Ended
<1>4. /\ Typed' /\ Stored' /\ ContentInv' /\ TreeInv' /\ DoneInv' /\ SourcesInv' /\ MeantInv'
      /\ Opened' /\ Resolved' /\ ~KwargsRaise(call)
      /\ (\A p \in DOMAIN settings' : p # target'.project => settings'[p] = before'.settings[p])
      /\ (settings' # settings => settings' = before.settings)
  BY <1>1, <1>3, SavesQuietly
<1>5. pc' = "substrate_error" => settings' = before.settings
  <2>1. SUFFICES ASSUME pc' = "substrate_error", settings' = settings PROVE settings' = before.settings
    BY <1>4
  <2>2. settings'[target.project] = doc
    BY <1>1, <1>2, <2>1 DEF Opened, EditsInv, Stored
  <2>3. \A p \in DOMAIN settings' : settings'[p] = before.settings[p]
    BY <1>1, <1>4, <2>2
  <2>4. DOMAIN settings' = DOMAIN before.settings
        /\ before.settings \in [DOMAIN before.settings -> Document]
        /\ settings \in [DOMAIN settings -> Document]
    BY <2>1 DEF EditsInv, Stored
  <2> QED
    BY <2>1, <2>3, <2>4
<1>6. settings'[target.project] \in {before.settings[target.project], Torn, Whole(tree)}
  BY <1>1, <1>4 DEF EditsInv, SettingsInv
<1>7. ControlInv'
  BY <1>1, <1>4 DEF ControlInv, Protected, Early
<1>8. SettingsInv'
  BY <1>1, <1>4, <1>5, <1>6 DEF SettingsInv, Early
<1> QED
  BY <1>4, <1>7, <1>8 DEF EditsInv

LEMMA BuildInv == ASSUME EditsInv, Build PROVE EditsInv'
<1> USE DEF world, history, editor
<1>1. /\ pc = "build" /\ Resolved /\ ~KwargsRaise(call)
      /\ pc' \in {"result", "substrate_error"}
      /\ UNCHANGED <<world, told, before, editor, call, context, target>>
      /\ built' \in {built, built \cup {[project |-> target.project, configuration |-> target.configuration]}}
  BY DEF Build, Goto, EditsInv, ControlInv
<1>2. Quiet
  <2>1. settings \in [DOMAIN settings -> Document]
    BY DEF EditsInv, Stored
  <2> QED
    BY <1>1, <2>1 DEF Quiet, Places, Ended
<1>3. /\ Typed' /\ Stored' /\ ContentInv' /\ TreeInv' /\ DoneInv' /\ SourcesInv'
      /\ (Opened' <=> Opened)
  BY <1>2, QuietStep
<1>4. Resolved' /\ (Saved' <=> Saved)
  BY <1>1, <1>3 DEF Resolved, Saved
<1>5. MeantInv'
  <2>1. /\ \A p : Meant(p)' <=> Meant(p)
        /\ AllAsked' <=> AllAsked
    BY <1>1, MeantSame
  <2> QED
    BY <1>1, <1>4, <2>1 DEF EditsInv, MeantInv
<1>6. ControlInv'
  BY <1>1, <1>4 DEF ControlInv, Protected, Early
<1>7. SettingsInv'
  BY <1>1, <1>3, <1>4 DEF SettingsInv, EditsInv, Early
<1> QED
  BY <1>3, <1>5, <1>6, <1>7 DEF EditsInv

\* A step that ends the call where it was, saving nothing.
LEMMA EndsQuietly ==
    ASSUME EditsInv, UNCHANGED <<world, before, tree, todo, copies, backup, call, context, target, built>>,
           told \subseteq told',
           \/ pc' = "interrupted"
           \/ pc \in {"edit", "decide"} /\ pc' \in {"rollback", "other_error"}
    PROVE  EditsInv'
<1> USE DEF world
<1>1. Quiet
  <2>1. settings \in [DOMAIN settings -> Document]
    BY DEF EditsInv, Stored
  <2> QED
    BY <2>1 DEF Quiet, Places, Protected, Ended
<1>2. /\ Typed' /\ Stored' /\ ContentInv' /\ TreeInv' /\ DoneInv' /\ SourcesInv' /\ MeantInv'
      /\ (Opened' <=> Opened)
  BY <1>1, QuietStep
<1>3. ControlInv'
  BY <1>2 DEF ControlInv, Protected, Early, EditsInv, Resolved
<1>4. SettingsInv'
  BY <1>2 DEF SettingsInv, EditsInv, Early
<1> QED
  BY <1>2, <1>3, <1>4 DEF EditsInv

LEMMA InterruptInv == ASSUME EditsInv, Interrupt PROVE EditsInv'
BY EndsQuietly DEF Interrupt, Goto, history, editor, resolved

LEMMA AgainInv == ASSUME EditsInv, Again PROVE EditsInv'
<1> USE DEF world
<1>1. /\ pc' = "load" /\ UNCHANGED <<world, call>>
      /\ before' = [settings |-> settings, content |-> content]
      /\ target' = NoTarget /\ built' = {} /\ backup' = {} /\ context' = NoContext
      /\ tree' = <<>> /\ todo' = <<>> /\ copies' = <<>>
  BY DEF Again, Goto
<1>2. ~Resolved' /\ ~Opened'
  BY <1>1 DEF Resolved, Opened, NoTarget
<1>3. Typed'
  <2>1. <<>> \in Seq(ConfigElement) /\ <<>> \in Seq(Operation) /\ <<>> \in Seq(Copy) /\ <<>> \in Path
    BY DEF Path
  <2>2. ToSet(todo') = {}
    BY <1>1 DEF ToSet
  <2>3. host \in Hosts /\ call \in CallsOn(host)
    BY DEF EditsInv, Typed
  <2> QED
    BY <1>1, <2>1, <2>2, <2>3 DEF Typed, Places, Early, ContextTyped, NoContext, NoTarget
<1>4. Stored'
  BY <1>1 DEF EditsInv, Stored
<1>5. ControlInv' /\ SettingsInv'
  BY <1>1, <1>2 DEF ControlInv, SettingsInv, Early, Protected
<1>6. MeantInv' /\ ContentInv' /\ TreeInv' /\ DoneInv' /\ SourcesInv'
  BY <1>1, <1>2 DEF MeantInv, ContentInv, TreeInv, DoneInv, SourcesInv
<1> QED
  BY <1>3, <1>4, <1>5, <1>6 DEF EditsInv

-----------------------------------------------------------------------------
(* The editor's steps.                                                     *)

\* An edit the call asks for, or the removal of what on_conflict drops.
Justified(op) == op \in Requested \/ op.kind = "remove_list"
Dropped(op) == op.kind = "remove_list" => op.entry \in Overruled

\* What an edit does to an option's list, as a set.
LEMMA ListOfEdited ==
    ASSUME NEW old \in OptionElement, NEW op, Possible(op), NEW new, OptionEdited(old, new, op)
    PROVE  /\ op.class # old.class => new = old
           /\ op.class = old.class =>
                 /\ Sets(op) => new.value = op.value /\ ToSet(new.list) = ToSet(old.list)
                 /\ Appends(op) => new.value = old.value /\ ToSet(new.list) = ToSet(old.list) \cup {op.entry}
                 /\ op.kind = "remove_list" =>
                       new.value = old.value /\ ToSet(new.list) = ToSet(old.list) \ {op.entry}
           /\ Sets(op) \/ Appends(op) \/ op.kind = "remove_list"
           /\ ~(Sets(op) /\ Appends(op)) /\ (op.kind = "remove_list" => ~Sets(op) /\ ~Appends(op))
<1>1. old.list \in Seq(Path)
  BY DEF OptionElement
<1>2. /\ Sets(op) \/ Appends(op) \/ op.kind = "remove_list"
      /\ ~(Sets(op) /\ Appends(op)) /\ (op.kind = "remove_list" => ~Sets(op) /\ ~Appends(op))
  BY DEF Possible, Kinds, Sets, Appends
<1>3. Appends(op) => ToSet(Appended(old.list, op.entry)) = ToSet(old.list) \cup {op.entry}
  BY <1>1, AppendedElements DEF Possible
<1>4. ToSet(Removed(old.list, op.entry)) = ToSet(old.list) \ {op.entry}
  BY <1>1, RemovedElements
<1> QED
  BY <1>2, <1>3, <1>4 DEF OptionEdited

LEMMA StillAsAsked ==
    ASSUME UNCHANGED <<call, context>>, told \subseteq told',
           NEW former, NEW old \in OptionElement, former.class = old.class, ChangedAsAsked(former, old),
           NEW op, Possible(op), Justified(op), Dropped(op)', NEW new, OptionEdited(old, new, op)
    PROVE  ChangedAsAsked(former, new)'
<1>1. Requested' = Requested /\ Overruled \subseteq Overruled'
  BY RequestedSame DEF Overruled
<1>2. op.kind = "remove_list" => op.entry \in Overruled'
  BY DEF Dropped
<1>3. Sets(op) \/ Appends(op) => op \in Requested
  BY DEF Justified, Sets, Appends
<1>4. /\ old.value # former.value => \E asked \in Requested : Sets(asked) /\ asked.class = former.class
      /\ ToSet(former.list) \ ToSet(old.list) \subseteq Overruled
      /\ \A entry \in ToSet(old.list) \ ToSet(former.list) :
            \E asked \in Requested : asked.class = former.class /\ asked.entry = entry
  BY DEF ChangedAsAsked
<1>5. /\ op.class # old.class => new = old
      /\ op.class = old.class =>
            /\ Sets(op) => new.value = op.value /\ ToSet(new.list) = ToSet(old.list)
            /\ Appends(op) => new.value = old.value /\ ToSet(new.list) = ToSet(old.list) \cup {op.entry}
            /\ op.kind = "remove_list" =>
                  new.value = old.value /\ ToSet(new.list) = ToSet(old.list) \ {op.entry}
      /\ Sets(op) \/ Appends(op) \/ op.kind = "remove_list"
  BY ListOfEdited
<1>6. new.value # former.value => \E asked \in Requested : Sets(asked) /\ asked.class = former.class
  BY <1>3, <1>4, <1>5
<1>7. ToSet(former.list) \ ToSet(new.list) \subseteq Overruled'
  BY <1>1, <1>2, <1>4, <1>5
<1>8. \A entry \in ToSet(new.list) \ ToSet(former.list) :
          \E asked \in Requested : asked.class = former.class /\ asked.entry = entry
  BY <1>3, <1>4, <1>5
<1> QED
  BY <1>1, <1>6, <1>7, <1>8 DEF ChangedAsAsked, Sets

\* An edit undoes none that was other: of the options' values it sets the only one.
LEMMA StillHasEdit ==
    ASSUME UNCHANGED call, told \subseteq told',
           NEW old \in OptionElement, NEW op, Possible(op), Dropped(op)', NEW new, OptionEdited(old, new, op),
           NEW other, HasEdit(old, other),
           Sets(op) /\ Sets(other) /\ op.class = other.class => op.value = other.value
    PROVE  HasEdit(new, other)'
<1>1. Overruled \subseteq Overruled'
  BY DEF Overruled
<1>2. op.kind = "remove_list" => op.entry \in Overruled'
  BY DEF Dropped
<1>3. /\ op.class # old.class => new = old
      /\ op.class = old.class =>
            /\ Sets(op) => new.value = op.value /\ ToSet(new.list) = ToSet(old.list)
            /\ Appends(op) => new.value = old.value /\ ToSet(new.list) = ToSet(old.list) \cup {op.entry}
            /\ op.kind = "remove_list" =>
                  new.value = old.value /\ ToSet(new.list) = ToSet(old.list) \ {op.entry}
      /\ Sets(op) \/ Appends(op) \/ op.kind = "remove_list"
  BY ListOfEdited
<1>4. new.class = old.class
  BY DEF OptionEdited
<1>5. ASSUME other.class = new.class
      PROVE  IF Sets(other) THEN new.value = other.value ELSE other.entry \in ToSet(new.list) \cup Overruled'
  <2>1. IF Sets(other) THEN old.value = other.value ELSE other.entry \in ToSet(old.list) \cup Overruled
    BY <1>4, <1>5 DEF HasEdit
  <2>2. CASE Sets(other)
    BY <1>3, <1>4, <1>5, <2>1, <2>2
  <2>3. CASE ~Sets(other)
    BY <1>1, <1>2, <1>3, <1>4, <1>5, <2>1, <2>3
  <2> QED
    BY <2>2, <2>3
<1> QED
  BY <1>5 DEF HasEdit, Sets

LEMMA HasItsEdit ==
    ASSUME NEW old \in OptionElement, NEW op, Possible(op), op.kind # "remove_list",
           NEW new, OptionEdited(old, new, op)
    PROVE  HasEdit(new, op)'
<1>1. /\ op.class = old.class =>
            /\ Sets(op) => new.value = op.value
            /\ Appends(op) => ToSet(new.list) = ToSet(old.list) \cup {op.entry}
      /\ Sets(op) \/ Appends(op)
      /\ ~(Sets(op) /\ Appends(op))
      /\ new.class = old.class
  BY ListOfEdited DEF OptionEdited
<1>2. op.class = new.class =>
          IF Sets(op) THEN new.value = op.value ELSE op.entry \in ToSet(new.list)
  BY <1>1
<1> QED
  BY <1>2 DEF HasEdit, Sets

\* A step that makes an edit in the document keeps to what is asked, and keeps the
\* edits made and the sources added.
EditStep(op) ==
    /\ Possible(op) /\ Justified(op) /\ Dropped(op)' /\ tree' = Edited(tree, op) /\ told \subseteq told'
    /\ UNCHANGED <<host, call, context, target, backup, before, content, settings, copies, built>>

LEMMA EditedTree ==
    ASSUME EditsInv, Opened, NEW op, EditStep(op)
    PROVE  /\ tree' \in Seq(ConfigElement) /\ TreeInv' /\ SourcesInv' /\ Opened'
<1> USE DEF EditStep
<1>1. PICK doc : doc = Edited(tree, op)
  OBVIOUS
<1>2. tree \in Seq(ConfigElement) /\ TreeInv /\ SourcesInv
  BY DEF EditsInv, Typed
<1>3. /\ doc \in Seq(ConfigElement) /\ Alongside(tree, doc)
      /\ \A i \in DOMAIN tree :
            /\ doc[i].excluding = tree[i].excluding
            /\ ~Scope(tree[i]) => doc[i] = tree[i]
            /\ Scope(tree[i]) => \A j \in DOMAIN tree[i].options :
                  OptionEdited(tree[i].options[j], doc[i].options[j], op)
  BY <1>1, <1>2, EditsDocument
<1>4. /\ Opened' /\ Former' = Former /\ Requested' = Requested /\ tree' = doc
      /\ \A config : Scope(config)' <=> Scope(config)
  BY <1>1, OpenedSame, RequestedSame DEF Former, Scope
<1>5. /\ Alongside(Former, tree)
      /\ \A i \in DOMAIN Former :
            IF Scope(Former[i])
              THEN \A j \in DOMAIN Former[i].options :
                      ChangedAsAsked(Former[i].options[j], tree[i].options[j])
              ELSE tree[i].options = Former[i].options
  BY <1>2 DEF TreeInv
<1>6. Alongside(Former, doc)
  BY <1>3, <1>5 DEF Alongside
<1>7. ASSUME NEW i \in DOMAIN Former, Scope(Former[i]), NEW j \in DOMAIN Former[i].options
      PROVE  ChangedAsAsked(Former[i].options[j], doc[i].options[j])'
  <2>1. /\ i \in DOMAIN tree /\ tree[i].name = Former[i].name /\ j \in DOMAIN tree[i].options
        /\ tree[i].options[j].class = Former[i].options[j].class
    BY <1>5, <1>7 DEF Alongside
  <2>2. Scope(tree[i]) /\ tree[i].options[j] \in OptionElement
    BY <1>2, <1>7, <2>1, ScopeByName, DocumentParts, ConfigParts
  <2>3. OptionEdited(tree[i].options[j], doc[i].options[j], op)
    BY <1>3, <2>1, <2>2
  <2>4. ChangedAsAsked(Former[i].options[j], tree[i].options[j])
    BY <1>5, <1>7
  <2>5. PICK former, old, new : /\ former = Former[i].options[j] /\ old = tree[i].options[j]
                                /\ new = doc[i].options[j]
    OBVIOUS
  <2>6. ChangedAsAsked(former, new)'
    BY <2>1, <2>2, <2>3, <2>4, <2>5, StillAsAsked
  <2>7. former = (Former[i].options[j])' /\ new = doc[i].options[j]
    BY <1>4, <2>5
  <2> QED
    BY <2>6, <2>7
<1>8. ASSUME NEW i \in DOMAIN Former, ~Scope(Former[i])
      PROVE  doc[i].options = Former[i].options
  <2>1. i \in DOMAIN tree /\ ~Scope(tree[i]) /\ tree[i].options = Former[i].options
    BY <1>5, <1>8, ScopeByName DEF Alongside
  <2> QED
    BY <1>3, <2>1
<1>9. TreeInv'
  BY <1>4, <1>6, <1>7, <1>8 DEF TreeInv
<1>10. SourcesInv'
  <2>1. \A copy : SourceMade(copy) => SourceMade(copy)'
    <3>1. DOMAIN doc = DOMAIN tree /\ \A i \in DOMAIN tree : doc[i].excluding = tree[i].excluding
      BY <1>3 DEF Alongside
    <3>2. \A copy : Destination(copy)' = Destination(copy)
      BY DEF Destination
    <3> QED
      BY <1>4, <3>1, <3>2 DEF SourceMade
  <2> QED
    BY <1>2, <2>1 DEF SourcesInv
<1> QED
  BY <1>3, <1>4, <1>9, <1>10

\* One value for the options of a class.
Agreeing(op, ops) == \A other \in ops : Sets(op) /\ Sets(other) /\ op.class = other.class => op.value = other.value

LEMMA EditedKeepsEdits ==
    ASSUME EditsInv, NEW op, EditStep(op), NEW ops, Agreeing(op, ops),
           \A i \in DOMAIN tree : EditsMade(tree[i], ops)
    PROVE  /\ (\A i \in DOMAIN tree : EditsMade(tree[i], ops))'
           /\ op.kind # "remove_list" => (\A i \in DOMAIN tree : EditsMade(tree[i], {op}))'
<1> USE DEF EditStep
<1>1. PICK doc : doc = Edited(tree, op)
  OBVIOUS
<1>2. tree \in Seq(ConfigElement)
  BY DEF EditsInv, Typed
<1>3. /\ DOMAIN doc = DOMAIN tree
      /\ \A i \in DOMAIN tree :
            /\ doc[i].name = tree[i].name /\ DOMAIN doc[i].options = DOMAIN tree[i].options
            /\ Scope(tree[i]) => \A j \in DOMAIN tree[i].options :
                  OptionEdited(tree[i].options[j], doc[i].options[j], op)
  BY <1>1, <1>2, EditsDocument DEF Alongside
<1>4. tree' = doc /\ \A config : Scope(config)' <=> Scope(config)
  BY <1>1 DEF Scope
<1>5. ASSUME NEW i \in DOMAIN doc, Scope(doc[i])', NEW j \in DOMAIN doc[i].options
      PROVE  /\ \A other \in ops : HasEdit(doc[i].options[j], other)'
             /\ op.kind # "remove_list" => HasEdit(doc[i].options[j], op)'
  <2>1. i \in DOMAIN tree /\ j \in DOMAIN tree[i].options /\ Scope(tree[i])
    BY <1>3, <1>4, <1>5, ScopeByName
  <2>2. PICK old, new : old = tree[i].options[j] /\ new = doc[i].options[j]
    OBVIOUS
  <2>3. old \in OptionElement /\ OptionEdited(old, new, op)
    BY <1>2, <1>3, <2>1, <2>2, DocumentParts, ConfigParts
  <2>4. \A other \in ops : HasEdit(old, other)
    BY <2>1, <2>2 DEF EditsMade
  <2>5. \A other \in ops : HasEdit(new, other)'
    BY <2>3, <2>4, StillHasEdit DEF Agreeing
  <2>6. op.kind # "remove_list" => HasEdit(new, op)'
    BY <2>3, HasItsEdit
  <2> QED
    BY <2>2, <2>5, <2>6
<1> QED
  BY <1>4, <1>5 DEF EditsMade

LEMMA EditOptionInv == ASSUME EditsInv, EditOption PROVE EditsInv'
<1> USE DEF world, history, editor, resolved
<1>0. PICK op : op = Head(todo)
  OBVIOUS
<1>1. /\ pc = "edit" /\ todo # <<>> /\ Opened /\ Resolved /\ ~KwargsRaise(call)
      /\ todo \in Seq(Operation) /\ ToSet(todo) \subseteq Requested
      /\ UNCHANGED <<world, told, before, call, context, target, built, copies, backup>>
  BY DEF EditOption, EditsInv, ControlInv, Typed, Protected, Opened
<1>2. /\ op \in Operation /\ Tail(todo) \in Seq(Operation)
      /\ ToSet(todo) = {op} \cup ToSet(Tail(todo)) /\ op \in Requested
  BY <1>0, <1>1, ToSetTail
<1>3. CASE pc' \in {"other_error", "rollback"} /\ UNCHANGED <<tree, todo>>
  <2>1. EditsInv'
    BY <1>1, <1>3, EndsQuietly
  <2> QED
    BY <2>1
<1>4. CASE /\ op.kind # "unknown_preset" /\ tree' = Edited(tree, op)
           /\ \/ pc' = "edit" /\ todo' = Tail(todo)
              \/ pc' = "decide" /\ todo' = todo
  <2>1. Wellformed(call, Ops(call, context))
    BY <1>1, OpsWellformed DEF EditsInv, Typed
  <2>2. /\ op.kind \in Kinds /\ op.value \in Text /\ op.entry \in Path
        /\ op.kind # "remove_list" /\ Agreeing(op, Requested)
    BY <1>2, <2>1 DEF Wellformed, Requested, Operation, Agreeing
  <2>3. EditStep(op)
    BY <1>1, <1>2, <1>4, <2>2 DEF EditStep, Possible, Justified, Dropped
  <2>4. tree' \in Seq(ConfigElement) /\ TreeInv' /\ SourcesInv' /\ Opened'
    BY <1>1, <2>3, EditedTree
  <2>5. Typed'
    <3>1. Requested' = Requested
      BY <1>1, RequestedSame
    <3>2. todo' \in Seq(Operation) /\ ToSet(todo') \subseteq Requested
      BY <1>1, <1>2, <1>4
    <3>3. pc' \in Places
      BY <1>4 DEF Places, Protected
    <3> QED
      BY <1>1, <2>4, <3>1, <3>2, <3>3 DEF EditsInv, Typed, ContextTyped
  <2>6. DoneInv'
    <3>1. PICK ops : ops = Requested \ Left
      OBVIOUS
    <3>2. /\ \A i \in DOMAIN tree : EditsMade(tree[i], ops)
          /\ Agreeing(op, ops)
      BY <1>1, <2>2, <3>1 DEF EditsInv, DoneInv, Agreeing
    <3>3. /\ (\A i \in DOMAIN tree : EditsMade(tree[i], ops))'
          /\ (\A i \in DOMAIN tree : EditsMade(tree[i], {op}))'
      BY <2>2, <2>3, <3>2, EditedKeepsEdits
    <3>4. Left = ToSet(todo) /\ Left' = ToSet(Tail(todo)) /\ Requested' = Requested
      BY <1>1, <1>4, RequestedSame DEF Left
    <3>5. (Requested \ Left)' \subseteq ops \cup {op}
      BY <1>2, <3>1, <3>4
    <3>6. PICK left : left = (Requested \ Left)' /\ left \subseteq ops \cup {op}
      BY <3>5
    <3>7. (\A i \in DOMAIN tree : EditsMade(tree[i], left))'
      BY <3>3, <3>6 DEF EditsMade
    <3> QED
      BY <3>6, <3>7 DEF DoneInv
  <2>7. Stored' /\ ContentInv'
    BY <1>1 DEF EditsInv, Stored, ContentInv
  <2>8. MeantInv'
    <3>1. /\ \A p : Meant(p)' <=> Meant(p)
          /\ AllAsked' <=> AllAsked
      BY <1>1, MeantSame
    <3> QED
      BY <1>1, <3>1 DEF EditsInv, MeantInv, Resolved
  <2>9. ControlInv'
    BY <1>1, <1>4, <2>4 DEF ControlInv, Protected, Early
  <2>10. SettingsInv'
    <3>1. settings = before.settings /\ target.project \in DOMAIN settings
      BY <1>1 DEF EditsInv, SettingsInv, Opened
    <3> QED
      BY <1>1, <1>4, <2>4, <3>1 DEF SettingsInv, Early
  <2> QED
    BY <2>4, <2>5, <2>6, <2>7, <2>8, <2>9, <2>10 DEF EditsInv
<1>5. \/ pc' \in {"other_error", "rollback"} /\ UNCHANGED <<tree, todo>>
      \/ /\ op.kind # "unknown_preset" /\ tree' = Edited(tree, op)
         /\ \/ pc' = "edit" /\ todo' = Tail(todo)
            \/ pc' = "decide" /\ todo' = todo
  BY <1>0 DEF EditOption, Goto
<1> QED
  BY <1>3, <1>4, <1>5

LEMMA DecideInv == ASSUME EditsInv, Decide PROVE EditsInv'
<1> USE DEF world, resolved
<1>1. /\ pc = "decide" /\ todo # <<>> /\ Opened /\ Resolved /\ ~KwargsRaise(call)
      /\ todo \in Seq(Operation) /\ ToSet(todo) \subseteq Requested
      /\ UNCHANGED <<world, before, call, context, target, built, copies, backup>>
      /\ told' = told \cup {[existing |-> Head(asking), requested |-> Head(todo).entry]}
  BY DEF Decide, EditsInv, ControlInv, Typed, Protected, Opened
<1>2. CASE pc' \in {"other_error", "rollback"} /\ UNCHANGED <<tree, todo>>
  <2>1. EditsInv'
    BY <1>1, <1>2, EndsQuietly
  <2> QED
    BY <2>1
<1>3. ASSUME NEW removed, removed \in Overruled', tree' = Edited(tree, RemoveFrom(Symbols, removed)),
             \/ pc' = "edit" /\ todo' = Tail(todo)
             \/ pc' = "decide" /\ todo' = todo
      PROVE  EditsInv'
  <2> DEFINE op == RemoveFrom(Symbols, removed)
  <2>1. /\ op.kind = "remove_list" /\ op.value = "" /\ op.entry = removed /\ ~Sets(op) /\ ~Appends(op)
        /\ "" \in Text
    BY TextAssumption DEF RemoveFrom, Edit, Sets, Appends, Literals
  <2> HIDE DEF op
  <2>2. EditStep(op)
    <3>1. Dropped(op)'
      BY <1>3, <2>1 DEF Dropped
    <3>2. Possible(op) /\ Justified(op)
      BY <2>1 DEF Possible, Kinds, Justified
    <3> QED
      BY <1>1, <1>3, <3>1, <3>2 DEF EditStep, op
  <2>3. tree' \in Seq(ConfigElement) /\ TreeInv' /\ SourcesInv' /\ Opened'
    BY <1>1, <2>2, EditedTree
  <2>4. Tail(todo) \in Seq(Operation) /\ ToSet(Tail(todo)) \subseteq ToSet(todo)
    BY <1>1, ToSetTail
  <2>5. Typed'
    <3>1. Requested' = Requested
      BY <1>1, RequestedSame
    <3>2. todo' \in Seq(Operation) /\ ToSet(todo') \subseteq Requested
      BY <1>1, <1>3, <2>4
    <3>3. pc' \in Places
      BY <1>3 DEF Places, Protected
    <3> QED
      BY <1>1, <2>3, <3>1, <3>2, <3>3 DEF EditsInv, Typed, ContextTyped
  <2>6. DoneInv'
    <3>1. PICK ops : ops = Requested \ Left
      OBVIOUS
    <3>2. /\ \A i \in DOMAIN tree : EditsMade(tree[i], ops)
          /\ Agreeing(op, ops)
      BY <1>1, <2>1, <3>1 DEF EditsInv, DoneInv, Agreeing
    <3>3. (\A i \in DOMAIN tree : EditsMade(tree[i], ops))'
      BY <2>2, <3>2, EditedKeepsEdits
    <3>4. Left' = Left /\ Requested' = Requested
      BY <1>1, <1>3, RequestedSame DEF Left
    <3> QED
      BY <3>1, <3>3, <3>4 DEF DoneInv
  <2>7. Stored' /\ ContentInv'
    BY <1>1 DEF EditsInv, Stored, ContentInv
  <2>8. MeantInv'
    <3>1. /\ \A p : Meant(p)' <=> Meant(p)
          /\ AllAsked' <=> AllAsked
      BY <1>1, MeantSame
    <3> QED
      BY <1>1, <3>1 DEF EditsInv, MeantInv, Resolved
  <2>9. ControlInv'
    BY <1>1, <1>3, <2>3 DEF ControlInv, Protected, Early
  <2>10. SettingsInv'
    <3>1. settings = before.settings /\ target.project \in DOMAIN settings
      BY <1>1 DEF EditsInv, SettingsInv, Opened
    <3> QED
      BY <1>1, <1>3, <2>3, <3>1 DEF SettingsInv, Early
  <2> QED
    BY <2>3, <2>5, <2>6, <2>7, <2>8, <2>9, <2>10 DEF EditsInv
<1>4. call.on_conflict = {"replace"} => Head(asking) \in Overruled'
  BY <1>1 DEF Overruled
<1>5. call.on_conflict = {"skip"} => Head(todo).entry \in Overruled'
  <2>1. {"skip"} # {"replace"}
    OBVIOUS
  <2> QED
    BY <1>1, <2>1 DEF Overruled
<1>6. \/ pc' \in {"other_error", "rollback"} /\ UNCHANGED <<tree, todo>>
      \/ call.on_conflict = {"replace"} /\ Decided(Head(asking))
      \/ call.on_conflict = {"skip"} /\ Decided(Head(todo).entry)
  BY DEF Decide, Goto
<1>7. \A removed : Decided(removed) =>
          /\ tree' = Edited(tree, RemoveFrom(Symbols, removed))
          /\ \/ pc' = "edit" /\ todo' = Tail(todo)
             \/ pc' = "decide" /\ todo' = todo
  BY DEF Decided, Goto
<1>8. PICK existing, requested : existing = Head(asking) /\ requested = Head(todo).entry
  OBVIOUS
<1> QED
  BY <1>2, <1>3, <1>4, <1>5, <1>6, <1>7, <1>8

-----------------------------------------------------------------------------
(* Sources.                                                                *)

LEMMA MinIsIn == ASSUME NEW S \in SUBSET Nat, S # {} PROVE Min(S) \in S
<1>1. PICK m \in S : \A y \in S : ~(<<y, m>> \in OpToRel(<, Nat))
  BY NatLessThanWellFounded, WFMin
<1>2. m \in Nat /\ \A y \in S : y \in Nat
  OBVIOUS
<1>3. \A y \in S : ~(y < m)
  BY <1>1, <1>2 DEF OpToRel
<1>4. \A y \in S : m <= y
  BY <1>2, <1>3
<1> QED
  BY <1>4 DEF Min

LEMMA LastIsText == ASSUME NEW path \in Path \ {<<>>} PROVE Last(path) \in Text
BY DEF Last, Path

LEMMA FrontIsPath == ASSUME NEW path \in Path PROVE Front(path) \in Path
<1>1. CASE Len(path) # 0
  BY <1>1, FrontOfPath
<1>2. CASE Len(path) = 0
  <2>1. path = <<>>
    BY <1>2 DEF Path
  <2>2. Front(path) = <<>>
    BY <2>1 DEF Front
  <2> QED
    BY <2>2 DEF Path
<1> QED
  BY <1>1, <1>2

\* A file is renamed to a name that is free.
LEMMA RenamedToFree ==
    ASSUME NEW path \in Path, Renames(path), FreeNumbers(path) # {}
    PROVE  Placed(path) \in Path /\ ~Taken(Placed(path))
<1> DEFINE i == Min(FreeNumbers(path))
<1>1. /\ Last(path) \in DOMAIN Numbered
      /\ FreeNumbers(path) = {n \in DOMAIN Numbered[Last(path)] : ~Taken(Sibling(path, n))}
  BY DEF FreeNumbers
<1>2. Numbered[Last(path)] \in Path
  BY <1>1, NumberedAssumption
<1>3. FreeNumbers(path) \in SUBSET Nat
  BY <1>1, <1>2 DEF Path
<1>4. i \in FreeNumbers(path)
  BY <1>3, MinIsIn
<1> HIDE DEF i
<1>5. ~Taken(Sibling(path, i)) /\ Numbered[Last(path)][i] \in Text
  BY <1>1, <1>2, <1>4 DEF Path
<1>6. Sibling(path, i) \in Path
  BY <1>5, FrontIsPath DEF Sibling, Path
<1> QED
  BY <1>5, <1>6 DEF Placed, i

\* Without "replace", a file goes where there is none.
LEMMA PlacedWhereFree ==
    ASSUME NEW path \in Path,
           Taken(path) => call.on_existing = {"replace"} \/ (Renames(path) /\ FreeNumbers(path) # {})
    PROVE  /\ Placed(path) \in Path
           /\ call.on_existing # {"replace"} => ~Taken(Placed(path))
<1>1. CASE Renames(path)
  <2>1. FreeNumbers(path) # {}
    <3>1. Taken(path) /\ call.on_existing = {"rename"} /\ {"rename"} # {"replace"}
      BY <1>1 DEF Renames
    <3> QED
      BY <3>1
  <2> QED
    BY <1>1, <2>1, RenamedToFree
<1>2. CASE ~Renames(path)
  BY <1>2 DEF Placed
<1> QED
  BY <1>1, <1>2

\* Where shutil.copy2 puts it.
Put(from, path) == IF IsDir(Host, path) THEN Append(path, Last(from)) ELSE path

LEMMA PutIsFile ==
    ASSUME host \in Hosts, Stored, NEW path \in Path, NEW from \in DOMAIN content
    PROVE  /\ Put(from, path) \in Path \ {<<>>}
           /\ ~Taken(path) => Put(from, path) = path /\ path \notin DOMAIN content
<1>1. /\ Host.files = DOMAIN content /\ DOMAIN content \subseteq Path \ {<<>>}
      /\ from \in Path \ {<<>>}
  BY HostParts DEF Stored
<1>2. CASE IsDir(Host, path)
  <2>1. Last(from) \in Text
    BY <1>1, LastIsText
  <2>2. Append(path, Last(from)) \in Path \ {<<>>}
    BY <2>1 DEF Path
  <2> QED
    BY <1>2, <2>2 DEF Put, IsDir, Taken
<1>3. CASE ~IsDir(Host, path)
  <2>1. path # <<>>
    <3>1. IsPrefix(<<>>, from)
      BY <1>1 DEF IsPrefix, Path
    <3>2. path = <<>> => Exists(Host, path) /\ path \notin Host.files
      BY <1>1, <3>1 DEF Exists
    <3> QED
      BY <1>3, <3>2 DEF IsDir
  <2>2. ~Taken(path) => path \notin DOMAIN content
    BY <1>1, ExistingFile DEF Taken
  <2> QED
    BY <1>3, <2>1, <2>2 DEF Put
<1> QED
  BY <1>2, <1>3

\* What a copy does, when nothing stops it.
Copies(copy) ==
    LET path == Destination(copy)
        place == Put(copy.from, Placed(path))
    IN  /\ Taken(path) => call.on_existing = {"replace"} \/ (Renames(path) /\ FreeNumbers(path) # {})
        /\ copy.from \in DOMAIN content
        /\ content' = [f \in DOMAIN content \cup {place} |-> content[IF f = place THEN copy.from ELSE f]]
        /\ tree' = Unexcluded(tree, Last(Placed(path))) /\ copies' = Tail(copies) /\ pc' = pc

LEMMA AddSourceCases ==
    ASSUME AddSource
    PROVE  \/ pc' \in {"rollback", "other_error"} /\ UNCHANGED <<copies, content, tree>>
           \/ /\ Skips(Destination(Head(copies))) /\ call.on_existing = {"skip"}
              /\ copies' = Tail(copies) /\ UNCHANGED <<pc, content, tree>>
           \/ Copies(Head(copies))
<1>1. \A from, path : CopyTo(from, path) =>
          content' = [f \in DOMAIN content \cup {Put(from, path)} |->
                         content[IF f = Put(from, path) THEN from ELSE f]]
  BY DEF CopyTo, Put
<1>2. \A from, path : ~CannotCopy(from, path) => from \in DOMAIN content
  BY DEF CannotCopy
<1> DEFINE copy == Head(copies)
           path == Destination(copy)
<1>3. \/ Skips(path) /\ copies' = Tail(copies) /\ UNCHANGED <<pc, content, tree>>
      \/ pc' \in {"rollback", "other_error"} /\ UNCHANGED <<copies, content, tree>>
      \/ /\ Taken(path) => call.on_existing = {"replace"} \/ (Renames(path) /\ FreeNumbers(path) # {})
         /\ ~CannotCopy(copy.from, Placed(path))
         /\ CopyTo(copy.from, Placed(path))
         /\ tree' = Unexcluded(tree, Last(Placed(path)))
         /\ copies' = Tail(copies) /\ UNCHANGED pc
  BY DEF AddSource, Goto
<1>4. Skips(path) => call.on_existing = {"skip"}
  BY DEF Skips
<1> QED
  BY <1>1, <1>2, <1>3, <1>4 DEF Copies

\* A source that has been added stays.
LEMMA SourcesAfterCopy ==
    ASSUME EditsInv, Opened, copies # <<>>, Copies(Head(copies)),
           UNCHANGED <<host, call, context, target, backup, before, settings>>
    PROVE  SourcesInv'
<1>1. SUFFICES ASSUME Opened', call.on_existing = {}, NEW c \in ToSet(call.sources) \ ToSet(Tail(copies))
               PROVE  SourceMade(c)'
  BY DEF SourcesInv, Copies
<1>2. PICK copy, path, name : /\ copy = Head(copies) /\ path = Destination(copy)
                              /\ name = Last(Placed(path))
  OBVIOUS
<1>3. /\ host \in Hosts /\ Stored /\ copies \in Seq(Copy) /\ tree \in Seq(ConfigElement)
      /\ target.project \in Path
  BY DEF EditsInv, Typed
<1>4. copy \in Copy /\ ToSet(copies) = {copy} \cup ToSet(Tail(copies))
  BY <1>2, <1>3, ToSetTail
<1>5. path \in Path /\ copy.from \in DOMAIN content
  BY <1>2, <1>3, <1>4, CoerceIsPath DEF Destination, Copy, Copies
<1>6. Placed(path) = path /\ ~Taken(path)
  <2>1. {} # {"replace"} /\ {} # {"rename"}
    OBVIOUS
  <2> QED
    BY <1>1, <1>2, <2>1 DEF Copies, Renames, Placed
<1>7. Put(copy.from, path) = path /\ path \notin DOMAIN content
  BY <1>3, <1>5, <1>6, PutIsFile
<1>8. /\ DOMAIN content' = DOMAIN content \cup {path}
      /\ content'[path] = content[copy.from]
      /\ \A f \in DOMAIN content : content'[f] = content[f]
      /\ tree' = Unexcluded(tree, Last(path))
  BY <1>2, <1>6, <1>7 DEF Copies
<1>9. /\ DOMAIN tree' = DOMAIN tree
      /\ \A i \in DOMAIN tree :
            tree'[i].excluding = {p \in tree[i].excluding : Last(p) # Last(path)}
  BY <1>3, <1>8, UnexcludesDocument DEF Alongside
<1>10. \A d : Destination(d)' = Destination(d)
  BY DEF Destination
<1>11. CASE c = copy
  BY <1>2, <1>5, <1>7, <1>8, <1>9, <1>10, <1>11 DEF SourceMade
<1>12. CASE c \notin ToSet(copies)
  <2>1. SourceMade(c)
    BY <1>1, <1>12, OpenedSame DEF EditsInv, SourcesInv
  <2> QED
    BY <1>8, <1>9, <1>10, <2>1 DEF SourceMade
<1> QED
  BY <1>1, <1>4, <1>11, <1>12

\* The exclusions are no options.
LEMMA UnexcludedKeepsEdits ==
    ASSUME EditsInv, NEW name, tree' = Unexcluded(tree, name),
           UNCHANGED <<call, context, target, told, before, todo, pc>>, Opened' => Opened
    PROVE  tree' \in Seq(ConfigElement) /\ TreeInv' /\ DoneInv'
<1>1. PICK doc : doc = Unexcluded(tree, name)
  OBVIOUS
<1>2. tree \in Seq(ConfigElement) /\ TreeInv /\ DoneInv
  BY DEF EditsInv, Typed
<1>3. /\ doc \in Seq(ConfigElement) /\ Alongside(tree, doc)
      /\ \A i \in DOMAIN tree :
            doc[i].options = tree[i].options /\ (Scope(doc[i]) <=> Scope(tree[i]))
  BY <1>1, <1>2, UnexcludesDocument
<1>4. /\ tree' = doc /\ Requested' = Requested /\ Former' = Former /\ Left' = Left
      /\ (\A config : Scope(config)' <=> Scope(config))
  BY <1>1, RequestedSame DEF Former, Left, Scope
<1>5. Overruled' = Overruled
  BY DEF Overruled
<1>6. /\ \A old, new : ChangedAsAsked(old, new) => ChangedAsAsked(old, new)'
      /\ \A option, op : HasEdit(option, op) => HasEdit(option, op)'
  BY <1>4, <1>5 DEF ChangedAsAsked, HasEdit, Sets
<1>7. TreeInv'
  <2>1. SUFFICES ASSUME Opened' PROVE TreeInv'
    BY DEF TreeInv
  <2>2. /\ Alongside(Former, tree)
        /\ \A i \in DOMAIN Former :
              IF Scope(Former[i])
                THEN \A j \in DOMAIN Former[i].options :
                        ChangedAsAsked(Former[i].options[j], tree[i].options[j])
                ELSE tree[i].options = Former[i].options
    BY <1>2, <2>1 DEF TreeInv
  <2>3. Alongside(Former, doc)
    BY <1>3, <2>2 DEF Alongside
  <2>4. \A i \in DOMAIN Former : doc[i].options = tree[i].options
    BY <1>3, <2>2 DEF Alongside
  <2> QED
    BY <1>4, <1>6, <2>2, <2>3, <2>4 DEF TreeInv
<1>8. DoneInv'
  <2>1. \A i \in DOMAIN tree : \A ops : EditsMade(tree[i], ops) => EditsMade(doc[i], ops)'
    BY <1>3, <1>4, <1>6 DEF EditsMade
  <2>2. DOMAIN doc = DOMAIN tree
    BY <1>3 DEF Alongside
  <2> QED
    BY <1>2, <1>4, <2>1, <2>2 DEF DoneInv
<1> QED
  BY <1>3, <1>4, <1>7, <1>8

LEMMA AddSourceInv == ASSUME EditsInv, AddSource PROVE EditsInv'
<1> USE DEF world, history, resolved
<1>1. /\ pc = "edit" /\ todo = <<>> /\ copies # <<>> /\ Opened /\ Resolved /\ ~KwargsRaise(call)
      /\ UNCHANGED <<host, settings, told, before, call, context, target, built, todo, backup>>
      /\ Stored /\ copies \in Seq(Copy) /\ host \in Hosts
  BY DEF AddSource, EditsInv, ControlInv, Protected, Opened, Typed
<1>2. Head(copies) \in Copy /\ Tail(copies) \in Seq(Copy)
  BY <1>1, ToSetTail
<1>3. Opened' /\ Resolved' /\ MeantInv'
  <2>1. /\ \A p : Meant(p)' <=> Meant(p)
        /\ AllAsked' <=> AllAsked
    BY <1>1, MeantSame
  <2>2. Opened' <=> Opened
    BY <1>1, OpenedSame
  <2> QED
    BY <1>1, <2>1, <2>2 DEF EditsInv, MeantInv, Resolved
<1>4. CASE pc' \in {"rollback", "other_error"} /\ UNCHANGED <<copies, content, tree>>
  <2>1. EditsInv'
    BY <1>1, <1>4, EndsQuietly
  <2> QED
    BY <2>1
<1>5. ASSUME pc' = pc, copies' = Tail(copies)
      PROVE  ControlInv' /\ SettingsInv'
  <2>1. settings = before.settings /\ target.project \in DOMAIN settings
    BY <1>1 DEF EditsInv, SettingsInv, Opened
  <2> QED
    BY <1>1, <1>3, <1>5, <2>1 DEF ControlInv, SettingsInv, Early, Protected
<1>6. ASSUME pc' = pc, copies' = Tail(copies), tree' \in Seq(ConfigElement)
      PROVE  Typed'
  <2>1. Requested' = Requested
    BY <1>1, RequestedSame
  <2> QED
    BY <1>1, <1>2, <1>6, <2>1 DEF EditsInv, Typed, ContextTyped
<1>7. CASE /\ call.on_existing = {"skip"}
           /\ copies' = Tail(copies) /\ UNCHANGED <<pc, content, tree>>
  <2>1. TreeInv' /\ DoneInv'
    <3>1. Left \subseteq Left'
      BY <1>1, <1>7 DEF Left
    <3> QED
      BY <1>1, <1>3, <1>7, <3>1, TreeSame, DoneSame DEF EditsInv
  <2>2. SourcesInv'
    <3>1. {"skip"} # {}
      OBVIOUS
    <3> QED
      BY <1>1, <1>7, <3>1 DEF SourcesInv
  <2>3. Stored' /\ ContentInv' /\ Typed'
    BY <1>1, <1>6, <1>7 DEF EditsInv, Stored, ContentInv, Typed
  <2> QED
    BY <1>3, <1>5, <1>7, <2>1, <2>2, <2>3 DEF EditsInv
<1>8. CASE Copies(Head(copies))
  <2>1. PICK copy, path, name, place :
            /\ copy = Head(copies) /\ path = Destination(copy) /\ name = Last(Placed(path))
            /\ place = Put(copy.from, Placed(path))
    OBVIOUS
  <2>2. /\ Taken(path) => call.on_existing = {"replace"} \/ (Renames(path) /\ FreeNumbers(path) # {})
        /\ copy.from \in DOMAIN content
        /\ content' = [f \in DOMAIN content \cup {place} |-> content[IF f = place THEN copy.from ELSE f]]
        /\ tree' = Unexcluded(tree, name) /\ copies' = Tail(copies) /\ pc' = pc
    BY <1>8, <2>1 DEF Copies
  <2>3. path \in Path
    BY <1>1, <1>2, <2>1, CoerceIsPath DEF Destination, Copy, EditsInv, Typed
  <2>4. /\ Placed(path) \in Path
        /\ call.on_existing # {"replace"} => ~Taken(Placed(path))
    BY <2>2, <2>3, PlacedWhereFree
  <2>5. /\ place \in Path \ {<<>>}
        /\ call.on_existing # {"replace"} => place \notin DOMAIN content
    BY <1>1, <2>1, <2>2, <2>4, PutIsFile
  <2>6. /\ DOMAIN content' = DOMAIN content \cup {place}
        /\ \A f \in DOMAIN content : f # place => content'[f] = content[f]
    BY <2>2
  <2>7. Stored'
    <3>1. IsFiniteSet(DOMAIN content')
      BY <1>1, <2>6, FS_AddElement DEF Stored
    <3> QED
      BY <1>1, <2>5, <2>6, <3>1 DEF Stored
  <2>8. ContentInv'
    BY <1>1, <2>5, <2>6 DEF EditsInv, Stored, ContentInv
  <2>9. tree' \in Seq(ConfigElement) /\ TreeInv' /\ DoneInv'
    BY <1>1, <2>2, UnexcludedKeepsEdits
  <2>10. SourcesInv'
    BY <1>1, <1>8, SourcesAfterCopy
  <2> QED
    BY <1>3, <1>5, <1>6, <2>2, <2>7, <2>8, <2>9, <2>10 DEF EditsInv
<1> QED
  BY <1>4, <1>7, <1>8, AddSourceCases

-----------------------------------------------------------------------------
(* The call made again.                                                    *)

\* What Scope, Matched and OldValue are for any target.
InScope(tgt, config) == tgt.all \/ IsSuffix(tgt.configuration, config.name)
MatchedBy(tgt, configs, op) ==
    {i \in DOMAIN configs : InScope(tgt, configs[i]) /\ About(configs[i], op) # {}}
LastList(tgt, configs, op) ==
    LET last == configs[Max(MatchedBy(tgt, configs, op))]
    IN  IF MatchedBy(tgt, configs, op) = {} THEN <<>> ELSE last.options[Max(About(last, op))].list

Clashes(list, symbol) == {existing \in ToSet(list) : Conflicting(existing, symbol)}

SetThroughout(tgt, configs, op) ==
    \A i \in DOMAIN configs : InScope(tgt, configs[i]) =>
        \A j \in About(configs[i], op) : configs[i].options[j].value = op.value
HasThroughout(tgt, configs, op) ==
    \A i \in DOMAIN configs : InScope(tgt, configs[i]) =>
        \A j \in About(configs[i], op) : op.entry \in ToSet(configs[i].options[j].list)
HasNowhere(tgt, configs, op) ==
    \A i \in DOMAIN configs : InScope(tgt, configs[i]) =>
        \A j \in About(configs[i], op) : op.entry \notin ToSet(configs[i].options[j].list)

\* An edit that would change nothing if it were made again: the value or the entry is
\* there, and no symbol clashes with it; or one does and on_conflict says "skip", so
\* that the entry, which is in no list, would be dropped from all of them again.
Settled(tgt, configs, op) ==
    \/ Sets(op) /\ SetThroughout(tgt, configs, op)
    \/ /\ ~Sets(op) /\ HasThroughout(tgt, configs, op)
       /\ op.kind = "add_symbol" => Clashes(LastList(tgt, configs, op), op.entry) = {}
    \/ /\ op.kind = "add_symbol" /\ call.on_conflict = {"skip"} /\ HasNowhere(tgt, configs, op)
       /\ Clashes(LastList(tgt, configs, op), op.entry) # {}

\* A source that would change no document if it were added again.
SettledSource(tgt, configs, copy) ==
    LET path == Coerce(copy.to, tgt.project)
    IN  IF call.on_existing = {"skip"}
          THEN Taken(path)
          ELSE \A i \in DOMAIN configs : \A excluded \in configs[i].excluding : Last(excluded) # Last(path)

LEMMA ScopeOfTarget ==
    /\ \A config : Scope(config) <=> InScope(target, config)
    /\ \A configs, op : LastList(target, configs, op) = OldValue(configs, op)
BY DEF Scope, InScope, LastList, OldValue, Matched, MatchedBy

LEMMA MaxIsIn == ASSUME NEW n \in Nat, NEW S \in SUBSET (1..n), S # {} PROVE Max(S) \in S
<1> DEFINE T == {m \in 0..n : n - m \in S}
<1>1. T \subseteq Nat /\ T # {}
  <2>1. PICK x \in S : TRUE
    OBVIOUS
  <2>2. x \in 1..n /\ n - x \in 0..n /\ n - (n - x) = x
    OBVIOUS
  <2>3. n - x \in T
    BY <2>2
  <2>4. T \subseteq 0..n /\ 0..n \subseteq Nat
    OBVIOUS
  <2> HIDE DEF T
  <2> QED
    BY <2>3, <2>4
<1>2. PICK m \in T : \A y \in T : ~(<<y, m>> \in OpToRel(<, Nat))
  BY <1>1, NatLessThanWellFounded, WFMin
<1>3. m \in 0..n /\ n - m \in S /\ \A y \in T : ~(y < m)
  BY <1>1, <1>2 DEF OpToRel
<1>4. ASSUME NEW x \in S PROVE n - m >= x
  <2>1. x \in 1..n /\ n - x \in 0..n /\ n - (n - x) = x
    OBVIOUS
  <2>2. n - x \in T
    BY <2>1
  <2>3. ~(n - x < m)
    BY <1>3, <2>2
  <2> QED
    BY <1>3, <2>1, <2>3
<1>5. \E x \in S : \A y \in S : x >= y
  BY <1>3, <1>4
<1> QED
  BY <1>5 DEF Max

\* What Conflicts finds.
LEMMA ConflictsElements ==
    ASSUME NEW old \in Seq(Path), NEW symbol
    PROVE  /\ Conflicts(old, symbol) \in Seq(Path)
           /\ ToSet(Conflicts(old, symbol)) = Clashes(old, symbol)
           /\ Conflicts(old, symbol) = <<>> <=> Clashes(old, symbol) = {}
<1> DEFINE found == [i \in DOMAIN old |-> IF Conflicting(old[i], symbol) THEN <<old[i]>> ELSE <<>>]
<1>1. Len(old) \in Nat /\ DOMAIN old = 1..Len(old) /\ \A i \in 1..Len(old) : old[i] \in Path
  OBVIOUS
<1>2. found \in Seq(Seq(Path)) /\ Len(found) = Len(old)
  BY <1>1
<1>3. /\ FlattenSeq(found) \in Seq(Path)
      /\ ToSet(FlattenSeq(found)) = UNION {ToSet(found[i]) : i \in 1..Len(found)}
  BY <1>2, Flattened
<1>4. \A i \in 1..Len(old) : ToSet(found[i]) = {x \in {old[i]} : Conflicting(x, symbol)}
  BY <1>1 DEF ToSet
<1>5. UNION {ToSet(found[i]) : i \in 1..Len(found)} = Clashes(old, symbol)
  <2> HIDE DEF found
  <2>1. ToSet(old) = {old[i] : i \in 1..Len(old)}
    BY <1>1 DEF ToSet
  <2>2. \A x : x \in UNION {ToSet(found[i]) : i \in 1..Len(found)} <=>
               \E i \in 1..Len(old) : x = old[i] /\ Conflicting(x, symbol)
    BY <1>1, <1>2, <1>4
  <2> QED
    BY <2>1, <2>2 DEF Clashes
<1>6. Conflicts(old, symbol) \in Seq(Path) /\ ToSet(Conflicts(old, symbol)) = Clashes(old, symbol)
  BY <1>3, <1>5 DEF Conflicts
<1>7. \A s \in Seq(Path) : s = <<>> <=> ToSet(s) = {}
  <2>1. \A s \in Seq(Path) : s # <<>> => s[1] \in ToSet(s)
    BY DEF ToSet
  <2>2. ToSet(<<>>) = {}
    BY DEF ToSet
  <2> QED
    BY <2>1, <2>2
<1> QED
  BY <1>6, <1>7

\* The option matched last is the same in two documents alongside.
LEMMA LastListAlongside ==
    ASSUME NEW tgt, NEW configs \in Seq(ConfigElement), NEW others, Alongside(configs, others), NEW op
    PROVE  \/ LastList(tgt, configs, op) = <<>> /\ LastList(tgt, others, op) = <<>>
           \/ \E i \in DOMAIN configs : \E j \in About(configs[i], op) :
                 /\ InScope(tgt, configs[i])
                 /\ LastList(tgt, configs, op) = configs[i].options[j].list
                 /\ LastList(tgt, others, op) = others[i].options[j].list
<1>1. /\ DOMAIN others = DOMAIN configs
      /\ \A i \in DOMAIN configs :
            /\ InScope(tgt, others[i]) <=> InScope(tgt, configs[i])
            /\ About(others[i], op) = About(configs[i], op)
  BY DEF Alongside, InScope, About
<1>2. MatchedBy(tgt, others, op) = MatchedBy(tgt, configs, op)
  BY <1>1 DEF MatchedBy
<1> DEFINE matched == MatchedBy(tgt, configs, op)
           i == Max(matched)
           j == Max(About(configs[i], op))
<1>3. CASE matched = {}
  BY <1>2, <1>3 DEF LastList
<1>4. CASE matched # {}
  <2>1. i \in matched
    <3>1. matched \in SUBSET (1..Len(configs)) /\ Len(configs) \in Nat
      BY DocumentParts DEF MatchedBy
    <3> HIDE DEF matched
    <3> QED
      BY <1>4, <3>1, MaxIsIn
  <2>2. i \in DOMAIN configs /\ InScope(tgt, configs[i]) /\ About(configs[i], op) # {}
    BY <2>1 DEF MatchedBy
  <2>3. j \in About(configs[i], op)
    <3> HIDE DEF i
    <3>1. configs[i] \in ConfigElement
      BY <2>2, DocumentParts
    <3>2. About(configs[i], op) \in SUBSET (1..Len(configs[i].options)) /\ Len(configs[i].options) \in Nat
      BY <3>1, ConfigParts DEF About
    <3> QED
      BY <2>2, <3>2, MaxIsIn
  <2>4. /\ LastList(tgt, configs, op) = configs[i].options[j].list
        /\ LastList(tgt, others, op) = others[i].options[j].list
    BY <1>1, <1>2, <1>4, <2>2 DEF LastList
  <2> QED
    BY <2>2, <2>3, <2>4
<1> QED
  BY <1>3, <1>4

\* A change of an option that leaves alone what a settled edit is about.
KeepsSettled(old, new, op) ==
    op.class = old.class =>
        /\ Sets(op) /\ old.value = op.value => new.value = op.value
        /\ ~Sets(op) /\ op.entry \in ToSet(old.list) => op.entry \in ToSet(new.list)
        /\ op.kind = "add_symbol" =>
              \A x : Head(x) = Head(op.entry) => (x \in ToSet(new.list) <=> x \in ToSet(old.list))

LEMMA SettledKept ==
    ASSUME NEW tgt, NEW configs \in Seq(ConfigElement), NEW others, Alongside(configs, others), NEW op,
           \A i \in DOMAIN configs : InScope(tgt, configs[i]) =>
              \A j \in DOMAIN configs[i].options :
                 KeepsSettled(configs[i].options[j], others[i].options[j], op),
           Settled(tgt, configs, op)
    PROVE  Settled(tgt, others, op)
<1>1. /\ DOMAIN others = DOMAIN configs
      /\ \A i \in DOMAIN configs :
            /\ InScope(tgt, others[i]) <=> InScope(tgt, configs[i])
            /\ About(others[i], op) = About(configs[i], op)
  BY DEF Alongside, InScope, About
<1>2. ASSUME NEW i \in DOMAIN configs, InScope(tgt, configs[i]), NEW j \in About(configs[i], op)
      PROVE  LET old == configs[i].options[j]
                 new == others[i].options[j]
             IN  /\ Sets(op) /\ old.value = op.value => new.value = op.value
                 /\ ~Sets(op) /\ op.entry \in ToSet(old.list) => op.entry \in ToSet(new.list)
                 /\ op.kind = "add_symbol" =>
                       \A x : Head(x) = Head(op.entry) => (x \in ToSet(new.list) <=> x \in ToSet(old.list))
  BY <1>2 DEF KeepsSettled, About
<1>3. op.kind = "add_symbol" =>
          Clashes(LastList(tgt, others, op), op.entry) = Clashes(LastList(tgt, configs, op), op.entry)
  <2>1. SUFFICES ASSUME op.kind = "add_symbol"
                 PROVE  \A x : Conflicting(x, op.entry) =>
                           (x \in ToSet(LastList(tgt, others, op)) <=> x \in ToSet(LastList(tgt, configs, op)))
    BY DEF Clashes
  <2>2. CASE LastList(tgt, configs, op) = <<>> /\ LastList(tgt, others, op) = <<>>
    BY <2>2
  <2>3. CASE \E i \in DOMAIN configs : \E j \in About(configs[i], op) :
                /\ InScope(tgt, configs[i])
                /\ LastList(tgt, configs, op) = configs[i].options[j].list
                /\ LastList(tgt, others, op) = others[i].options[j].list
    <3>1. PICK i \in DOMAIN configs : \E j \in About(configs[i], op) :
                /\ InScope(tgt, configs[i])
                /\ LastList(tgt, configs, op) = configs[i].options[j].list
                /\ LastList(tgt, others, op) = others[i].options[j].list
      BY <2>3
    <3>2. PICK j \in About(configs[i], op) :
                /\ InScope(tgt, configs[i])
                /\ LastList(tgt, configs, op) = configs[i].options[j].list
                /\ LastList(tgt, others, op) = others[i].options[j].list
      BY <3>1
    <3> QED
      BY <1>2, <2>1, <3>2 DEF Conflicting
  <2> QED
    BY <2>2, <2>3, LastListAlongside
<1>4. Sets(op) /\ SetThroughout(tgt, configs, op) => SetThroughout(tgt, others, op)
  BY <1>1, <1>2 DEF SetThroughout
<1>5. ~Sets(op) /\ HasThroughout(tgt, configs, op) => HasThroughout(tgt, others, op)
  BY <1>1, <1>2 DEF HasThroughout
<1>6. op.kind = "add_symbol" /\ HasNowhere(tgt, configs, op) => HasNowhere(tgt, others, op)
  BY <1>1, <1>2 DEF HasNowhere
<1> QED
  BY <1>3, <1>4, <1>5, <1>6 DEF Settled

\* Two edits that do not undo each other: what the first does leaves the second settled.
Apart(edit, op) ==
    edit.class = op.class =>
        /\ Sets(edit) /\ Sets(op) => edit.value = op.value
        /\ edit.kind = "remove_list" => op.kind = "add_symbol"
        /\ op.kind = "add_symbol" => Head(edit.entry) # Head(op.entry)

LEMMA EditKeepsSettled ==
    ASSUME NEW edit, Possible(edit), NEW op, Apart(edit, op), NEW old \in OptionElement, NEW new,
           OptionEdited(old, new, edit)
    PROVE  KeepsSettled(old, new, op)
<1> SUFFICES ASSUME op.class = old.class
             PROVE  /\ Sets(op) /\ old.value = op.value => new.value = op.value
                    /\ ~Sets(op) /\ op.entry \in ToSet(old.list) => op.entry \in ToSet(new.list)
                    /\ op.kind = "add_symbol" =>
                          \A x : Head(x) = Head(op.entry) => (x \in ToSet(new.list) <=> x \in ToSet(old.list))
  BY DEF KeepsSettled
<1>1. /\ edit.class # old.class => new = old
      /\ edit.class = old.class =>
            /\ Sets(edit) => new.value = edit.value /\ ToSet(new.list) = ToSet(old.list)
            /\ Appends(edit) => new.value = old.value /\ ToSet(new.list) = ToSet(old.list) \cup {edit.entry}
            /\ edit.kind = "remove_list" =>
                  new.value = old.value /\ ToSet(new.list) = ToSet(old.list) \ {edit.entry}
      /\ Sets(edit) \/ Appends(edit) \/ edit.kind = "remove_list"
  BY ListOfEdited
<1>2. CASE edit.class # old.class
  BY <1>1, <1>2
<1>3. CASE edit.class = old.class
  <2>1. /\ Sets(edit) /\ Sets(op) => edit.value = op.value
        /\ edit.kind = "remove_list" => op.kind = "add_symbol"
        /\ op.kind = "add_symbol" => Head(edit.entry) # Head(op.entry)
    BY <1>3 DEF Apart
  <2>2. op.kind = "add_symbol" => ~Sets(op)
    BY DEF Sets
  <2>3. \A x : op.kind = "add_symbol" /\ Head(x) = Head(op.entry) => x # edit.entry
    BY <2>1
  <2> QED
    BY <1>1, <1>3, <2>1, <2>2, <2>3
<1> QED
  BY <1>2, <1>3

LEMMA EditedKeepsSettled ==
    ASSUME NEW configs \in Seq(ConfigElement), NEW edit, Possible(edit), NEW op, Apart(edit, op),
           Settled(target, configs, op)
    PROVE  Settled(target, Edited(configs, edit), op)
<1>1. PICK new : new = Edited(configs, edit)
  OBVIOUS
<1>2. /\ Alongside(configs, new)
      /\ \A i \in DOMAIN configs : Scope(configs[i]) =>
            \A j \in DOMAIN configs[i].options :
               OptionEdited(configs[i].options[j], new[i].options[j], edit)
  BY <1>1, EditsDocument
<1>3. ASSUME NEW i \in DOMAIN configs, InScope(target, configs[i]), NEW j \in DOMAIN configs[i].options
      PROVE  KeepsSettled(configs[i].options[j], new[i].options[j], op)
  <2>1. configs[i].options[j] \in OptionElement
    BY DocumentParts, ConfigParts
  <2>2. OptionEdited(configs[i].options[j], new[i].options[j], edit)
    BY <1>2, <1>3, ScopeOfTarget
  <2> QED
    BY <2>1, <2>2, EditKeepsSettled
<1>4. Settled(target, new, op)
  BY <1>2, <1>3, SettledKept
<1> QED
  BY <1>1, <1>4

\* Two symbols a call defines have different names.
LEMMA SymbolsDiffer ==
    ASSUME NEW ops, Wellformed(call, ops), DefinesOnce,
           NEW a \in ToSet(ops), NEW b \in ToSet(ops), a # b, a.kind = "add_symbol", b.kind = "add_symbol"
    PROVE  Head(a.entry) # Head(b.entry)
<1>1. /\ a.entry \in ToSet(call.symbols) /\ a = AddSymbol(a.entry)
      /\ b.entry \in ToSet(call.symbols) /\ b = AddSymbol(b.entry)
  BY DEF Wellformed
<1>2. PICK i, j \in DOMAIN call.symbols : a.entry = call.symbols[i] /\ b.entry = call.symbols[j]
  BY <1>1 DEF ToSet
<1>3. i # j
  BY <1>1, <1>2
<1> QED
  BY <1>2, <1>3 DEF DefinesOnce

\* An edit that changes no option changes no document.
LEMMA EditChangesNothing ==
    ASSUME NEW configs \in Seq(ConfigElement), NEW op,
           \A i \in DOMAIN configs : InScope(target, configs[i]) =>
              \A j \in DOMAIN configs[i].options :
                 EditedOption(configs[i].options[j], op) = configs[i].options[j]
    PROVE  Edited(configs, op) = configs
<1>1. ASSUME NEW i \in DOMAIN configs, Scope(configs[i])
      PROVE  EditedConfig(configs[i], op) = configs[i]
  <2>1. PICK config \in ConfigElement : config = configs[i]
    BY DocumentParts
  <2>2. \A j \in DOMAIN config.options : EditedOption(config.options[j], op) = config.options[j]
    BY <1>1, <2>1, ScopeOfTarget
  <2>3. [j \in DOMAIN config.options |-> EditedOption(config.options[j], op)] = config.options
    BY <2>2, ConfigParts
  <2>4. EditedConfig(config, op) = [config EXCEPT !.options = config.options]
    BY <2>3 DEF EditedConfig
  <2>5. [config EXCEPT !.options = config.options] = config
    BY ConfigParts
  <2> QED
    BY <2>1, <2>4, <2>5
<1>2. Edited(configs, op) = [i \in DOMAIN configs |-> configs[i]]
  BY <1>1 DEF Edited
<1> QED
  BY <1>2

\* Two edits of which the second undoes the first.
LEMMA EditUndone ==
    ASSUME NEW configs \in Seq(ConfigElement), NEW op, Possible(op), NEW back, Possible(back),
           \A i \in DOMAIN configs : InScope(target, configs[i]) =>
              \A j \in DOMAIN configs[i].options :
                 EditedOption(EditedOption(configs[i].options[j], op), back) = configs[i].options[j]
    PROVE  Edited(Edited(configs, op), back) = configs
<1>1. PICK new : new = Edited(configs, op)
  OBVIOUS
<1>2. /\ new \in Seq(ConfigElement) /\ DOMAIN new = DOMAIN configs
      /\ \A i \in DOMAIN configs :
            /\ Scope(new[i]) <=> Scope(configs[i])
            /\ ~Scope(configs[i]) => new[i] = configs[i]
            /\ Scope(configs[i]) => new[i] = EditedConfig(configs[i], op)
  BY <1>1, EditsDocument DEF Alongside
<1>3. ASSUME NEW i \in DOMAIN configs, Scope(configs[i])
      PROVE  EditedConfig(new[i], back) = configs[i]
  <2>1. PICK config \in ConfigElement : config = configs[i]
    BY DocumentParts
  <2>2. \A j \in DOMAIN config.options :
            EditedOption(EditedOption(config.options[j], op), back) = config.options[j]
    BY <1>3, <2>1, ScopeOfTarget
  <2>3. PICK middle : middle = EditedConfig(config, op)
    OBVIOUS
  <2>4. /\ middle \in ConfigElement /\ middle.name = config.name /\ middle.excluding = config.excluding
        /\ DOMAIN middle.options = DOMAIN config.options
        /\ \A j \in DOMAIN config.options : middle.options[j] = EditedOption(config.options[j], op)
    BY <2>3, EditsConfig
  <2>5. PICK last : last = EditedConfig(middle, back)
    OBVIOUS
  <2>6. /\ last \in ConfigElement /\ last.name = config.name /\ last.excluding = config.excluding
        /\ DOMAIN last.options = DOMAIN config.options
        /\ \A j \in DOMAIN config.options : last.options[j] = config.options[j]
    BY <2>2, <2>4, <2>5, EditsConfig
  <2>7. last.options = config.options
    BY <2>6, ConfigParts
  <2>8. last = config
    BY <2>6, <2>7, ConfigParts
  <2> QED
    BY <1>2, <1>3, <2>1, <2>3, <2>5, <2>8
<1>4. ASSUME NEW i \in DOMAIN configs
      PROVE  (IF Scope(new[i]) THEN EditedConfig(new[i], back) ELSE new[i]) = configs[i]
  BY <1>2, <1>3
<1>5. Edited(new, back) = [i \in DOMAIN new |-> IF Scope(new[i]) THEN EditedConfig(new[i], back) ELSE new[i]]
  BY DEF Edited
<1>6. Edited(new, back) = [i \in DOMAIN configs |-> configs[i]]
  BY <1>2, <1>4, <1>5
<1> QED
  BY <1>1, <1>6

\* An option in which an edit has been made.
LEMMA OptionSettled ==
    ASSUME NEW option \in OptionElement, NEW op, Possible(op), op.kind # "remove_list",
           op.class = option.class => IF Sets(op) THEN option.value = op.value
                                                  ELSE op.entry \in ToSet(option.list)
    PROVE  EditedOption(option, op) = option
<1>1. PICK new : new = EditedOption(option, op)
  OBVIOUS
<1>2. OptionEdited(option, new, op)
  BY <1>1, EditsOption
<1>3. CASE op.class # option.class
  BY <1>1, <1>2, <1>3 DEF OptionEdited
<1>4. CASE op.class = option.class /\ Sets(op)
  <2>1. new.class = option.class /\ new.value = option.value /\ new.list = option.list
        /\ new \in OptionElement
    BY <1>2, <1>4 DEF OptionEdited
  <2> QED
    BY <1>1, <2>1 DEF OptionElement
<1>5. CASE op.class = option.class /\ ~Sets(op)
  <2>1. Appends(op) /\ op.entry \in Path /\ option.list \in Seq(Path)
    BY <1>5 DEF Possible, Kinds, Sets, Appends, OptionElement
  <2>2. Appended(option.list, op.entry) = option.list
    BY <1>5, <2>1, AppendedElements
  <2>3. new.class = option.class /\ new.value = option.value /\ new.list = option.list
        /\ new \in OptionElement
    BY <1>2, <1>5, <2>1, <2>2 DEF OptionEdited
  <2> QED
    BY <1>1, <2>3 DEF OptionElement
<1> QED
  BY <1>3, <1>4, <1>5

\* An entry appended and removed, or just removed, if it is not there.
LEMMA OptionUndone ==
    ASSUME NEW option \in OptionElement, NEW op, Possible(op), Appends(op), NEW back, Possible(back),
           back.kind = "remove_list", back.class = op.class, back.entry = op.entry,
           op.class = option.class => op.entry \notin ToSet(option.list)
    PROVE  /\ EditedOption(EditedOption(option, op), back) = option
           /\ EditedOption(option, back) = option
<1>1. PICK middle, last, other : /\ middle = EditedOption(option, op) /\ last = EditedOption(middle, back)
                                 /\ other = EditedOption(option, back)
  OBVIOUS
<1>2. OptionEdited(option, middle, op) /\ OptionEdited(option, other, back)
  BY <1>1, EditsOption
<1>3. middle \in OptionElement /\ OptionEdited(middle, last, back)
  BY <1>1, <1>2, EditsOption DEF OptionEdited
<1>4. CASE op.class # option.class
  BY <1>1, <1>2, <1>3, <1>4 DEF OptionEdited
<1>5. CASE op.class = option.class
  <2>1. op.entry \in Path /\ option.list \in Seq(Path) /\ op.entry \notin ToSet(option.list)
    BY <1>5 DEF Possible, OptionElement
  <2>2. PICK list, entry : list = option.list /\ entry = op.entry
    OBVIOUS
  <2>3. \A i \in DOMAIN list : list[i] # entry
    BY <2>1, <2>2 DEF ToSet
  <2>4. /\ list \in Seq(Path) /\ entry \in Path /\ Len(list) \in Nat /\ DOMAIN list = 1..Len(list)
        /\ Append(list, entry) \in Seq(Path) /\ Len(Append(list, entry)) = Len(list) + 1
    BY <2>1, <2>2
  <2>5. Removed(list, entry) = list
    <3>1. Removed(list, entry) = SubSeq(list, 1, Len(list))
      BY <2>3, <2>4, RemovedFromEnd
    <3> QED
      BY <2>4, <3>1
  <2>6. Removed(Append(list, entry), entry) = list
    <3>1. /\ \A i \in 1..Len(list) : Append(list, entry)[i] # entry
          /\ \A i \in Len(list) + 1..Len(Append(list, entry)) : Append(list, entry)[i] = entry
          /\ Len(list) \in 0..Len(Append(list, entry))
      BY <2>3, <2>4
    <3>2. Removed(Append(list, entry), entry) = SubSeq(Append(list, entry), 1, Len(list))
      BY <2>4, <3>1, RemovedFromEnd
    <3> QED
      BY <2>4, <3>2
  <2>7. Appended(list, entry) = Append(list, entry)
    BY <2>1, <2>2, AppendedElements
  <2>8. middle.value = option.value /\ middle.list = Append(list, entry) /\ middle.class = option.class
    BY <1>2, <1>5, <2>2, <2>7 DEF OptionEdited
  <2>9. last.value = option.value /\ last.list = list /\ last.class = option.class /\ last \in OptionElement
    BY <1>3, <1>5, <2>2, <2>6, <2>8 DEF OptionEdited
  <2>10. other.value = option.value /\ other.list = list /\ other.class = option.class /\ other \in OptionElement
    BY <1>2, <1>5, <2>2, <2>5 DEF OptionEdited
  <2> QED
    BY <1>1, <2>2, <2>9, <2>10 DEF OptionElement
<1> QED
  BY <1>4, <1>5

\* A settled edit changes nothing, or what it does is undone.
LEMMA SettledChangesNothing ==
    ASSUME NEW configs \in Seq(ConfigElement), NEW op, Possible(op), op.kind # "remove_list",
           \/ Sets(op) /\ SetThroughout(target, configs, op)
           \/ ~Sets(op) /\ HasThroughout(target, configs, op)
    PROVE  Edited(configs, op) = configs
<1>1. ASSUME NEW i \in DOMAIN configs, InScope(target, configs[i]), NEW j \in DOMAIN configs[i].options
      PROVE  EditedOption(configs[i].options[j], op) = configs[i].options[j]
  <2>1. configs[i].options[j] \in OptionElement
    BY DocumentParts, ConfigParts
  <2>2. op.class = configs[i].options[j].class =>
            IF Sets(op) THEN configs[i].options[j].value = op.value
                        ELSE op.entry \in ToSet(configs[i].options[j].list)
    BY <1>1 DEF SetThroughout, HasThroughout, About
  <2> QED
    BY <2>1, <2>2, OptionSettled
<1> QED
  BY <1>1, EditChangesNothing

LEMMA SymbolUndone ==
    ASSUME NEW configs \in Seq(ConfigElement), NEW op, Possible(op), op.kind = "add_symbol", op.class = Symbols,
           HasNowhere(target, configs, op)
    PROVE  /\ Edited(Edited(configs, op), RemoveFrom(Symbols, op.entry)) = configs
           /\ Edited(configs, RemoveFrom(Symbols, op.entry)) = configs
<1> DEFINE back == RemoveFrom(Symbols, op.entry)
<1>1. /\ Possible(back) /\ back.kind = "remove_list" /\ back.class = op.class /\ back.entry = op.entry
      /\ Appends(op)
  <2>1. "" \in Text
    BY TextAssumption DEF Literals
  <2> QED
    BY <2>1 DEF RemoveFrom, Edit, Possible, Kinds, Appends
<1> HIDE DEF back
<1>2. ASSUME NEW i \in DOMAIN configs, InScope(target, configs[i]), NEW j \in DOMAIN configs[i].options
      PROVE  /\ EditedOption(EditedOption(configs[i].options[j], op), back) = configs[i].options[j]
             /\ EditedOption(configs[i].options[j], back) = configs[i].options[j]
  <2>1. configs[i].options[j] \in OptionElement
    BY DocumentParts, ConfigParts
  <2>2. op.class = configs[i].options[j].class => op.entry \notin ToSet(configs[i].options[j].list)
    BY <1>2 DEF HasNowhere, About
  <2> QED
    BY <1>1, <2>1, <2>2, OptionUndone
<1>3. Edited(Edited(configs, op), back) = configs
  BY <1>1, <1>2, EditUndone
<1>4. Edited(configs, back) = configs
  BY <1>2, EditChangesNothing
<1> QED
  BY <1>3, <1>4 DEF back

LEMMA NothingToUnexclude ==
    ASSUME NEW configs \in Seq(ConfigElement), NEW name,
           \A i \in DOMAIN configs : \A path \in configs[i].excluding : Last(path) # name
    PROVE  Unexcluded(configs, name) = configs
<1>1. PICK new : new = Unexcluded(configs, name)
  OBVIOUS
<1>2. /\ new = [i \in DOMAIN configs |->
                   [configs[i] EXCEPT !.excluding = {path \in configs[i].excluding : Last(path) # name}]]
  BY <1>1 DEF Unexcluded
<1>3. ASSUME NEW i \in DOMAIN configs
      PROVE  [configs[i] EXCEPT !.excluding = {path \in configs[i].excluding : Last(path) # name}] = configs[i]
  <2>1. PICK config \in ConfigElement : config = configs[i]
    BY DocumentParts
  <2>2. {path \in config.excluding : Last(path) # name} = config.excluding
    BY <2>1
  <2>3. [config EXCEPT !.excluding = config.excluding] = config
    BY ConfigParts
  <2> QED
    BY <2>1, <2>2, <2>3
<1>4. new = [i \in DOMAIN configs |-> configs[i]]
  BY <1>2, <1>3
<1> QED
  BY <1>1, <1>4

\* What a second call can rely on.  What it asks for is asked for until it is over.
AskedInv ==
    /\ pc = "snapshot" \/ Opened => EditsRequested(call)
    /\ ToSet(copies) \subseteq ToSet(call.sources)

\* The edits made are settled, each but the one on_conflict is asked about.
SettledInv == DefinesOnce /\ Opened => \A op \in Requested \ ToSet(todo) : Settled(target, tree, op)

\* With "replace" the clashes are all asked about; with "skip" they stay.
Deciding(op) ==
    LET clashes == Clashes(LastList(target, tree, op), op.entry)
    IN  /\ op.kind = "add_symbol"
        /\ asking \in Seq(Path) \ {<<>>} /\ \A existing \in ToSet(asking) : Conflicting(existing, op.entry)
        /\ call.on_conflict = {"replace"} => HasThroughout(target, tree, op) /\ clashes \subseteq ToSet(asking)
        /\ call.on_conflict = {"skip"} => clashes # {}
DecidingInv == pc = "decide" => Deciding(Head(todo))

AddedInv == Opened /\ call.on_existing # {"rename"} =>
    \A copy \in ToSet(call.sources) \ ToSet(copies) : SettledSource(target, tree, copy)

\* What the previous call resolved to has, in what it left behind, nothing to edit; and
\* if the call resolves to it again, its document is the one that was left behind.
Repeatable == DefinesOnce /\ call.on_existing # {"rename"}
EarlierSettled(e) ==
    LET configs == before.settings[e.target.project].configs
    IN  /\ \A op \in ToSet(Ops(call, e.context)) : Settled(e.target, configs, op)
        /\ \A copy \in ToSet(call.sources) : SettledSource(e.target, configs, copy)
EarlierInv == Repeatable /\ EditsRequested(call) => \A e \in earlier : EarlierSettled(e)

Editing == {"edit", "writing", "build", "result"}
SameInv == Opened /\ Repeatable /\ [context |-> context, target |-> target] \in earlier =>
    /\ pc \in Editing => tree = Former
    /\ pc = "decide" =>
          /\ call.on_conflict = {"skip"} /\ HasNowhere(target, Former, Head(todo))
          /\ tree \in {Former, Edited(Former, Head(todo))}

RepeatInv == AskedInv /\ SettledInv /\ DecidingInv /\ AddedInv /\ EarlierInv /\ SameInv

LEMMA SettledSame ==
    ASSUME UNCHANGED call
    PROVE  /\ \A tgt, configs, op : Settled(tgt, configs, op)' <=> Settled(tgt, configs, op)
           /\ Repeatable' <=> Repeatable
           /\ DefinesOnce' <=> DefinesOnce
<1>1. DefinesOnce' <=> DefinesOnce
  BY DEF DefinesOnce
<1>2. Repeatable' <=> Repeatable
  BY <1>1 DEF Repeatable
<1>3. \A tgt, configs, op : Settled(tgt, configs, op)' <=> Settled(tgt, configs, op)
  BY DEF Settled
<1> QED
  BY <1>1, <1>2, <1>3

\* A path that is taken stays so.
LEMMA TakenSame ==
    ASSUME host \in Hosts, UNCHANGED host, DOMAIN content \subseteq DOMAIN content'
    PROVE  \A path : Taken(path) => Taken(path)'
<1>1. Host.files = DOMAIN content /\ (Host.files = DOMAIN content)'
  BY HostsAssumption DEF Host
<1> QED
  BY <1>1 DEF Taken, Exists

LEMMA SourceSettledSame ==
    ASSUME host \in Hosts, UNCHANGED <<host, call>>, DOMAIN content \subseteq DOMAIN content'
    PROVE  \A tgt, configs, copy : SettledSource(tgt, configs, copy) => SettledSource(tgt, configs, copy)'
BY TakenSame DEF SettledSource

LEMMA EarlierSame ==
    ASSUME host \in Hosts, EarlierInv, UNCHANGED <<host, call, before, earlier>>, DOMAIN content \subseteq DOMAIN content'
    PROVE  EarlierInv'
<1>1. \A e : EarlierSettled(e) => EarlierSettled(e)'
  BY SettledSame, SourceSettledSame DEF EarlierSettled
<1> QED
  BY <1>1, SettledSame DEF EarlierInv

\* A step that leaves the editor, and what it edits, alone.
Still ==
    /\ UNCHANGED <<host, call, context, target, tree, todo, asking, copies, backup, content>>
    /\ UNCHANGED <<before, earlier>> /\ DOMAIN settings' = DOMAIN settings
    /\ pc' \in Editing => pc \in Editing
    /\ \A where \in {"decide", "snapshot"} : pc' = where => pc = where

LEMMA StillStep == ASSUME host \in Hosts, RepeatInv, Still PROVE RepeatInv'
<1>1. (Opened' <=> Opened) /\ Requested' = Requested /\ Former' = Former
  BY OpenedSame, RequestedSame DEF Still, Former
<1>2. /\ \A tgt, configs, op : Settled(tgt, configs, op)' <=> Settled(tgt, configs, op)
      /\ \A tgt, configs, copy : SettledSource(tgt, configs, copy) => SettledSource(tgt, configs, copy)'
      /\ (Repeatable' <=> Repeatable) /\ (DefinesOnce' <=> DefinesOnce)
  BY SettledSame, SourceSettledSame DEF Still
<1>3. AskedInv' /\ SettledInv' /\ AddedInv'
  BY <1>1, <1>2 DEF RepeatInv, Still, AskedInv, SettledInv, AddedInv
<1>4. DecidingInv'
  <2>1. \A op : Deciding(op) => Deciding(op)'
    BY DEF Deciding, Still
  <2> QED
    BY <2>1 DEF RepeatInv, Still, DecidingInv
<1>5. EarlierInv'
  BY EarlierSame DEF RepeatInv, Still
<1>6. SameInv'
  <2>1. \A configs, op : Edited(configs, op)' = Edited(configs, op)
    BY DEF Edited, Scope, Still
  <2> QED
    BY <1>1, <1>2, <2>1 DEF RepeatInv, Still, SameInv
<1> QED
  BY <1>3, <1>4, <1>5, <1>6 DEF RepeatInv

LEMMA RepeatInit == EditsInit => RepeatInv
<1> SUFFICES ASSUME EditsInit PROVE RepeatInv
  OBVIOUS
<1>1. pc = "load" /\ ~Opened /\ ToSet(copies) = {} /\ earlier = {}
  BY DEF EditsInit, Opened, Resolved, NoTarget, ToSet
<1> QED
  BY <1>1 DEF RepeatInv, AskedInv, SettledInv, DecidingInv, AddedInv, EarlierInv, SameInv

\* A step after which there is no backup.
LEMMA UnopenedRepeats ==
    ASSUME host \in Hosts, RepeatInv, ~Opened', pc' # "decide", UNCHANGED <<host, call, copies, content, before, earlier>>,
           pc' = "snapshot" => EditsRequested(call)
    PROVE  RepeatInv'
<1>1. EarlierInv'
  BY EarlierSame DEF RepeatInv
<1>2. AskedInv'
  BY DEF RepeatInv, AskedInv
<1> QED
  BY <1>1, <1>2 DEF RepeatInv, SettledInv, DecidingInv, AddedInv, SameInv

LEMMA LoadRepeats == ASSUME EditsInv, RepeatInv, Load PROVE RepeatInv'
<1>1. /\ pc = "load" /\ pc' \in {"substrate_error", "resolve"}
      /\ UNCHANGED <<host, call, copies, content, before, earlier, target>>
  BY DEF Load, Goto, world, history, editor
<1>2. host \in Hosts /\ target = NoTarget
  BY <1>1 DEF EditsInv, Typed, ControlInv
<1>3. ~Opened'
  BY <1>1, <1>2 DEF Opened, Resolved, NoTarget
<1> QED
  BY <1>1, <1>2, <1>3, UnopenedRepeats

LEMMA ResolveRepeats == ASSUME EditsInv, RepeatInv, Resolve PROVE RepeatInv'
<1>1. /\ pc = "resolve"
      /\ \/ pc' \in {"substrate_error", "other_error", "build"}
         \/ pc' = "snapshot" /\ EditsRequested(call)
      /\ UNCHANGED <<host, call, copies, content, before, earlier, backup>>
  BY DEF Resolve, Goto, world, history, editor
<1>2. host \in Hosts /\ backup = {}
  BY <1>1 DEF EditsInv, Typed, ControlInv, Early
<1>3. ~Opened'
  BY <1>1, <1>2 DEF Opened
<1> QED
  BY <1>1, <1>2, <1>3, UnopenedRepeats

LEMMA SnapshotRepeats == ASSUME EditsInv, RepeatInv, Snapshot PROVE RepeatInv'
<1> USE DEF world, history, resolved
<1>1. /\ pc = "snapshot" /\ EditsRequested(call) /\ host \in Hosts
      /\ UNCHANGED <<host, content, settings, before, earlier, call, context, target>>
  BY DEF Snapshot, RepeatInv, AskedInv, EditsInv, Typed
<1>2. backup = {} /\ settings = before.settings
  BY <1>1 DEF EditsInv, ControlInv, SettingsInv, Early
<1>3. CASE /\ pc' \in {"substrate_error", "other_error"} /\ UNCHANGED copies
           /\ backup' = backup \/ settings[target.project].state # "whole"
  <2>1. ~Opened'
    BY <1>1, <1>2, <1>3 DEF Opened
  <2> QED
    BY <1>1, <1>3, <2>1, UnopenedRepeats
<1>4. CASE /\ tree' = settings[target.project].configs /\ todo' = Ops(call, context)
           /\ copies' = call.sources /\ pc' = "edit"
  <2>1. EarlierInv' /\ AskedInv' /\ DecidingInv'
    <3>1. EarlierInv'
      BY <1>1, EarlierSame DEF RepeatInv
    <3> QED
      BY <1>1, <1>4, <3>1 DEF AskedInv, DecidingInv
  <2>2. SettledInv' /\ AddedInv'
    <3>1. Requested' = ToSet(todo') /\ ToSet(call.sources)' = ToSet(copies')
      BY <1>1, <1>4 DEF Requested
    <3> QED
      BY <3>1 DEF SettledInv, AddedInv
  <2>3. SameInv'
    <3>1. tree' = Former'
      BY <1>1, <1>2, <1>4 DEF Former
    <3> QED
      BY <1>4, <3>1 DEF SameInv
  <2> QED
    BY <2>1, <2>2, <2>3 DEF RepeatInv
<1>5. \/ pc' \in {"substrate_error", "other_error"} /\ UNCHANGED copies /\ backup' = backup
      \/ IF settings[target.project].state # "whole"
           THEN pc' = "substrate_error" /\ UNCHANGED copies
           ELSE /\ tree' = settings[target.project].configs
                /\ todo' = Ops(call, context) /\ copies' = call.sources /\ pc' = "edit"
  BY DEF Snapshot, Goto, editor
<1> QED
  BY <1>3, <1>4, <1>5

\* A call that succeeds has saved what it settled.
LEMMA ResultSettled ==
    ASSUME EditsInv, RepeatInv, pc = "result", Repeatable, EditsRequested(call)
    PROVE  LET configs == settings[target.project].configs
           IN  /\ \A op \in ToSet(Ops(call, context)) : Settled(target, configs, op)
               /\ \A copy \in ToSet(call.sources) : SettledSource(target, configs, copy)
<1>1. Opened /\ settings[target.project].configs = tree /\ todo = <<>> /\ copies = <<>>
  BY DEF EditsInv, SettingsInv, Saved, Whole
<1>2. ToSet(todo) = {} /\ ToSet(copies) = {}
  BY <1>1 DEF ToSet
<1> QED
  BY <1>1, <1>2 DEF RepeatInv, SettledInv, AddedInv, Repeatable, Requested

LEMMA AgainRepeats == ASSUME EditsInv, RepeatInv, Again PROVE RepeatInv'
<1>1. /\ pc \in Ended /\ pc' = "load" /\ host \in Hosts
      /\ UNCHANGED <<host, call, content, settings>> /\ before'.settings = settings
      /\ earlier' = IF pc = "result" THEN {[context |-> context, target |-> target]} ELSE {}
      /\ target' = NoTarget /\ copies' = <<>>
  BY DEF Again, Goto, world, EditsInv, Typed
<1>2. ~Opened'
  BY <1>1 DEF Opened, Resolved, NoTarget
<1>3. AskedInv' /\ SettledInv' /\ DecidingInv' /\ AddedInv' /\ SameInv'
  <2>1. ToSet(copies') = {}
    BY <1>1 DEF ToSet
  <2> QED
    BY <1>1, <1>2, <2>1 DEF AskedInv, SettledInv, DecidingInv, AddedInv, SameInv
<1>4. EarlierInv'
  <2>1. SUFFICES ASSUME pc = "result", Repeatable, EditsRequested(call), NEW e \in earlier'
                 PROVE  EarlierSettled(e)'
    BY <1>1, SettledSame DEF EarlierInv
  <2>2. PICK configs : configs = settings[target.project].configs
    OBVIOUS
  <2>3. /\ \A op \in ToSet(Ops(call, context)) : Settled(target, configs, op)
        /\ \A copy \in ToSet(call.sources) : SettledSource(target, configs, copy)
    BY <2>1, <2>2, ResultSettled
  <2>4. e.context = context /\ e.target = target /\ before'.settings[e.target.project].configs = configs
    BY <1>1, <2>1, <2>2
  <2> QED
    BY <1>1, <2>3, <2>4, SettledSame, SourceSettledSame DEF EarlierSettled
<1> QED
  BY <1>3, <1>4 DEF RepeatInv

\* The steps that leave the editor alone.
LEMMA StillSteps ==
    ASSUME EditsInv, RepeatInv,
           Write \/ Written \/ Rollback \/ Restored \/ Build \/ Interrupt \/ UNCHANGED vars
    PROVE  RepeatInv'
<1>1. /\ UNCHANGED <<host, call, context, target, tree, todo, asking, copies, backup, content, before, earlier>>
      /\ \/ UNCHANGED settings
         \/ \E p, doc : settings' = [settings EXCEPT ![p] = doc]
  BY DEF Write, Written, Rollback, Restored, Build, Interrupt, Saves, vars, world, history, editor, resolved
<1>2. \/ pc' = pc
      \/ pc = "edit" /\ pc' = "writing"
      \/ pc = "writing" /\ pc' = "build"
      \/ pc = "build" /\ pc' = "result"
      \/ pc' \in {"rollback", "unrestored", "restoring", "substrate_error", "other_error", "unread", "interrupted"}
  BY DEF Write, Written, Rollback, Restored, Build, Interrupt, Failed, Goto, vars
<1>3. DOMAIN settings' = DOMAIN settings
  BY <1>1
<1>4. Still
  BY <1>1, <1>2, <1>3 DEF Still, Editing
<1> QED
  BY <1>4, StillStep DEF EditsInv, Typed

LEMMA LastListIsList ==
    ASSUME NEW configs \in Seq(ConfigElement), NEW op
    PROVE  LastList(target, configs, op) \in Seq(Path)
<1>1. Alongside(configs, configs)
  BY DEF Alongside
<1>2. <<>> \in Seq(Path)
  OBVIOUS
<1>3. ASSUME NEW i \in DOMAIN configs, NEW j \in About(configs[i], op)
      PROVE  configs[i].options[j].list \in Seq(Path)
  <2>1. configs[i].options[j] \in OptionElement
    BY DocumentParts, ConfigParts DEF About
  <2> QED
    BY <2>1 DEF OptionElement
<1>4. \/ LastList(target, configs, op) = <<>>
      \/ \E i \in DOMAIN configs : \E j \in About(configs[i], op) :
            LastList(target, configs, op) = configs[i].options[j].list
  <2>1. \/ LastList(target, configs, op) = <<>> /\ LastList(target, configs, op) = <<>>
        \/ \E i \in DOMAIN configs : \E j \in About(configs[i], op) :
              /\ InScope(target, configs[i])
              /\ LastList(target, configs, op) = configs[i].options[j].list
              /\ LastList(target, configs, op) = configs[i].options[j].list
    BY <1>1, LastListAlongside
  <2> QED
    BY <2>1
<1> QED
  BY <1>2, <1>3, <1>4

\* Some clashes are dropped from each list an edit is about.
DropsClashes(configs, others, op, dropped) ==
    \A i \in DOMAIN configs : InScope(target, configs[i]) => \A j \in About(configs[i], op) :
        Clashes(others[i].options[j].list, op.entry) =
            Clashes(configs[i].options[j].list, op.entry) \ dropped

LEMMA ClashesAlongside ==
    ASSUME NEW configs \in Seq(ConfigElement), NEW others, Alongside(configs, others), NEW op, NEW dropped,
           DropsClashes(configs, others, op, dropped)
    PROVE  \A x : x \in Clashes(LastList(target, others, op), op.entry) <=>
                    x \in Clashes(LastList(target, configs, op), op.entry) /\ x \notin dropped
<1>1. Clashes(<<>>, op.entry) = {}
  BY DEF Clashes, ToSet
<1>2. \/ LastList(target, configs, op) = <<>> /\ LastList(target, others, op) = <<>>
      \/ \E i \in DOMAIN configs : \E j \in About(configs[i], op) :
            /\ InScope(target, configs[i])
            /\ LastList(target, configs, op) = configs[i].options[j].list
            /\ LastList(target, others, op) = others[i].options[j].list
  BY LastListAlongside, SMTT(30)
<1>3. CASE LastList(target, configs, op) = <<>> /\ LastList(target, others, op) = <<>>
  BY <1>1, <1>3
<1>4. CASE \E i \in DOMAIN configs : \E j \in About(configs[i], op) :
              /\ InScope(target, configs[i])
              /\ LastList(target, configs, op) = configs[i].options[j].list
              /\ LastList(target, others, op) = others[i].options[j].list
  <2>1. PICK i \in DOMAIN configs : \E j \in About(configs[i], op) :
              /\ InScope(target, configs[i])
              /\ LastList(target, configs, op) = configs[i].options[j].list
              /\ LastList(target, others, op) = others[i].options[j].list
    BY <1>4
  <2>2. PICK j \in About(configs[i], op) :
              /\ InScope(target, configs[i])
              /\ LastList(target, configs, op) = configs[i].options[j].list
              /\ LastList(target, others, op) = others[i].options[j].list
    BY <2>1
  <2> QED
    BY <2>2 DEF DropsClashes
<1> QED
  BY <1>2, <1>3, <1>4

LEMMA SameClashes ==
    ASSUME NEW configs \in Seq(ConfigElement), NEW others, Alongside(configs, others), NEW op,
           DropsClashes(configs, others, op, {})
    PROVE  Clashes(LastList(target, others, op), op.entry) = Clashes(LastList(target, configs, op), op.entry)
<1>1. \A x : x \in Clashes(LastList(target, others, op), op.entry) <=>
               x \in Clashes(LastList(target, configs, op), op.entry) /\ x \notin {}
  BY ClashesAlongside, SMTT(30)
<1> QED
  BY <1>1

\* What a document has of an edit that was just made.
LEMMA EditSettles ==
    ASSUME NEW configs \in Seq(ConfigElement), NEW op, Possible(op), op.kind # "remove_list"
    PROVE  LET new == Edited(configs, op)
           IN  /\ Sets(op) => SetThroughout(target, new, op)
               /\ ~Sets(op) => HasThroughout(target, new, op)
               /\ op.kind = "add_symbol" =>
                     Clashes(LastList(target, new, op), op.entry) =
                         Clashes(LastList(target, configs, op), op.entry)
<1>1. PICK new : new = Edited(configs, op)
  OBVIOUS
<1>2. Alongside(configs, new)
  BY <1>1, EditsDocument
<1>3. /\ DOMAIN new = DOMAIN configs
      /\ \A i \in DOMAIN configs : /\ InScope(target, new[i]) <=> InScope(target, configs[i])
                                   /\ About(new[i], op) = About(configs[i], op)
  BY <1>2 DEF Alongside, InScope, About
<1>4. ASSUME NEW i \in DOMAIN configs, InScope(target, configs[i]), NEW j \in About(configs[i], op)
      PROVE  /\ Sets(op) => new[i].options[j].value = op.value
             /\ ~Sets(op) => /\ op.entry \in ToSet(new[i].options[j].list)
                             /\ \A x : x # op.entry =>
                                   (x \in ToSet(new[i].options[j].list) <=>
                                    x \in ToSet(configs[i].options[j].list))
  <2>0. PICK after : after = new[i].options[j]
    OBVIOUS
  <2>1. PICK old \in OptionElement : old = configs[i].options[j] /\ old.class = op.class
    BY DocumentParts, ConfigParts DEF About
  <2>2. OptionEdited(old, after, op)
    BY <1>1, <1>4, <2>0, <2>1, EditsDocument, ScopeOfTarget DEF About
  <2>3. Sets(op) \/ Appends(op)
    BY DEF Possible, Kinds, Sets, Appends
  <2>4. /\ op.class # old.class => after = old
        /\ op.class = old.class =>
              /\ Sets(op) => after.value = op.value /\ ToSet(after.list) = ToSet(old.list)
              /\ Appends(op) => after.value = old.value /\ ToSet(after.list) = ToSet(old.list) \cup {op.entry}
              /\ op.kind = "remove_list" =>
                    after.value = old.value /\ ToSet(after.list) = ToSet(old.list) \ {op.entry}
    BY <2>2, ListOfEdited
  <2>5. /\ Sets(op) => after.value = op.value
        /\ ~Sets(op) => /\ op.entry \in ToSet(after.list)
                        /\ \A x : x # op.entry => (x \in ToSet(after.list) <=> x \in ToSet(old.list))
    BY <2>1, <2>3, <2>4
  <2> QED
    BY <2>0, <2>1, <2>5
<1>5. Sets(op) => SetThroughout(target, new, op)
  BY <1>3, <1>4 DEF SetThroughout
<1>6. ~Sets(op) => HasThroughout(target, new, op)
  BY <1>3, <1>4 DEF HasThroughout
<1>7. ASSUME op.kind = "add_symbol"
      PROVE  Clashes(LastList(target, new, op), op.entry) = Clashes(LastList(target, configs, op), op.entry)
  <2>1. ~Sets(op) /\ ~Conflicting(op.entry, op.entry)
    BY <1>7 DEF Sets, Conflicting
  <2>2. DropsClashes(configs, new, op, {})
    BY <1>4, <2>1 DEF DropsClashes, Clashes
  <2> QED
    BY <1>2, <2>2, SameClashes
<1> QED
  BY <1>1, <1>5, <1>6, <1>7

\* What a document has of a symbol after an entry was dropped.
LEMMA DroppingSettles ==
    ASSUME NEW configs \in Seq(ConfigElement), NEW op, op.kind = "add_symbol", op.class = Symbols, NEW removed
    PROVE  LET new == Edited(configs, RemoveFrom(Symbols, removed))
           IN  /\ removed # op.entry /\ HasThroughout(target, configs, op) => HasThroughout(target, new, op)
               /\ removed = op.entry => HasNowhere(target, new, op)
               /\ \A x : x \in Clashes(LastList(target, new, op), op.entry) <=>
                            x \in Clashes(LastList(target, configs, op), op.entry) /\ x # removed
<1> DEFINE edit == RemoveFrom(Symbols, removed)
<1>1. Possible(edit) /\ edit.kind = "remove_list" /\ edit.class = op.class /\ edit.entry = removed
  <2>1. "" \in Text
    BY TextAssumption DEF Literals
  <2> QED
    BY <2>1 DEF RemoveFrom, Edit, Possible, Kinds, Appends
<1> HIDE DEF edit
<1>2. PICK new : new = Edited(configs, edit)
  OBVIOUS
<1>3. Alongside(configs, new)
  BY <1>1, <1>2, EditsDocument
<1>4. /\ DOMAIN new = DOMAIN configs
      /\ \A i \in DOMAIN configs : /\ InScope(target, new[i]) <=> InScope(target, configs[i])
                                   /\ About(new[i], op) = About(configs[i], op)
  BY <1>3 DEF Alongside, InScope, About
<1>5. ASSUME NEW i \in DOMAIN configs, InScope(target, configs[i]), NEW j \in About(configs[i], op)
      PROVE  ToSet(new[i].options[j].list) = ToSet(configs[i].options[j].list) \ {removed}
  <2>0. PICK after : after = new[i].options[j]
    OBVIOUS
  <2>1. PICK old \in OptionElement : old = configs[i].options[j] /\ old.class = op.class
    BY DocumentParts, ConfigParts DEF About
  <2>2. OptionEdited(old, after, edit)
    BY <1>1, <1>2, <1>5, <2>0, <2>1, EditsDocument, ScopeOfTarget DEF About
  <2>3. /\ edit.class # old.class => after = old
        /\ edit.class = old.class =>
              /\ Sets(edit) => after.value = edit.value /\ ToSet(after.list) = ToSet(old.list)
              /\ Appends(edit) => after.value = old.value /\ ToSet(after.list) = ToSet(old.list) \cup {edit.entry}
              /\ edit.kind = "remove_list" =>
                    after.value = old.value /\ ToSet(after.list) = ToSet(old.list) \ {edit.entry}
    BY <1>1, <2>2, ListOfEdited
  <2>4. ToSet(after.list) = ToSet(old.list) \ {removed}
    BY <1>1, <2>1, <2>3
  <2> QED
    BY <2>0, <2>1, <2>4
<1>6. removed # op.entry /\ HasThroughout(target, configs, op) => HasThroughout(target, new, op)
  BY <1>4, <1>5 DEF HasThroughout
<1>7. removed = op.entry => HasNowhere(target, new, op)
  BY <1>4, <1>5, SMTT(30) DEF HasNowhere
<1>8. DropsClashes(configs, new, op, {removed})
  BY <1>5 DEF DropsClashes, Clashes
<1>9. \A x : x \in Clashes(LastList(target, new, op), op.entry) <=>
               x \in Clashes(LastList(target, configs, op), op.entry) /\ x \notin {removed}
  BY <1>3, <1>8, ClashesAlongside, SMTT(30)
<1> QED
  BY <1>2, <1>6, <1>7, <1>9 DEF edit

\* An edit of the call's, or the removal of a symbol of its name, undoes no edit made before.
LEMMA ApartFromMade ==
    ASSUME EditsInv, Opened, DefinesOnce, NEW op \in ToSet(todo), NEW other \in Requested \ ToSet(todo)
    PROVE  /\ Apart(op, other)
           /\ \A removed : op.kind = "add_symbol" /\ Head(removed) = Head(op.entry) =>
                 Apart(RemoveFrom(Symbols, removed), other)
<1>1. PICK ops : ops = Ops(call, context) /\ ToSet(ops) = Requested
  BY DEF Requested
<1>2. Wellformed(call, ops)
  BY <1>1, OpsWellformed DEF EditsInv, Typed, ControlInv, Opened
<1>3. op \in ToSet(ops) /\ other \in ToSet(ops) /\ op # other
  BY <1>1 DEF EditsInv, Typed
<1>4. /\ Sets(op) /\ Sets(other) /\ op.class = other.class => op.value = other.value
      /\ op.class = Symbols <=> op.kind = "add_symbol"
      /\ other.class = Symbols <=> other.kind = "add_symbol"
      /\ op.kind # "remove_list"
  BY <1>2, <1>3 DEF Wellformed
<1>5. op.kind = "add_symbol" /\ other.kind = "add_symbol" => Head(op.entry) # Head(other.entry)
  BY <1>2, <1>3, SymbolsDiffer
<1>6. Apart(op, other)
  BY <1>4, <1>5 DEF Apart
<1>7. ASSUME NEW removed, op.kind = "add_symbol", Head(removed) = Head(op.entry)
      PROVE  Apart(RemoveFrom(Symbols, removed), other)
  <2>1. PICK edit : edit = RemoveFrom(Symbols, removed)
    OBVIOUS
  <2>2. edit.kind = "remove_list" /\ edit.class = Symbols /\ edit.entry = removed /\ ~Sets(edit)
    BY <2>1 DEF RemoveFrom, Edit, Sets
  <2>3. Apart(edit, other)
    BY <1>4, <1>5, <1>7, <2>2 DEF Apart
  <2> QED
    BY <2>1, <2>3
<1> QED
  BY <1>6, <1>7

\* An edit of the tree: the edits made stay settled, and so do sources.
LEMMA EditedRepeats ==
    ASSUME EditsInv, RepeatInv, Opened, pc' # "snapshot", todo # <<>>,
           NEW edit, Possible(edit), tree' = Edited(tree, edit),
           DefinesOnce => \A other \in Requested \ ToSet(todo) : Apart(edit, other),
           \/ todo' = todo
           \/ todo' = Tail(todo) /\ Settled(target, Edited(tree, edit), Head(todo)),
           UNCHANGED <<host, call, context, target, copies, backup, content, before, earlier, settings>>
    PROVE  AskedInv' /\ SettledInv' /\ AddedInv' /\ EarlierInv'
<1>1. /\ Opened' /\ Requested' = Requested
      /\ host \in Hosts /\ tree \in Seq(ConfigElement) /\ todo \in Seq(Operation)
  BY OpenedSame, RequestedSame DEF EditsInv, Typed
<1>2. PICK doc : doc = Edited(tree, edit) /\ tree' = doc
  OBVIOUS
<1>3. /\ \A tgt, configs, op : Settled(tgt, configs, op)' <=> Settled(tgt, configs, op)
      /\ \A tgt, configs, copy : SettledSource(tgt, configs, copy) => SettledSource(tgt, configs, copy)'
      /\ DefinesOnce' <=> DefinesOnce
  BY <1>1, SettledSame, SourceSettledSame
<1>4. AskedInv' /\ EarlierInv'
  <2>1. EarlierInv'
    BY <1>1, EarlierSame DEF RepeatInv
  <2> QED
    BY <2>1 DEF RepeatInv, AskedInv
<1>5. SettledInv'
  <2>1. SUFFICES ASSUME DefinesOnce, NEW op \in Requested, op \notin ToSet(todo')
                 PROVE  Settled(target, doc, op)
    BY <1>1, <1>2, <1>3 DEF SettledInv
  <2>2. CASE op \notin ToSet(todo)
    <3>1. Settled(target, tree, op) /\ Apart(edit, op)
      BY <2>1, <2>2 DEF RepeatInv, SettledInv
    <3> QED
      BY <1>1, <1>2, <3>1, EditedKeepsSettled
  <2>3. CASE op \in ToSet(todo)
    <3>1. ToSet(todo) = {Head(todo)} \cup ToSet(Tail(todo))
      BY <1>1, ToSetTail
    <3> QED
      BY <1>2, <2>1, <2>3, <3>1
  <2> QED
    BY <2>2, <2>3
<1>6. AddedInv'
  <2>1. SUFFICES ASSUME call.on_existing # {"rename"}, NEW copy \in ToSet(call.sources) \ ToSet(copies)
                 PROVE  SettledSource(target, doc, copy)
    BY <1>1, <1>2, <1>3 DEF AddedInv
  <2>2. SettledSource(target, tree, copy)
    BY <2>1 DEF RepeatInv, AddedInv
  <2>3. DOMAIN doc = DOMAIN tree /\ \A i \in DOMAIN tree : doc[i].excluding = tree[i].excluding
    BY <1>1, <1>2, EditsDocument DEF Alongside
  <2> QED
    BY <2>2, <2>3 DEF SettledSource
<1> QED
  BY <1>4, <1>5, <1>6

\* What an edit of the call's finds in a document its previous call left behind.
LEMMA FormerSettled ==
    ASSUME EditsInv, RepeatInv, Opened, Repeatable, [context |-> context, target |-> target] \in earlier
    PROVE  /\ \A op \in Requested : Settled(target, Former, op)
           /\ \A copy \in ToSet(call.sources) : SettledSource(target, Former, copy)
<1>1. EditsRequested(call)
  BY DEF RepeatInv, AskedInv
<1>2. PICK e \in earlier : e = [context |-> context, target |-> target]
  OBVIOUS
<1>3. EarlierSettled(e) /\ e.context = context /\ e.target = target
  BY <1>1, <1>2 DEF RepeatInv, EarlierInv
<1> QED
  BY <1>3 DEF EarlierSettled, Requested, Former

LEMMA EditOptionRepeats == ASSUME EditsInv, RepeatInv, EditOption PROVE RepeatInv'
<1> USE DEF world, history, resolved
<1>1. PICK op, doc, asked : /\ op = Head(todo) /\ doc = Edited(tree, op)
                            /\ asked = Conflicts(OldValue(tree, op), op.entry)
  OBVIOUS
<1>2. /\ pc = "edit" /\ todo # <<>> /\ Opened /\ ~KwargsRaise(call) /\ host \in Hosts
      /\ todo \in Seq(Operation) /\ tree \in Seq(ConfigElement) /\ ToSet(todo) \subseteq Requested
      /\ UNCHANGED <<host, content, settings, call, context, target, before, earlier, copies, backup>>
  BY DEF EditOption, EditsInv, ControlInv, Typed, Protected, Opened
<1>3. op \in ToSet(todo) /\ op \in Requested /\ op \in Operation
  BY <1>1, <1>2, ToSetTail
<1>4. CASE pc' \in {"other_error", "rollback"} /\ UNCHANGED <<tree, todo, asking>>
  <2>1. Still
    BY <1>2, <1>4 DEF Still, Editing
  <2> QED
    BY <1>2, <2>1, StillStep
<1>5. CASE /\ op.kind # "unknown_preset" /\ tree' = doc
           /\ asking' = IF op.kind = "add_symbol" THEN asked ELSE <<>>
           /\ IF asking' = <<>> THEN pc' = "edit" /\ todo' = Tail(todo)
                                ELSE pc' = "decide" /\ todo' = todo
  <2>1. Wellformed(call, Ops(call, context))
    BY <1>2, OpsWellformed DEF EditsInv, Typed
  <2>2. /\ Possible(op) /\ op.kind # "remove_list" /\ op.entry \in Path
        /\ op.kind = "add_symbol" => op.class = Symbols /\ ~Sets(op)
    BY <1>3, <1>5, <2>1 DEF Wellformed, Requested, Operation, Possible, Sets
  <2>3. /\ Sets(op) => SetThroughout(target, doc, op)
        /\ ~Sets(op) => HasThroughout(target, doc, op)
        /\ op.kind = "add_symbol" =>
              Clashes(LastList(target, doc, op), op.entry) = Clashes(LastList(target, tree, op), op.entry)
    BY <1>1, <1>2, <2>2, EditSettles
  <2>4. /\ asked \in Seq(Path) /\ ToSet(asked) = Clashes(LastList(target, tree, op), op.entry)
        /\ asked = <<>> <=> Clashes(LastList(target, tree, op), op.entry) = {}
    <3>1. OldValue(tree, op) = LastList(target, tree, op)
      BY ScopeOfTarget
    <3>2. LastList(target, tree, op) \in Seq(Path)
      BY <1>2, LastListIsList
    <3> QED
      BY <1>1, <3>1, <3>2, ConflictsElements
  <2>5. asking' = <<>> => Settled(target, doc, op)
    BY <1>5, <2>3, <2>4 DEF Settled
  <2>6. AskedInv' /\ SettledInv' /\ AddedInv' /\ EarlierInv'
    <3>1. DefinesOnce => \A other \in Requested \ ToSet(todo) : Apart(op, other)
      BY <1>2, <1>3, ApartFromMade
    <3> QED
      BY <1>1, <1>2, <1>5, <2>2, <2>5, <3>1, EditedRepeats
  <2>7. DecidingInv'
    <3>1. SUFFICES ASSUME pc' = "decide" PROVE Deciding(op)'
      BY <1>1, <1>5 DEF DecidingInv
    <3>2. op.kind = "add_symbol" /\ asking' = asked /\ asked # <<>>
      BY <1>5, <3>1
    <3>3. \A existing \in ToSet(asked) : Conflicting(existing, op.entry)
      BY <2>4 DEF Clashes
    <3>4. HasThroughout(target, doc, op)
      BY <2>2, <2>3, <3>2
    <3> QED
      BY <1>2, <1>5, <2>3, <2>4, <3>2, <3>3, <3>4 DEF Deciding
  <2>8. SameInv'
    <3>1. SUFFICES ASSUME Repeatable, [context |-> context, target |-> target] \in earlier
                   PROVE  /\ pc' = "edit" => doc = Former
                          /\ pc' = "decide" =>
                                /\ call.on_conflict = {"skip"} /\ HasNowhere(target, Former, op)
                                /\ doc \in {Former, Edited(Former, op)}
      <4>1. Former' = Former /\ (Repeatable' <=> Repeatable)
        BY <1>2, SettledSame DEF Former
      <4>2. \A configs : Edited(configs, op)' = Edited(configs, op)
        BY <1>2 DEF Edited, Scope
      <4>3. pc' \in {"edit", "decide"} /\ (pc' = "decide" => Head(todo') = op)
        BY <1>1, <1>5
      <4> QED
        BY <1>2, <1>5, <4>1, <4>2, <4>3 DEF SameInv, Editing
    <3>2. tree = Former
      BY <1>2, <3>1 DEF RepeatInv, SameInv, Editing
    <3>3. Settled(target, Former, op)
      BY <1>2, <1>3, <3>1, FormerSettled
    <3>4. CASE \/ Sets(op) /\ SetThroughout(target, tree, op)
               \/ /\ ~Sets(op) /\ HasThroughout(target, tree, op)
                  /\ op.kind = "add_symbol" => Clashes(LastList(target, tree, op), op.entry) = {}
      <4>1. doc = tree
        BY <1>1, <1>2, <2>2, <3>4, SettledChangesNothing
      <4>2. asking' = <<>>
        BY <1>5, <2>2, <2>4, <3>4
      <4> QED
        BY <1>5, <3>2, <4>1, <4>2
    <3>5. CASE /\ op.kind = "add_symbol" /\ call.on_conflict = {"skip"} /\ HasNowhere(target, tree, op)
               /\ Clashes(LastList(target, tree, op), op.entry) # {}
      <4>1. asking' # <<>>
        BY <1>5, <2>4, <3>5
      <4> QED
        BY <1>1, <1>5, <3>2, <3>5, <4>1
    <3> QED
      BY <3>2, <3>3, <3>4, <3>5 DEF Settled
  <2> QED
    BY <2>6, <2>7, <2>8 DEF RepeatInv
<1>6. \/ pc' \in {"other_error", "rollback"} /\ UNCHANGED <<tree, todo, asking>>
      \/ /\ op.kind # "unknown_preset" /\ tree' = doc
         /\ asking' = IF op.kind = "add_symbol" THEN asked ELSE <<>>
         /\ IF asking' = <<>> THEN pc' = "edit" /\ todo' = Tail(todo)
                              ELSE pc' = "decide" /\ todo' = todo
  BY <1>1 DEF EditOption, Goto
<1> QED
  BY <1>4, <1>5, <1>6

LEMMA DecideRepeats == ASSUME EditsInv, RepeatInv, Decide PROVE RepeatInv'
<1> USE DEF world, resolved
<1>1. PICK op, existing, clashes : /\ op = Head(todo) /\ existing = Head(asking)
                                   /\ clashes = Clashes(LastList(target, tree, op), op.entry)
  OBVIOUS
<1>2. /\ pc = "decide" /\ todo # <<>> /\ Opened /\ ~KwargsRaise(call) /\ host \in Hosts
      /\ todo \in Seq(Operation) /\ tree \in Seq(ConfigElement) /\ ToSet(todo) \subseteq Requested
      /\ UNCHANGED <<host, content, settings, call, context, target, before, earlier, copies, backup>>
  BY DEF Decide, EditsInv, ControlInv, Typed, Protected, Opened
<1>3. op \in ToSet(todo) /\ op \in Requested /\ op \in Operation
  BY <1>1, <1>2, ToSetTail
<1>4. /\ op.kind = "add_symbol" /\ asking \in Seq(Path) \ {<<>>}
      /\ \A e \in ToSet(asking) : Conflicting(e, op.entry)
      /\ call.on_conflict = {"replace"} => HasThroughout(target, tree, op) /\ clashes \subseteq ToSet(asking)
      /\ call.on_conflict = {"skip"} => clashes # {}
  BY <1>1, <1>2 DEF RepeatInv, DecidingInv, Deciding
<1>5. /\ Tail(asking) \in Seq(Path) /\ existing \in ToSet(asking)
      /\ ToSet(asking) = {existing} \cup ToSet(Tail(asking))
  BY <1>1, <1>4, ToSetTail
<1>6. /\ op.class = Symbols /\ ~Sets(op) /\ Possible(op)
  <2>1. Wellformed(call, Ops(call, context))
    BY <1>2, OpsWellformed DEF EditsInv, Typed
  <2> QED
    BY <1>3, <1>4, <2>1 DEF Wellformed, Requested, Operation, Possible, Kinds, Sets
<1>7. CASE pc' \in {"other_error", "rollback"} /\ UNCHANGED <<tree, todo, asking>>
  <2>1. Still
    BY <1>2, <1>7 DEF Still, Editing
  <2> QED
    BY <1>2, <2>1, StillStep
<1>8. ASSUME NEW removed, Decided(removed),
             \/ call.on_conflict = {"replace"} /\ removed = existing
             \/ call.on_conflict = {"skip"} /\ removed = op.entry
      PROVE  RepeatInv'
  <2>1. PICK edit, doc : edit = RemoveFrom(Symbols, removed) /\ doc = Edited(tree, edit)
    OBVIOUS
  <2>2. /\ tree' = doc /\ asking' = Tail(asking)
        /\ IF asking' = <<>> THEN pc' = "edit" /\ todo' = Tail(todo)
                             ELSE pc' = "decide" /\ todo' = todo
    BY <1>8, <2>1 DEF Decided, Goto
  <2>3. Possible(edit)
    <3>1. "" \in Text
      BY TextAssumption DEF Literals
    <3> QED
      BY <2>1, <3>1 DEF RemoveFrom, Edit, Possible, Kinds, Appends
  <2>4. Head(removed) = Head(op.entry)
    BY <1>4, <1>5, <1>8 DEF Conflicting
  <2>5. /\ removed # op.entry /\ HasThroughout(target, tree, op) => HasThroughout(target, doc, op)
        /\ removed = op.entry => HasNowhere(target, doc, op)
        /\ \A x : x \in Clashes(LastList(target, doc, op), op.entry) <=> x \in clashes /\ x # removed
    BY <1>1, <1>2, <1>4, <1>6, <2>1, DroppingSettles
  <2>6. /\ call.on_conflict = {"replace"} =>
              /\ HasThroughout(target, doc, op)
              /\ Clashes(LastList(target, doc, op), op.entry) \subseteq ToSet(asking')
        /\ call.on_conflict = {"skip"} =>
              /\ HasNowhere(target, doc, op)
              /\ Clashes(LastList(target, doc, op), op.entry) # {}
    <3>1. CASE call.on_conflict = {"replace"}
      <4>1. removed = existing /\ removed # op.entry /\ call.on_conflict # {"skip"}
        BY <1>4, <1>5, <1>8, <3>1 DEF Conflicting
      <4> QED
        BY <1>4, <1>5, <2>2, <2>5, <3>1, <4>1
    <3>2. CASE call.on_conflict = {"skip"}
      <4>1. removed = op.entry /\ removed \notin clashes /\ call.on_conflict # {"replace"}
        BY <1>1, <1>8, <3>2 DEF Clashes, Conflicting
      <4> QED
        BY <1>4, <2>5, <3>2, <4>1
    <3> QED
      BY <3>1, <3>2
  <2>7. asking' = <<>> => Settled(target, doc, op)
    <3>1. ToSet(<<>>) = {}
      BY DEF ToSet
    <3>2. asking' = <<>> /\ call.on_conflict = {"replace"} =>
              Clashes(LastList(target, doc, op), op.entry) = {}
      BY <2>6, <3>1
    <3> QED
      BY <1>4, <1>6, <1>8, <2>6, <3>2 DEF Settled
  <2>8. AskedInv' /\ SettledInv' /\ AddedInv' /\ EarlierInv'
    <3>1. DefinesOnce => \A other \in Requested \ ToSet(todo) : Apart(edit, other)
      BY <1>2, <1>3, <1>4, <2>1, <2>4, ApartFromMade
    <3> QED
      BY <1>1, <1>2, <2>1, <2>2, <2>3, <2>7, <3>1, EditedRepeats
  <2>9. DecidingInv'
    <3>1. SUFFICES ASSUME pc' = "decide" PROVE Deciding(op)'
      BY <1>1, <2>2 DEF DecidingInv
    <3>2. PICK rest : rest = Tail(asking)
      OBVIOUS
    <3>3. asking' = rest /\ rest \in Seq(Path) /\ rest # <<>> /\ ToSet(rest) \subseteq ToSet(asking)
      BY <1>5, <2>2, <3>1, <3>2
    <3>4. \A e \in ToSet(rest) : Conflicting(e, op.entry)
      BY <1>4, <3>3
    <3> QED
      BY <1>2, <1>4, <2>2, <2>6, <3>3, <3>4 DEF Deciding
  <2>10. SameInv'
    <3>1. SUFFICES ASSUME Repeatable, [context |-> context, target |-> target] \in earlier
                   PROVE  /\ doc = Former /\ call.on_conflict = {"skip"} /\ HasNowhere(target, Former, op)
      <4>1. Former' = Former /\ (Repeatable' <=> Repeatable)
        BY <1>2, SettledSame DEF Former
      <4>2. pc' \in {"edit", "decide"} /\ (pc' = "decide" => Head(todo') = op)
        BY <1>1, <2>2
      <4> QED
        BY <1>2, <2>2, <4>1, <4>2 DEF SameInv, Editing
    <3>2. /\ call.on_conflict = {"skip"} /\ HasNowhere(target, Former, op)
          /\ tree \in {Former, Edited(Former, op)}
      BY <1>1, <1>2, <3>1 DEF RepeatInv, SameInv
    <3>3. removed = op.entry
      <4>1. {"skip"} # {"replace"}
        OBVIOUS
      <4> QED
        BY <1>8, <3>2, <4>1
    <3>4. Former \in Seq(ConfigElement)
      BY <1>2 DEF EditsInv, Stored, Former, Opened, Document
    <3>5. /\ Edited(Edited(Former, op), edit) = Former
          /\ Edited(Former, edit) = Former
      BY <1>4, <1>6, <2>1, <3>2, <3>3, <3>4, SymbolUndone
    <3> QED
      BY <2>1, <3>2, <3>5
  <2> QED
    BY <2>8, <2>9, <2>10 DEF RepeatInv
<1>9. \/ pc' \in {"other_error", "rollback"} /\ UNCHANGED <<tree, todo, asking>>
      \/ call.on_conflict = {"replace"} /\ Decided(existing)
      \/ call.on_conflict = {"skip"} /\ Decided(op.entry)
  BY <1>1 DEF Decide, Goto
<1> QED
  BY <1>7, <1>8, <1>9

LEMMA AddSourceRepeats == ASSUME EditsInv, RepeatInv, AddSource PROVE RepeatInv'
<1> USE DEF world, history, resolved
<1>1. PICK copy, path : copy = Head(copies) /\ path = Destination(copy)
  OBVIOUS
<1>2. /\ pc = "edit" /\ todo = <<>> /\ copies # <<>> /\ Opened /\ host \in Hosts /\ Stored
      /\ copies \in Seq(Copy) /\ tree \in Seq(ConfigElement) /\ target.project \in Path
      /\ UNCHANGED <<host, settings, call, context, target, before, earlier, todo, asking, backup>>
  BY DEF AddSource, EditsInv, ControlInv, Protected, Typed
<1>3. copy \in Copy /\ ToSet(copies) = {copy} \cup ToSet(Tail(copies)) /\ copy \in ToSet(call.sources)
  <2>1. copy \in Copy /\ ToSet(copies) = {copy} \cup ToSet(Tail(copies))
    BY <1>1, <1>2, ToSetTail
  <2> QED
    BY <2>1 DEF RepeatInv, AskedInv
<1>4. path \in Path /\ path = Coerce(copy.to, target.project)
  BY <1>1, <1>2, <1>3, CoerceIsPath DEF Destination, Copy
<1>5. CASE pc' \in {"rollback", "other_error"} /\ UNCHANGED <<copies, content, tree>>
  <2>1. Still
    BY <1>2, <1>5 DEF Still, Editing
  <2> QED
    BY <1>2, <2>1, StillStep
<1>6. ASSUME pc' = pc, copies' = Tail(copies), DOMAIN content \subseteq DOMAIN content',
             NEW doc, tree' = doc, Alongside(tree, doc),
             \A i \in DOMAIN tree : /\ doc[i].options = tree[i].options
                                    /\ doc[i].excluding \subseteq tree[i].excluding,
             call.on_existing # {"rename"} => SettledSource(target, doc, copy)',
             Opened /\ Repeatable /\ [context |-> context, target |-> target] \in earlier => doc = Former
      PROVE  RepeatInv'
  <2>1. Opened' /\ Requested' = Requested /\ Former' = Former
    BY <1>2, OpenedSame, RequestedSame DEF Former
  <2>2. /\ \A tgt, configs, op : Settled(tgt, configs, op)' <=> Settled(tgt, configs, op)
        /\ \A tgt, configs, c : SettledSource(tgt, configs, c) => SettledSource(tgt, configs, c)'
        /\ (Repeatable' <=> Repeatable) /\ (DefinesOnce' <=> DefinesOnce)
    BY <1>2, <1>6, SettledSame, SourceSettledSame
  <2>3. EarlierInv' /\ DecidingInv'
    BY <1>2, <1>6, EarlierSame DEF RepeatInv, DecidingInv
  <2>4. AskedInv'
    BY <1>2, <1>3, <1>6 DEF RepeatInv, AskedInv
  <2>5. SettledInv'
    <3>1. SUFFICES ASSUME DefinesOnce, NEW op \in Requested \ ToSet(todo)
                   PROVE  Settled(target, doc, op)
      BY <1>2, <1>6, <2>1, <2>2 DEF SettledInv
    <3>2. Settled(target, tree, op)
      BY <1>2, <3>1 DEF RepeatInv, SettledInv
    <3>3. \A option : KeepsSettled(option, option, op)
      BY DEF KeepsSettled
    <3>4. \A i \in DOMAIN tree : \A j \in DOMAIN tree[i].options :
              KeepsSettled(tree[i].options[j], doc[i].options[j], op)
      BY <1>6, <3>3
    <3> QED
      BY <1>2, <1>6, <3>2, <3>4, SettledKept
  <2>6. AddedInv'
    <3>1. SUFFICES ASSUME call.on_existing # {"rename"}, NEW c \in ToSet(call.sources) \ ToSet(Tail(copies))
                   PROVE  SettledSource(target, doc, c)'
      BY <1>2, <1>6 DEF AddedInv
    <3>2. CASE c = copy
      BY <1>6, <3>1, <3>2
    <3>3. CASE c # copy
      <4>1. SettledSource(target, tree, c)
        BY <1>2, <1>3, <3>1, <3>3 DEF RepeatInv, AddedInv
      <4>2. SettledSource(target, doc, c)
        BY <1>6, <4>1 DEF SettledSource, Alongside
      <4> QED
        BY <1>2, <2>2, <4>2
    <3> QED
      BY <3>2, <3>3
  <2>7. SameInv'
    BY <1>2, <1>6, <2>1, <2>2 DEF SameInv
  <2> QED
    BY <2>3, <2>4, <2>5, <2>6, <2>7 DEF RepeatInv
<1>7. ASSUME Repeatable, [context |-> context, target |-> target] \in earlier
      PROVE  tree = Former /\ SettledSource(target, Former, copy) /\ Former \in Seq(ConfigElement)
  <2>1. tree = Former
    BY <1>2, <1>7 DEF RepeatInv, SameInv, Editing
  <2> QED
    BY <1>2, <1>3, <1>7, <2>1, FormerSettled
<1>8. CASE Skips(path) /\ copies' = Tail(copies) /\ UNCHANGED <<pc, content, tree>>
  <2>1. Alongside(tree, tree)
    BY DEF Alongside
  <2>2. PICK doc : doc = tree
    OBVIOUS
  <2>3. SettledSource(target, doc, copy)
    BY <1>4, <1>8 DEF SettledSource, Skips
  <2>4. SettledSource(target, doc, copy)'
    BY <1>2, <1>8, <2>3, SourceSettledSame
  <2> QED
    BY <1>2, <1>6, <1>7, <1>8, <2>1, <2>2, <2>4
<1>9. CASE Copies(copy)
  <2>1. PICK doc, name : doc = Unexcluded(tree, name) /\ name = Last(Placed(path))
    OBVIOUS
  <2>2. /\ Taken(path) => call.on_existing = {"replace"} \/ (Renames(path) /\ FreeNumbers(path) # {})
        /\ copy.from \in DOMAIN content
        /\ content' = [f \in DOMAIN content \cup {Put(copy.from, Placed(path))} |->
                          content[IF f = Put(copy.from, Placed(path)) THEN copy.from ELSE f]]
        /\ tree' = doc /\ copies' = Tail(copies) /\ pc' = pc
    BY <1>1, <1>9, <2>1 DEF Copies
  <2>3. DOMAIN content' = DOMAIN content \cup {Put(copy.from, Placed(path))}
    BY <2>2
  <2>4. /\ Alongside(tree, doc)
        /\ \A i \in DOMAIN tree :
              /\ doc[i].options = tree[i].options
              /\ doc[i].excluding = {p \in tree[i].excluding : Last(p) # name}
    BY <1>2, <2>1, UnexcludesDocument
  <2>5. call.on_existing # {"rename"} => Placed(path) = path /\ name = Last(path)
    BY <2>1 DEF Placed, Renames
  <2>6. call.on_existing = {"skip"} => ~Taken(path)
    <3>1. {"skip"} # {"replace"} /\ {"skip"} # {"rename"}
      OBVIOUS
    <3> QED
      BY <2>2, <3>1 DEF Renames
  <2>7. ASSUME call.on_existing # {"rename"}
        PROVE  SettledSource(target, doc, copy)'
    <3>1. CASE call.on_existing = {"skip"}
      <4>1. Put(copy.from, path) = path
        BY <1>2, <1>4, <2>2, <2>6, <3>1, PutIsFile
      <4>2. path \in DOMAIN content'
        BY <2>3, <2>5, <2>7, <4>1
      <4>3. Taken(path)'
        <5>1. (Host.files = DOMAIN content)' /\ host' \in Hosts
          BY <1>2, HostsAssumption DEF Host
        <5>2. PICK h : h = Host'
          OBVIOUS
        <5>3. Exists(h, path)
          BY <1>4, <4>2, <5>1, <5>2, ExistingFile
        <5> QED
          BY <5>2, <5>3 DEF Taken
      <4> QED
        BY <1>2, <1>4, <3>1, <4>3 DEF SettledSource
    <3>2. CASE call.on_existing # {"skip"}
      <4>1. \A i \in DOMAIN doc : \A p \in doc[i].excluding : Last(p) # Last(path)
        BY <2>4, <2>5, <2>7 DEF Alongside
      <4> QED
        BY <1>2, <1>4, <3>2, <4>1 DEF SettledSource
    <3> QED
      BY <3>1, <3>2
  <2>8. ASSUME Repeatable, [context |-> context, target |-> target] \in earlier
        PROVE  doc = Former
    <3>1. tree = Former /\ SettledSource(target, Former, copy) /\ Former \in Seq(ConfigElement)
      BY <1>7, <2>8
    <3>2. call.on_existing # {"skip"}
      BY <1>4, <2>6, <3>1 DEF SettledSource
    <3>3. \A i \in DOMAIN Former : \A p \in Former[i].excluding : Last(p) # name
      BY <1>4, <2>5, <2>8, <3>1, <3>2 DEF SettledSource, Repeatable
    <3> QED
      BY <2>1, <3>1, <3>3, NothingToUnexclude
  <2> QED
    BY <1>6, <2>2, <2>3, <2>4, <2>7, <2>8
<1>10. \/ Skips(path) /\ copies' = Tail(copies) /\ UNCHANGED <<pc, content, tree>>
       \/ pc' \in {"rollback", "other_error"} /\ UNCHANGED <<copies, content, tree>>
       \/ Copies(copy)
  BY <1>1, AddSourceCases
<1> QED
  BY <1>5, <1>8, <1>9, <1>10

-----------------------------------------------------------------------------
(* The theorems.                                                           *)

LEMMA EditsStepInv == ASSUME EditsInv, [EditsNext]_vars PROVE EditsInv'
<1>1. CASE EditsNext
  BY <1>1, LoadInv, ResolveInv, SnapshotInv, EditOptionInv, DecideInv, AddSourceInv, WriteInv,
     WrittenInv, RollbackInv, RestoredInv, BuildInv, InterruptInv, AgainInv DEF EditsNext
<1>2. CASE UNCHANGED vars
  <2>1. /\ UNCHANGED <<host, content, settings, told, before, earlier, tree, todo, asking, copies, backup>>
        /\ UNCHANGED <<call, pc, context, target, built>>
    BY <1>2 DEF vars, world, history, editor
  <2>2. Quiet
    BY <2>1 DEF Quiet, EditsInv, Typed, Stored
  <2>3. /\ Typed' /\ Stored' /\ ContentInv' /\ TreeInv' /\ DoneInv' /\ SourcesInv' /\ MeantInv'
        /\ (Opened' <=> Opened)
    BY <2>1, <2>2, QuietStep
  <2>4. (Resolved' <=> Resolved) /\ (Saved' <=> Saved)
    BY <2>1, <2>3 DEF Resolved, Saved
  <2>5. ControlInv' /\ SettingsInv'
    BY <2>1, <2>3, <2>4 DEF EditsInv, ControlInv, SettingsInv
  <2> QED
    BY <2>3, <2>5 DEF EditsInv
<1> QED
  BY <1>1, <1>2

\* The inductive invariant, with the types.
THEOREM EditsTyped == EditsSpec => []EditsInv
<1>1. EditsInit => EditsInv
  BY EditsInitInv
<1>2. EditsInv /\ [EditsNext]_vars => EditsInv'
  BY EditsStepInv
<1> QED
  BY <1>1, <1>2, PTL DEF EditsSpec

\* What is saved has every edit and every source.
LEMMA SavedHasEdits ==
    ASSUME EditsInv, Saved, pc # "decide"
    PROVE  /\ target.project \in DOMAIN settings
           /\ settings[target.project].state = "whole" /\ HasEdits(New(target.project))
<1>1. /\ Opened /\ settings[target.project] = Whole(tree) /\ todo = <<>> /\ copies = <<>>
      /\ tree \in Seq(ConfigElement)
  BY DEF Saved, EditsInv, Typed
<1>2. New(target.project) = tree /\ settings[target.project].state = "whole"
  BY <1>1 DEF New, Whole
<1>3. Requested \ Left = Requested /\ ToSet(call.sources) \ ToSet(copies) = ToSet(call.sources)
  BY <1>1 DEF Left, ToSet
<1>4. \A i \in DOMAIN tree : EditsMade(tree[i], Requested)
  BY <1>1, <1>3 DEF EditsInv, DoneInv
<1>5. \A config \in ToSet(tree) : Scope(config) =>
          \A option \in ToSet(config.options) : \A op \in Requested : HasEdit(option, op)
  BY <1>4 DEF EditsMade, ToSet
<1>6. call.on_existing = {} => \A copy \in ToSet(call.sources) : SourceMade(copy)
  BY <1>1, <1>3 DEF EditsInv, SourcesInv
<1>7. HasSources(tree)
  BY <1>6 DEF HasSources, SourceMade, ToSet
<1> QED
  BY <1>1, <1>2, <1>5, <1>7 DEF HasEdits, Opened

\* A call that is over has made every edit it was asked for, or none, whatever step
\* of copying, editing, writing, reading back or restoring failed; excepted are only a
\* Ctrl-C and a rollback that failed itself.  An OSError of reading back the written
\* file leaves all of them, without a rollback.
THEOREM MakesAllOrNothing == EditsSpec => []AllOrNothing
<1>1. EditsInv => AllOrNothing
  <2> SUFFICES ASSUME EditsInv, pc \in {"result", "substrate_error", "other_error", "unread"}
               PROVE  \/ settings = before.settings /\ ~(pc = "result" /\ EditsRequested(call))
                      \/ /\ pc # "other_error" /\ target.project \in DOMAIN settings
                         /\ settings[target.project].state = "whole" /\ HasEdits(New(target.project))
    BY DEF AllOrNothing
  <2>1. SettingsInv
    BY DEF EditsInv
  <2> QED
    BY <2>1, SavedHasEdits DEF SettingsInv
<1> QED
  BY <1>1, EditsTyped, PTL

\* A configuration in the scope of a name has its last word.
LEMMA ScopeNames ==
    ASSUME NEW config \in ConfigElement, target \in [project : Path, configuration : Path, all : BOOLEAN],
           Resolved, ~target.all, Scope(config)
    PROVE  Last(config.name) \in ToSet(target.configuration)
<1> DEFINE s == target.configuration
           t == config.name
<1>1. /\ s \in Seq(Text) \ {<<>>} /\ t \in Seq(Text) \ {<<>>}
      /\ IsPrefix(Reverse(s), Reverse(t))
  BY ConfigParts DEF Resolved, Path, Words, Scope, IsSuffix
<1> HIDE DEF s, t
<1>2. /\ Len(s) \in Nat \ {0} /\ Len(t) \in Nat \ {0}
      /\ Reverse(s) \in Seq(Text) /\ Reverse(t) \in Seq(Text)
      /\ Len(Reverse(s)) = Len(s) /\ Len(Reverse(t)) = Len(t)
      /\ Reverse(s)[1] = s[Len(s)] /\ Reverse(t)[1] = t[Len(t)]
  BY <1>1 DEF Reverse
<1>3. \A i \in 1..Len(s) : Reverse(s)[i] = Reverse(t)[i]
  BY <1>1, <1>2, PrefixByElements DEF Path
<1>4. s[Len(s)] = t[Len(t)] /\ Len(s) \in DOMAIN s
  BY <1>1, <1>2, <1>3
<1> QED
  BY <1>4 DEF ToSet, Last, s, t

\* A call changes and builds the project its caller means and no other, in it only
\* the configurations and the options asked for, and no file but by on_existing's word.
THEOREM ChangesOnlyAsked == EditsSpec => []OnlyAsked
<1>1. EditsInv => OnlyAsked
  <2> SUFFICES ASSUME EditsInv PROVE OnlyAsked
    OBVIOUS
  <2>1. Typed /\ Stored /\ SettingsInv /\ MeantInv /\ ContentInv /\ TreeInv
    BY DEF EditsInv
  <2>2. \A b \in built : Meant(b.project)
    BY <2>1 DEF MeantInv
  <2>3. ASSUME NEW p \in DOMAIN settings, settings[p] # before.settings[p]
        PROVE  /\ p = target.project /\ Meant(p) /\ Opened
               /\ settings[p].state = "whole" => settings[p] = Whole(tree)
    <3>1. Opened /\ p = target.project /\ Resolved
      BY <2>1, <2>3 DEF SettingsInv, Opened
    <3>2. settings[p] \in {Torn, Whole(tree)}
      BY <2>1, <2>3, <3>1 DEF SettingsInv
    <3> QED
      BY <2>1, <3>1, <3>2 DEF MeantInv, Torn
  <2>4. ASSUME NEW p \in DOMAIN settings, settings[p] # before.settings[p],
               settings[p].state = "whole", NEW i \in DOMAIN New(p)
        PROVE  LET old == Old(p)[i]
                   new == New(p)[i]
               IN  IF AllAsked \/ Last(old.name) \in ToSet(target.configuration)
                     THEN \A j \in DOMAIN new.options : ChangedAsAsked(old.options[j], new.options[j])
                     ELSE new.options = old.options
    <3>1. p = target.project /\ Opened /\ settings[p] = Whole(tree)
      BY <2>3, <2>4
    <3>2. New(p) = tree /\ Old(p) = Former /\ tree \in Seq(ConfigElement) /\ Former \in Seq(ConfigElement)
      BY <2>1, <3>1 DEF New, Old, Former, Whole, Typed, Stored, Document
    <3>3. /\ Alongside(Former, tree) /\ i \in DOMAIN Former
          /\ IF Scope(Former[i])
               THEN \A j \in DOMAIN Former[i].options :
                       ChangedAsAsked(Former[i].options[j], tree[i].options[j])
               ELSE tree[i].options = Former[i].options
      BY <2>1, <2>4, <3>1, <3>2 DEF TreeInv, Alongside
    <3>4. Scope(Former[i]) => AllAsked \/ Last(Former[i].name) \in ToSet(target.configuration)
      <4>1. Resolved /\ (target.all => AllAsked)
        BY <2>1, <3>1 DEF MeantInv, Opened
      <4>2. Former[i] \in ConfigElement
        BY <3>2, <3>3, DocumentParts
      <4> QED
        BY <2>1, <4>1, <4>2, ScopeNames DEF Typed
    <3>5. DOMAIN tree[i].options = DOMAIN Former[i].options
      BY <3>3 DEF Alongside
    <3>6. \A option : ChangedAsAsked(option, option)
      BY DEF ChangedAsAsked
    <3> QED
      BY <3>2, <3>3, <3>4, <3>5, <3>6
  <2>5. \A f \in DOMAIN before.content :
            content[f] # before.content[f] => call.on_existing = {"replace"}
    BY <2>1 DEF ContentInv
  <2> QED
    BY <2>2, <2>3, <2>4, <2>5 DEF OnlyAsked
<1> QED
  BY <1>1, EditsTyped, PTL

LEMMA RepeatStepInv == ASSUME EditsInv, RepeatInv, [EditsNext]_vars PROVE RepeatInv'
<1>1. CASE EditsNext
  BY <1>1, LoadRepeats, ResolveRepeats, SnapshotRepeats, EditOptionRepeats, DecideRepeats,
     AddSourceRepeats, StillSteps, AgainRepeats DEF EditsNext
<1>2. CASE UNCHANGED vars
  BY <1>2, StillSteps
<1> QED
  BY <1>1, <1>2

\* A call that succeeded can be repeated: the second time, if it resolves to the same, it
\* leaves every .cproject as it is, whatever on_conflict and on_existing said, unless
\* on_existing renames or the call defines a symbol twice.
THEOREM RepeatIsHarmless == EditsSpec => []RepeatChangesNothing
<1>1. EditsInit => RepeatInv
  BY RepeatInit
<1>2. EditsInv /\ RepeatInv /\ [EditsNext]_vars => RepeatInv'
  BY RepeatStepInv
<1>3. EditsInv /\ RepeatInv => RepeatChangesNothing
  <2> SUFFICES ASSUME EditsInv, RepeatInv, pc = "result",
                      [context |-> context, target |-> target] \in earlier, Repeatable
               PROVE  settings = before.settings
    BY DEF RepeatChangesNothing, Repeatable
  <2>1. CASE ~EditsRequested(call)
    <3>1. ~Opened
      BY <2>1 DEF RepeatInv, AskedInv
    <3> QED
      BY <3>1 DEF EditsInv, SettingsInv
  <2>2. CASE EditsRequested(call)
    <3>1. Saved /\ Opened
      BY <2>2 DEF EditsInv, SettingsInv, Saved
    <3>2. settings[target.project] = Whole(tree) /\ tree = Former
      BY <3>1 DEF Saved, RepeatInv, SameInv, Editing
    <3>3. /\ before.settings[target.project] \in Document
          /\ before.settings[target.project].state = "whole"
          /\ before.settings[target.project].configs = Former
      BY <3>1 DEF EditsInv, Stored, Opened, Former
    <3>4. before.settings[target.project] = Whole(Former)
      BY <3>3 DEF Document, Whole
    <3>5. \A p \in DOMAIN settings : settings[p] = before.settings[p]
      BY <3>2, <3>4 DEF EditsInv, SettingsInv
    <3> QED
      BY <3>5 DEF EditsInv, Stored
  <2> QED
    BY <2>1, <2>2
<1> QED
  BY <1>1, <1>2, <1>3, EditsTyped, PTL DEF EditsSpec
=============================================================================
