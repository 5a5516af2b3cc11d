-------------------------- MODULE MailPath_proofs --------------------------
(***************************************************************************)
(* Theorems about MailPath for every limit of lines and redirects and      *)
(* every set of hosts.                                                     *)
(*                                                                         *)
(* Records are read, and texts are put together, by recursive functions.   *)
(* What they give is proved by taking the least number for which it would  *)
(* not hold (Least).                                                       *)
(***************************************************************************)
EXTENDS MailPath, SequenceTheorems, WellFoundedInduction, TLAPS

-----------------------------------------------------------------------------
(* Numbers.                                                                *)

LEMMA Least ==
    ASSUME NEW T \in SUBSET Nat, T # {}
    PROVE  \E x \in T : \A y \in T : x <= y
<1>1. PICK x \in T : \A y \in T : <<y, x>> \notin OpToRel(<, Nat)
    BY NatLessThanWellFounded, WFMin
<1>2. \A y \in T : ~(y < x)
    BY <1>1, Zenon DEF OpToRel
<1> QED
    BY <1>2

LEMMA MinIs ==
    ASSUME NEW T \in SUBSET Nat, T # {}
    PROVE  Min(T) \in T /\ \A y \in T : Min(T) <= y
BY Least DEF Min

LEMMA MinIsEqual ==
    ASSUME NEW T \in SUBSET Nat, NEW x \in T, \A y \in T : x <= y
    PROVE  Min(T) = x
<1>1. Min(T) \in T /\ \A y \in T : Min(T) <= y
    BY MinIs
<1>2. Min(T) <= x /\ x <= Min(T) /\ x \in Nat /\ Min(T) \in Nat
    BY <1>1
<1> QED
    BY <1>2

LEMMA MaxIs ==
    ASSUME NEW n \in Nat, NEW T \in SUBSET (1 .. n), T # {}
    PROVE  Max(T) \in T /\ \A y \in T : Max(T) >= y
<1> DEFINE D == {d \in Nat : n - d \in T}
<1>1. PICK y \in T : TRUE
    OBVIOUS
<1>2. n - y \in D
    <2>1. n - y \in Nat /\ n - (n - y) = y
        OBVIOUS
    <2> QED
        BY <2>1
<1>3. PICK d \in D : \A e \in D : d <= e
    BY <1>2, Least
<1>4. n - d \in T
    BY <1>3
<1>5. ASSUME NEW z \in T
      PROVE  n - d >= z
    <2>1. n - z \in Nat /\ n - (n - z) = z
        OBVIOUS
    <2>2. d <= n - z
        BY <1>3, <2>1
    <2> QED
        BY <2>2
<1>6. \E x \in T : \A z \in T : x >= z
    BY <1>4, <1>5
<1> QED
    BY <1>6 DEF Max

LEMMA MinOfSPF == \A T : V!Min(T) = Min(T)
BY DEF V!Min, Min

-----------------------------------------------------------------------------
(* The record of a host.                                                   *)

LEMMA TermKinds ==
    ASSUME NEW t \in V!Term
    PROVE  /\ t.kind \in {"all", "ip", "redirect", "modifier", "bad", "empty"}
           /\ t.kind \in {"all", "ip"} => t.q \in V!Qualifier
           /\ t.kind = "ip" => t.contains \in {"yes", "no", "misfit"}
           /\ t.kind = "redirect" => t.to \in Hosts
BY DEF V!Term, V!All, V!IP, V!Redirect, V!Plain

IsUpto(f, terms, n) ==
    f = [i \in 0 .. n |->
          IF i = 0 THEN V!Parsed(<<>>, <<>>, "reading")
          ELSE IF f[i - 1].outcome # "reading" THEN f[i - 1]
          ELSE V!ReadTerm(f[i - 1], terms[i])]

LEMMA UptoExists ==
    ASSUME NEW terms, NEW N \in Nat
    PROVE  \E f : IsUpto(f, terms, N)
<1> DEFINE T == {n \in Nat : ~ \E f : IsUpto(f, terms, n)}
<1> SUFFICES ASSUME T # {}
             PROVE  FALSE
    OBVIOUS
<1>1. PICK n \in T : \A m \in T : n <= m
    BY Least
<1>2. CASE n = 0
    <2> DEFINE f == [i \in 0 .. 0 |-> V!Parsed(<<>>, <<>>, "reading")]
    <2>1. f = [i \in 0 .. 0 |->
          IF i = 0 THEN V!Parsed(<<>>, <<>>, "reading")
          ELSE IF f[i - 1].outcome # "reading" THEN f[i - 1]
          ELSE V!ReadTerm(f[i - 1], terms[i])]
        OBVIOUS
    <2>2. IsUpto(f, terms, 0)
        BY <2>1 DEF IsUpto
    <2> QED
        BY <1>1, <1>2, <2>2
<1>3. CASE n > 0
    <2>1. n - 1 \in Nat /\ n - 1 \notin T
        BY <1>1, <1>3
    <2>2. PICK f : IsUpto(f, terms, n - 1)
        BY <2>1
    <2> DEFINE g == [i \in 0 .. n |->
                      IF i < n THEN f[i]
                      ELSE IF f[n - 1].outcome # "reading" THEN f[n - 1]
                      ELSE V!ReadTerm(f[n - 1], terms[n])]
    <2>3. \A i \in 0 .. n - 1 :
             f[i] = IF i = 0 THEN V!Parsed(<<>>, <<>>, "reading")
                    ELSE IF f[i - 1].outcome # "reading" THEN f[i - 1]
                    ELSE V!ReadTerm(f[i - 1], terms[i])
        BY <2>2 DEF IsUpto
    <2>4. \A i \in 0 .. n :
             g[i] = IF i = 0 THEN V!Parsed(<<>>, <<>>, "reading")
                    ELSE IF g[i - 1].outcome # "reading" THEN g[i - 1]
                    ELSE V!ReadTerm(g[i - 1], terms[i])
        <3>1. \A i \in 0 .. n - 1 : g[i] = f[i]
            BY <1>1
        <3>2. g[n] = IF f[n - 1].outcome # "reading" THEN f[n - 1]
                     ELSE V!ReadTerm(f[n - 1], terms[n])
            BY <1>1
        <3> HIDE DEF g
        <3> SUFFICES ASSUME NEW i \in 0 .. n
                     PROVE  g[i] = IF i = 0 THEN V!Parsed(<<>>, <<>>, "reading")
                                   ELSE IF g[i - 1].outcome # "reading" THEN g[i - 1]
                                   ELSE V!ReadTerm(g[i - 1], terms[i])
            OBVIOUS
        <3>3. CASE i = 0
            BY <1>1, <1>3, <2>3, <3>1, <3>3
        <3>4. CASE i # 0 /\ i < n
            <4>1. i \in 0 .. n - 1 /\ i - 1 \in 0 .. n - 1
                BY <1>1, <3>4
            <4>2. g[i] = f[i] /\ g[i - 1] = f[i - 1]
                BY <3>1, <4>1
            <4> QED
                BY <2>3, <3>4, <4>1, <4>2
        <3>5. CASE i = n
            <4>1. g[n - 1] = f[n - 1]
                BY <1>1, <1>3, <3>1
            <4> QED
                BY <1>3, <3>2, <3>5, <4>1
        <3> QED
            BY <1>1, <3>3, <3>4, <3>5
    <2>5. IsUpto(g, terms, n)
        <3>1. g = [i \in 0 .. n |-> g[i]]
            OBVIOUS
        <3> HIDE DEF g
        <3> QED
            BY <2>4, <3>1 DEF IsUpto
    <2> QED
        BY <1>1, <2>5
<1> QED
    BY <1>1, <1>2, <1>3

Upto(terms) ==
    CHOOSE f : f = [i \in 0 .. Len(terms) |->
        IF i = 0 THEN V!Parsed(<<>>, <<>>, "reading")
        ELSE IF f[i - 1].outcome # "reading" THEN f[i - 1]
        ELSE V!ReadTerm(f[i - 1], terms[i])]

LEMMA ReadRecordIsUpto == \A terms : V!ReadRecord(terms) = Upto(terms)[Len(terms)]
BY DEF V!ReadRecord, Upto

LEMMA UptoIs ==
    ASSUME NEW terms, Len(terms) \in Nat
    PROVE  /\ Upto(terms)[0] = V!Parsed(<<>>, <<>>, "reading")
           /\ \A i \in 1 .. Len(terms) :
                 Upto(terms)[i] =
                    IF Upto(terms)[i - 1].outcome # "reading" THEN Upto(terms)[i - 1]
                    ELSE V!ReadTerm(Upto(terms)[i - 1], terms[i])
<1>1. IsUpto(Upto(terms), terms, Len(terms))
    BY UptoExists, Zenon DEF Upto, IsUpto
<1>2. \A i \in 0 .. Len(terms) :
         Upto(terms)[i] =
           IF i = 0 THEN V!Parsed(<<>>, <<>>, "reading")
           ELSE IF Upto(terms)[i - 1].outcome # "reading" THEN Upto(terms)[i - 1]
           ELSE V!ReadTerm(Upto(terms)[i - 1], terms[i])
    BY <1>1 DEF IsUpto
<1> QED
    BY <1>2

\* The first member of P in d is the first one in terms up to i, or there is none in
\* either.
SameFirst(d, terms, i, P) ==
    \/ /\ \A k \in 1 .. Len(d) : d[k] \notin P
       /\ \A k \in 1 .. i : terms[k] \notin P
    \/ \E k \in 1 .. Len(d), p \in 1 .. i :
          /\ d[k] = terms[p] /\ d[k] \in P
          /\ \A j \in 1 .. k - 1 : d[j] \notin P
          /\ \A j \in 1 .. p - 1 : terms[j] \notin P

LEMMA SameFirstAppend ==
    ASSUME NEW S, NEW d \in Seq(S), NEW terms \in Seq(S), NEW i \in 1 .. Len(terms), NEW P,
           SameFirst(d, terms, i - 1, P)
    PROVE  SameFirst(Append(d, terms[i]), terms, i, P)
<1> DEFINE e == Append(d, terms[i])
<1>1. /\ e \in Seq(S) /\ Len(e) = Len(d) + 1 /\ e[Len(d) + 1] = terms[i]
      /\ \A k \in 1 .. Len(d) : e[k] = d[k]
    OBVIOUS
<1>2. i \in Nat /\ Len(d) \in Nat
    OBVIOUS
<1> HIDE DEF e
<1>3. CASE /\ \A k \in 1 .. Len(d) : d[k] \notin P
           /\ \A k \in 1 .. i - 1 : terms[k] \notin P
    <2>1. CASE terms[i] \in P
        <3>1. /\ Len(d) + 1 \in 1 .. Len(e) /\ i \in 1 .. i
              /\ e[Len(d) + 1] = terms[i] /\ e[Len(d) + 1] \in P
              /\ \A j \in 1 .. Len(d) + 1 - 1 : e[j] \notin P
            BY <1>1, <1>2, <1>3, <2>1
        <3> QED
            BY <1>3, <3>1 DEF SameFirst, e
    <2>2. CASE terms[i] \notin P
        <3>1. \A k \in 1 .. Len(e) : e[k] \notin P
            BY <1>1, <1>2, <1>3, <2>2
        <3>2. \A k \in 1 .. i : terms[k] \notin P
            BY <1>2, <1>3, <2>2
        <3> QED
            BY <3>1, <3>2 DEF SameFirst, e
    <2> QED
        BY <2>1, <2>2
<1>4. CASE \E k \in 1 .. Len(d), p \in 1 .. i - 1 :
              /\ d[k] = terms[p] /\ d[k] \in P
              /\ \A j \in 1 .. k - 1 : d[j] \notin P
              /\ \A j \in 1 .. p - 1 : terms[j] \notin P
    <2>1. PICK k \in 1 .. Len(d), p \in 1 .. i - 1 :
              /\ d[k] = terms[p] /\ d[k] \in P
              /\ \A j \in 1 .. k - 1 : d[j] \notin P
              /\ \A j \in 1 .. p - 1 : terms[j] \notin P
        BY <1>4
    <2>2. k \in 1 .. Len(e) /\ p \in 1 .. i /\ \A j \in 1 .. k - 1 : j \in 1 .. Len(d)
        BY <1>1, <1>2, <2>1
    <2>3. /\ e[k] = terms[p] /\ e[k] \in P
          /\ \A j \in 1 .. k - 1 : e[j] \notin P
        BY <1>1, <2>1, <2>2
    <2> QED
        BY <2>1, <2>2, <2>3 DEF SameFirst, e
<1> QED
    BY <1>3, <1>4 DEF SameFirst

LEMMA SameFirstSkip ==
    ASSUME NEW S, NEW d \in Seq(S), NEW terms \in Seq(S), NEW i \in 1 .. Len(terms), NEW P,
           SameFirst(d, terms, i - 1, P), terms[i] \notin P
    PROVE  SameFirst(d, terms, i, P)
<1>1. CASE /\ \A k \in 1 .. Len(d) : d[k] \notin P
           /\ \A k \in 1 .. i - 1 : terms[k] \notin P
    <2>1. \A k \in 1 .. i : terms[k] \notin P
        BY <1>1
    <2> QED
        BY <1>1, <2>1 DEF SameFirst
<1>2. CASE \E k \in 1 .. Len(d), p \in 1 .. i - 1 :
              /\ d[k] = terms[p] /\ d[k] \in P
              /\ \A j \in 1 .. k - 1 : d[j] \notin P
              /\ \A j \in 1 .. p - 1 : terms[j] \notin P
    <2>1. \A p \in 1 .. i - 1 : p \in 1 .. i
        OBVIOUS
    <2> QED
        BY <1>2, <2>1, Zenon DEF SameFirst
<1> QED
    BY <1>1, <1>2, Zenon DEF SameFirst

Decides(t) == t.kind = "all" \/ (t.kind = "ip" /\ t.contains # "no")
DecidingTerm == {t \in V!Term : Decides(t)}
RedirectTerm == {t \in V!Term : t.kind = "redirect"}

PlainUpto(terms, i) == \A j \in 1 .. i : terms[j].kind \in {"ip", "redirect", "modifier"}

\* What the terms up to i have been read into.
Reading(so, terms, i) ==
    /\ so.directives \in Seq(V!Term) /\ so.modifiers \in Seq(V!Term)
    /\ \A k \in 1 .. Len(so.directives) : so.directives[k].kind \in {"ip", "all"}
    /\ \/ /\ so.outcome = "reading"
          /\ PlainUpto(terms, i)
          /\ SameFirst(so.directives, terms, i, DecidingTerm)
          /\ SameFirst(so.modifiers, terms, i, RedirectTerm)
       \/ \E p \in 1 .. i :
             /\ PlainUpto(terms, p - 1)
             /\ \/ /\ terms[p].kind = "all" /\ so.outcome = "read"
                   /\ SameFirst(so.directives, terms, p, DecidingTerm)
                   /\ so.modifiers = <<>>
                \/ terms[p].kind = "bad" /\ so.outcome = "permerror"
                \/ terms[p].kind = "empty" /\ so.outcome = "panic"

LEMMA ReadingStep ==
    ASSUME NEW terms \in Seq(V!Term), NEW i \in 1 .. Len(terms), NEW so,
           so.outcome = "reading", Reading(so, terms, i - 1)
    PROVE  Reading(V!ReadTerm(so, terms[i]), terms, i)
<1> DEFINE t == terms[i]
           to == V!ReadTerm(so, t)
<1>1. t \in V!Term /\ i \in Nat
    OBVIOUS
<1>2. t.kind \in {"all", "ip", "redirect", "modifier", "bad", "empty"}
    BY <1>1, TermKinds
<1>3. /\ so.directives \in Seq(V!Term) /\ so.modifiers \in Seq(V!Term)
      /\ \A k \in 1 .. Len(so.directives) : so.directives[k].kind \in {"ip", "all"}
      /\ PlainUpto(terms, i - 1)
      /\ SameFirst(so.directives, terms, i - 1, DecidingTerm)
      /\ SameFirst(so.modifiers, terms, i - 1, RedirectTerm)
    <2>1. ~ \E p \in 1 .. i - 1 :
             /\ PlainUpto(terms, p - 1)
             /\ \/ /\ terms[p].kind = "all" /\ so.outcome = "read"
                   /\ SameFirst(so.directives, terms, p, DecidingTerm)
                   /\ so.modifiers = <<>>
                \/ terms[p].kind = "bad" /\ so.outcome = "permerror"
                \/ terms[p].kind = "empty" /\ so.outcome = "panic"
        OBVIOUS
    <2> QED
        BY <2>1, Zenon DEF Reading
<1>4. ASSUME t.kind \in {"all", "ip"}
      PROVE  /\ Append(so.directives, t) \in Seq(V!Term)
             /\ \A k \in 1 .. Len(Append(so.directives, t)) :
                   Append(so.directives, t)[k].kind \in {"ip", "all"}
             /\ SameFirst(Append(so.directives, t), terms, i, DecidingTerm)
    <2>1. SameFirst(Append(so.directives, t), terms, i, DecidingTerm)
        BY <1>3, SameFirstAppend
    <2>2. /\ Append(so.directives, t) \in Seq(V!Term)
          /\ \A k \in 1 .. Len(Append(so.directives, t)) :
                Append(so.directives, t)[k].kind \in {"ip", "all"}
        BY <1>1, <1>3, <1>4
    <2> QED
        BY <2>1, <2>2
<1>5. CASE t.kind \in {"redirect", "modifier"}
    <2>1. to = V!Parsed(so.directives, Append(so.modifiers, t), "reading")
        BY <1>5 DEF V!ReadTerm
    <2>2. SameFirst(so.directives, terms, i, DecidingTerm)
        <3>1. t \notin DecidingTerm
            BY <1>5 DEF DecidingTerm, Decides
        <3> QED
            BY <1>3, <3>1, SameFirstSkip
    <2>3. SameFirst(Append(so.modifiers, t), terms, i, RedirectTerm)
        BY <1>3, SameFirstAppend
    <2>4. PlainUpto(terms, i)
        BY <1>3, <1>5 DEF PlainUpto
    <2>5. Append(so.modifiers, t) \in Seq(V!Term)
        BY <1>1, <1>3
    <2> QED
        BY <1>3, <2>1, <2>2, <2>3, <2>4, <2>5 DEF Reading, V!Parsed
<1>6. CASE t.kind = "ip"
    <2>1. to = V!Parsed(Append(so.directives, t), so.modifiers, "reading")
        BY <1>6 DEF V!ReadTerm
    <2>2. SameFirst(so.modifiers, terms, i, RedirectTerm)
        <3>1. t \notin RedirectTerm
            BY <1>6 DEF RedirectTerm
        <3> QED
            BY <1>3, <3>1, SameFirstSkip
    <2>3. PlainUpto(terms, i)
        BY <1>3, <1>6 DEF PlainUpto
    <2> QED
        BY <1>3, <1>4, <1>6, <2>1, <2>2, <2>3 DEF Reading, V!Parsed
<1>7. CASE t.kind = "all"
    <2>1. to = V!Parsed(Append(so.directives, t), <<>>, "read")
        BY <1>7 DEF V!ReadTerm
    <2>2. i \in 1 .. i
        OBVIOUS
    <2> QED
        BY <1>3, <1>4, <1>7, <2>1, <2>2 DEF Reading, V!Parsed
<1>8. CASE t.kind = "bad"
    <2>1. to = V!Parsed(<<>>, <<>>, "permerror")
        BY <1>8 DEF V!ReadTerm
    <2>2. i \in 1 .. i
        OBVIOUS
    <2> QED
        BY <1>3, <1>8, <2>1, <2>2 DEF Reading, V!Parsed
<1>9. CASE t.kind = "empty"
    <2>1. to = V!Parsed(<<>>, <<>>, "panic")
        BY <1>9 DEF V!ReadTerm
    <2>2. i \in 1 .. i
        OBVIOUS
    <2> QED
        BY <1>3, <1>9, <2>1, <2>2 DEF Reading, V!Parsed
<1> QED
    BY <1>2, <1>5, <1>6, <1>7, <1>8, <1>9

LEMMA ReadingAlways ==
    ASSUME NEW terms \in Seq(V!Term), NEW i \in 0 .. Len(terms)
    PROVE  Reading(Upto(terms)[i], terms, i)
<1> DEFINE T == {n \in Nat : n <= Len(terms) /\ ~Reading(Upto(terms)[n], terms, n)}
<1> SUFFICES ASSUME T # {}
             PROVE  FALSE
    OBVIOUS
<1>1. PICK n \in T : \A m \in T : n <= m
    BY Least
<1>2. n \in Nat /\ n <= Len(terms) /\ ~Reading(Upto(terms)[n], terms, n) /\ Len(terms) \in Nat
    BY <1>1
<1>3. CASE n = 0
    <2>1. Upto(terms)[0] = V!Parsed(<<>>, <<>>, "reading")
        BY UptoIs
    <2>2. Reading(V!Parsed(<<>>, <<>>, "reading"), terms, 0)
        BY DEF Reading, V!Parsed, PlainUpto, SameFirst
    <2> QED
        BY <1>2, <1>3, <2>1, <2>2
<1>4. CASE n > 0
    <2>1. n \in 1 .. Len(terms) /\ n - 1 \in Nat /\ n - 1 \notin T
        BY <1>1, <1>2, <1>4
    <2>2. Reading(Upto(terms)[n - 1], terms, n - 1)
        BY <1>2, <2>1
    <2>3. Upto(terms)[n] =
            IF Upto(terms)[n - 1].outcome # "reading" THEN Upto(terms)[n - 1]
            ELSE V!ReadTerm(Upto(terms)[n - 1], terms[n])
        BY <1>2, <2>1, UptoIs
    <2>4. CASE Upto(terms)[n - 1].outcome = "reading"
        BY <1>2, <2>1, <2>2, <2>3, <2>4, ReadingStep
    <2>5. CASE Upto(terms)[n - 1].outcome # "reading"
        <3> DEFINE so == Upto(terms)[n - 1]
        <3> HIDE DEF so
        <3>1. Reading(so, terms, n - 1) /\ so.outcome # "reading"
            BY <2>2, <2>5 DEF so
        <3>2. \A p \in 1 .. n - 1 : p \in 1 .. n
            BY <1>2
        <3>3. Reading(so, terms, n)
            BY <3>1, <3>2 DEF Reading
        <3> QED
            BY <1>2, <2>3, <2>5, <3>3 DEF so
    <2> QED
        BY <2>4, <2>5
<1> QED
    BY <1>2, <1>3, <1>4

-----------------------------------------------------------------------------
(* What a record says.                                                     *)

\* The terms up to n, and no more, are heeded, and none of them is flawed.
HeededUpto(terms, n) ==
    \/ n = Len(terms) /\ PlainUpto(terms, n)
    \/ n \in 1 .. Len(terms) /\ PlainUpto(terms, n - 1) /\ terms[n].kind = "all"

Heeded(terms) == {i \in DOMAIN terms : \A j \in 1 .. i - 1 : terms[j].kind # "all"}

LEMMA HeededIs ==
    ASSUME NEW terms \in Seq(V!Term), NEW n \in 0 .. Len(terms), HeededUpto(terms, n)
    PROVE  /\ Heeded(terms) = 1 .. n
           /\ \A i \in 1 .. n : terms[i].kind \in {"ip", "redirect", "modifier", "all"}
<1>1. Len(terms) \in Nat /\ DOMAIN terms = 1 .. Len(terms) /\ n \in Nat
    OBVIOUS
<1>2. CASE n = Len(terms) /\ PlainUpto(terms, n)
    <2>1. \A i \in 1 .. n : terms[i].kind \in {"ip", "redirect", "modifier"}
        BY <1>2 DEF PlainUpto
    <2>2. \A i \in 1 .. n : i \in Heeded(terms)
        BY <1>1, <1>2, <2>1 DEF Heeded
    <2>3. \A i \in Heeded(terms) : i \in 1 .. n
        BY <1>1, <1>2 DEF Heeded
    <2> QED
        BY <2>1, <2>2, <2>3
<1>3. CASE n \in 1 .. Len(terms) /\ PlainUpto(terms, n - 1) /\ terms[n].kind = "all"
    <2>1. \A i \in 1 .. n - 1 : terms[i].kind \in {"ip", "redirect", "modifier"}
        BY <1>3 DEF PlainUpto
    <2>2. \A i \in 1 .. n : i \in Heeded(terms)
        BY <1>1, <1>3, <2>1 DEF Heeded
    <2>3. \A i \in Heeded(terms) : i \in 1 .. n
        BY <1>1, <1>3 DEF Heeded
    <2>4. \A i \in 1 .. n : i \in 1 .. n - 1 \/ i = n
        BY <1>1
    <2> QED
        BY <1>3, <2>1, <2>2, <2>3, <2>4
<1> QED
    BY <1>2, <1>3 DEF HeededUpto

LEMMA MeaningFlawed ==
    ASSUME NEW terms \in Seq(V!Term), NEW p \in 1 .. Len(terms),
           PlainUpto(terms, p - 1), terms[p].kind \in {"bad", "empty"}
    PROVE  V!Meaning(terms) = terms[p].kind
<1> DEFINE flawed == {i \in Heeded(terms) : terms[i].kind \in {"bad", "empty"}}
<1>1. p \in flawed /\ flawed \in SUBSET Nat
    BY DEF Heeded, PlainUpto
<1>2. \A i \in flawed : p <= i
    BY DEF PlainUpto, Heeded
<1>3. Min(flawed) = p
    BY <1>1, <1>2, MinIsEqual
<1>4. V!Min(flawed) = p
    BY <1>3, MinOfSPF
<1> QED
    BY <1>1, <1>4 DEF V!Meaning, Heeded

\* Where the members of P are, among the first n of s.
Hits(s, n, P) == {k \in 1 .. n : s[k] \in P}

\* The meaning of a record without a flaw.
LEMMA MeaningSound ==
    ASSUME NEW terms \in Seq(V!Term), NEW n \in 0 .. Len(terms), HeededUpto(terms, n)
    PROVE  V!Meaning(terms) =
             IF Hits(terms, n, DecidingTerm) # {}
             THEN V!DirectiveResult(terms[Min(Hits(terms, n, DecidingTerm))])
             ELSE IF Hits(terms, n, RedirectTerm) # {}
             THEN terms[Min(Hits(terms, n, RedirectTerm))].to
             ELSE "neutral"
<1>1. /\ Heeded(terms) = 1 .. n
      /\ \A i \in 1 .. n : terms[i].kind \notin {"bad", "empty"}
    BY HeededIs
<1>2. {i \in DOMAIN terms : \A j \in 1 .. i - 1 : terms[j].kind # "all"} = 1 .. n
    BY <1>1 DEF Heeded
<1>3. \A i \in 1 .. n : terms[i] \in V!Term
    OBVIOUS
<1> DEFINE decide == {i \in 1 .. n : Decides(terms[i])}
           refer == {i \in 1 .. n : terms[i].kind = "redirect"}
<1>4. decide = Hits(terms, n, DecidingTerm)
    BY <1>3 DEF Hits, DecidingTerm
<1>5. refer = Hits(terms, n, RedirectTerm)
    BY <1>3 DEF Hits, RedirectTerm
<1>6. V!Meaning(terms) =
        IF \E i \in 1 .. n : Decides(terms[i]) THEN V!DirectiveResult(terms[Min(decide)])
        ELSE IF \E i \in 1 .. n : terms[i].kind = "redirect" THEN terms[Min(refer)].to
        ELSE "neutral"
    BY <1>1, <1>2, MinOfSPF DEF V!Meaning, Decides
<1>7. (\E i \in 1 .. n : Decides(terms[i])) <=> decide # {}
    OBVIOUS
<1>8. (\E i \in 1 .. n : terms[i].kind = "redirect") <=> refer # {}
    OBVIOUS
<1> HIDE DEF decide, refer
<1> QED
    BY <1>4, <1>5, <1>6, <1>7, <1>8

LEMMA SameFirstIs ==
    ASSUME NEW S, NEW d \in Seq(S), NEW terms \in Seq(S), NEW i \in 0 .. Len(terms), NEW P,
           SameFirst(d, terms, i, P)
    PROVE  LET hits == Hits(d, Len(d), P)
               upto == Hits(terms, i, P)
           IN  /\ hits = {} <=> upto = {}
               /\ hits # {} => /\ Min(hits) \in hits /\ Min(upto) \in upto
                               /\ d[Min(hits)] = terms[Min(upto)]
<1> DEFINE hits == Hits(d, Len(d), P)
           upto == Hits(terms, i, P)
<1>1. CASE /\ \A k \in 1 .. Len(d) : d[k] \notin P
           /\ \A k \in 1 .. i : terms[k] \notin P
    BY <1>1 DEF Hits
<1>2. CASE \E k \in 1 .. Len(d), p \in 1 .. i :
              /\ d[k] = terms[p] /\ d[k] \in P
              /\ \A j \in 1 .. k - 1 : d[j] \notin P
              /\ \A j \in 1 .. p - 1 : terms[j] \notin P
    <2>1. PICK k \in 1 .. Len(d), p \in 1 .. i :
              /\ d[k] = terms[p] /\ d[k] \in P
              /\ \A j \in 1 .. k - 1 : d[j] \notin P
              /\ \A j \in 1 .. p - 1 : terms[j] \notin P
        BY <1>2
    <2>2. hits \in SUBSET Nat /\ upto \in SUBSET Nat /\ k \in hits /\ p \in upto
        BY <2>1 DEF Hits
    <2>3. \A j \in hits : k <= j
        BY <2>1 DEF Hits
    <2>4. \A j \in upto : p <= j
        BY <2>1 DEF Hits
    <2>5. Min(hits) = k
        BY <2>2, <2>3, MinIsEqual
    <2>6. Min(upto) = p
        BY <2>2, <2>4, MinIsEqual
    <2> QED
        BY <2>1, <2>2, <2>5, <2>6
<1> QED
    BY <1>1, <1>2 DEF SameFirst

Says(terms, step) ==
    LET said == V!Meaning(terms) IN
    \/ said \in {"pass", "fail", "softfail", "neutral", "permerror"} /\ step = V!Final(said)
    \/ said = "bad" /\ step = V!Final("permerror")
    \/ said = "empty" /\ step = V!Final("panic")
    \/ said \in Hosts /\ step = V!FollowTo(said)

LEMMA SaysSound ==
    ASSUME NEW terms \in Seq(V!Term), NEW n \in 0 .. Len(terms), HeededUpto(terms, n),
           NEW so, so = V!ReadRecord(terms), so.outcome \in {"reading", "read"},
           so.directives \in Seq(V!Term), so.modifiers \in Seq(V!Term),
           \A k \in 1 .. Len(so.directives) : so.directives[k].kind \in {"ip", "all"},
           SameFirst(so.directives, terms, n, DecidingTerm),
           \/ SameFirst(so.modifiers, terms, n, RedirectTerm)
           \/ so.modifiers = <<>> /\ \E k \in 1 .. n : terms[k] \in DecidingTerm
    PROVE  Says(terms, V!EvaluateRecord(terms))
<1> DEFINE decide == Hits(terms, n, DecidingTerm)
           refer == Hits(terms, n, RedirectTerm)
           deciding == Hits(so.directives, Len(so.directives), DecidingTerm)
           redirects == Hits(so.modifiers, Len(so.modifiers), RedirectTerm)
<1>1. V!Deciding(so.directives) = deciding
    BY DEF V!Deciding, Hits, DecidingTerm, Decides
<1>2. V!Redirects(so.modifiers) = redirects
    BY DEF V!Redirects, Hits, RedirectTerm
<1>3. V!EvaluateRecord(terms) =
        IF deciding # {} THEN V!Final(V!DirectiveResult(so.directives[Min(deciding)]))
        ELSE IF redirects # {} THEN V!FollowTo(so.modifiers[Min(redirects)].to)
        ELSE V!Final("neutral")
    BY <1>1, <1>2, MinOfSPF DEF V!EvaluateRecord
<1>4. V!Meaning(terms) =
        IF decide # {} THEN V!DirectiveResult(terms[Min(decide)])
        ELSE IF refer # {} THEN terms[Min(refer)].to
        ELSE "neutral"
    BY MeaningSound
<1>5. /\ deciding = {} <=> decide = {}
      /\ deciding # {} => /\ Min(deciding) \in deciding /\ Min(decide) \in decide
                          /\ so.directives[Min(deciding)] = terms[Min(decide)]
    BY SameFirstIs
<1>6. (\E k \in 1 .. n : terms[k] \in DecidingTerm) => decide # {}
    BY DEF Hits
<1>7. SameFirst(so.modifiers, terms, n, RedirectTerm) =>
         /\ redirects = {} <=> refer = {}
         /\ redirects # {} => /\ Min(redirects) \in redirects /\ Min(refer) \in refer
                              /\ so.modifiers[Min(redirects)] = terms[Min(refer)]
    <2> DEFINE d == so.modifiers
    <2>1. d \in Seq(V!Term)
        OBVIOUS
    <2> HIDE DEF d
    <2>2. SameFirst(d, terms, n, RedirectTerm) =>
            /\ Hits(d, Len(d), RedirectTerm) = {} <=> refer = {}
            /\ Hits(d, Len(d), RedirectTerm) # {} =>
                  /\ Min(Hits(d, Len(d), RedirectTerm)) \in Hits(d, Len(d), RedirectTerm)
                  /\ Min(refer) \in refer
                  /\ d[Min(Hits(d, Len(d), RedirectTerm))] = terms[Min(refer)]
        BY <2>1, SameFirstIs
    <2> QED
        BY <2>2 DEF d
<1> HIDE DEF decide, refer, deciding, redirects
<1>8. CASE deciding # {}
    <2> DEFINE t == so.directives[Min(deciding)]
    <2>1. t \in DecidingTerm
        BY <1>5, <1>8 DEF deciding, Hits
    <2>2. V!EvaluateRecord(terms) = V!Final(V!DirectiveResult(t))
        BY <1>3, <1>8
    <2>3. V!Meaning(terms) = V!DirectiveResult(t)
        BY <1>4, <1>5, <1>8
    <2>4. t.q \in V!Qualifier
        BY <2>1, TermKinds DEF DecidingTerm, Decides
    <2>5. V!DirectiveResult(t) \in {"pass", "fail", "softfail", "neutral", "permerror"}
        BY <2>4 DEF V!DirectiveResult, V!MapQualifierToResult, V!Qualifier
    <2> QED
        BY <2>2, <2>3, <2>5 DEF Says
<1>9. CASE deciding = {}
    <2>1. SameFirst(so.modifiers, terms, n, RedirectTerm)
        BY <1>5, <1>6, <1>9
    <2>2. /\ redirects = {} <=> refer = {}
          /\ redirects # {} => /\ Min(redirects) \in redirects /\ Min(refer) \in refer
                               /\ so.modifiers[Min(redirects)] = terms[Min(refer)]
        BY <1>7, <2>1
    <2>3. CASE redirects # {}
        <3> DEFINE t == so.modifiers[Min(redirects)]
        <3>1. t \in RedirectTerm
            BY <2>2, <2>3 DEF redirects, Hits
        <3>2. t.to \in Hosts
            BY <3>1, TermKinds DEF RedirectTerm
        <3>3. V!EvaluateRecord(terms) = V!FollowTo(t.to) /\ V!Meaning(terms) = t.to
            BY <1>3, <1>4, <1>5, <1>9, <2>2, <2>3
        <3> QED
            BY <3>2, <3>3 DEF Says
    <2>4. CASE redirects = {}
        BY <1>3, <1>4, <1>5, <1>9, <2>2, <2>4 DEF Says
    <2> QED
        BY <2>3, <2>4
<1> QED
    BY <1>8, <1>9

LEMMA EvaluateRecordSays ==
    ASSUME NEW terms \in Seq(V!Term)
    PROVE  Says(terms, V!EvaluateRecord(terms))
<1> DEFINE so == V!ReadRecord(terms)
           N == Len(terms)
<1>1. N \in 0 .. N /\ N \in Nat
    OBVIOUS
<1>2. Reading(so, terms, N)
    BY <1>1, ReadingAlways, ReadRecordIsUpto
<1> HIDE DEF so
<1>3. CASE /\ so.outcome = "reading"
           /\ PlainUpto(terms, N)
           /\ SameFirst(so.directives, terms, N, DecidingTerm)
           /\ SameFirst(so.modifiers, terms, N, RedirectTerm)
    <2>1. HeededUpto(terms, N)
        BY <1>3 DEF HeededUpto
    <2> QED
        BY <1>1, <1>2, <1>3, <2>1, SaysSound DEF Reading, so
<1>4. ASSUME NEW p \in 1 .. N, PlainUpto(terms, p - 1), terms[p].kind = "all",
             so.outcome = "read", SameFirst(so.directives, terms, p, DecidingTerm),
             so.modifiers = <<>>
      PROVE  Says(terms, V!EvaluateRecord(terms))
    <2>1. HeededUpto(terms, p)
        BY <1>4 DEF HeededUpto
    <2>2. terms[p] \in DecidingTerm /\ p \in 1 .. p /\ p \in 0 .. N
        BY <1>4 DEF DecidingTerm, Decides
    <2> QED
        BY <1>2, <1>4, <2>1, <2>2, SaysSound DEF Reading, so
<1>5. ASSUME NEW p \in 1 .. N, PlainUpto(terms, p - 1),
             \/ terms[p].kind = "bad" /\ so.outcome = "permerror"
             \/ terms[p].kind = "empty" /\ so.outcome = "panic"
      PROVE  Says(terms, V!EvaluateRecord(terms))
    <2>1. V!Meaning(terms) = terms[p].kind
        BY <1>5, MeaningFlawed
    <2>2. V!EvaluateRecord(terms) = V!Final(so.outcome)
        BY <1>5 DEF V!EvaluateRecord, so
    <2> QED
        BY <1>5, <2>1, <2>2 DEF Says
<1> QED
    BY <1>2, <1>3, <1>4, <1>5 DEF Reading

-----------------------------------------------------------------------------
(* The verification.                                                       *)

USE PathAssumption DEF V!SPFAssumption

\* The inductive invariant of SPF.
VerifyInv ==
    /\ V!TypeOK
    /\ V!EvaluatesMeaning
    /\ result = None => count <= MaxRedirects

LEMMA AnswerType ==
    ASSUME NEW max \in Nat, NEW a \in V!Answer(max)
    PROVE  a.terms \in Seq(V!Term) /\ a.records \in {"error", "no", "many", "one"}
<1>1. CASE a \in [records : {"error", "no", "many"}, terms : {<<>>}]
    <2>1. a.records \in {"error", "no", "many"} /\ a.terms = <<>>
        BY <1>1
    <2> QED
        BY <2>1
<1>2. CASE a \in [records : {"one"}, terms : V!BoundedSeq(V!Term, max)]
    <2>1. a.records = "one" /\ a.terms \in V!BoundedSeq(V!Term, max)
        BY <1>2
    <2>2. PICK m \in 0 .. max : a.terms \in [1 .. m -> V!Term]
        BY <2>1 DEF V!BoundedSeq, V!SeqOf
    <2>3. a.terms \in Seq(V!Term)
        BY <2>2
    <2> QED
        BY <2>1, <2>3
<1> QED
    BY <1>1, <1>2, Zenon DEF V!Answer

LEMMA VerifyKeepsInv ==
    ASSUME VerifyInv, V!VerifySPFHost
    PROVE  VerifyInv'
<1> DEFINE step == V!Evaluate(answer')
<1>1. /\ result = None /\ count \in Nat /\ count <= MaxRedirects /\ host \in Hosts
      /\ answer'.terms \in Seq(V!Term)
      /\ answer'.records \in {"error", "no", "many", "one"}
    <2>1. PICK max \in Nat : answer' \in V!Answer(max)
        BY DEF V!VerifySPFHost
    <2> QED
        BY <2>1, AnswerType DEF VerifyInv, V!TypeOK, V!VerifySPFHost
<1>2. /\ answer'.records = "error" => step = V!Final("temperror")
      /\ answer'.records = "no" => step = V!Final("none")
      /\ answer'.records = "many" => step = V!Final("permerror")
      /\ answer'.records = "one" => step = V!EvaluateRecord(answer'.terms)
    BY DEF V!Evaluate
<1>3. answer'.records = "one" => Says(answer'.terms, step)
    BY <1>1, <1>2, EvaluateRecordSays
<1>4. \/ /\ step.result \in {"none", "neutral", "pass", "fail", "softfail", "temperror",
                              "permerror", "panic"}
         /\ step.result # None
      \/ step.result = None /\ step.to \in Hosts
    BY <1>1, <1>2, <1>3 DEF Says, V!Final, V!FollowTo
<1>5. IF step.result = None THEN V!Follow(step.to)
      ELSE result' = step.result /\ UNCHANGED <<host, count>>
    BY DEF V!VerifySPFHost
<1> HIDE DEF step
<1>6. V!TypeOK' /\ (result = None => count <= MaxRedirects)'
    <2>1. CASE step.result # None
        BY <1>1, <1>4, <1>5, <2>1 DEF V!TypeOK
    <2>2. CASE step.result = None
        BY <1>1, <1>4, <1>5, <2>2 DEF V!TypeOK, V!Follow
    <2> QED
        BY <2>1, <2>2
<1>7. V!EvaluatesMeaning'
    <2> SUFFICES ASSUME answer'.records = "one"
                 PROVE  V!EvaluatesMeaning'
        BY DEF V!EvaluatesMeaning
    <2> DEFINE said == V!Meaning(answer'.terms)
    <2>1. \/ said \in {"pass", "fail", "softfail", "neutral", "permerror"} /\ step = V!Final(said)
          \/ said = "bad" /\ step = V!Final("permerror")
          \/ said = "empty" /\ step = V!Final("panic")
          \/ said \in Hosts /\ step = V!FollowTo(said)
        BY <1>3 DEF Says
    <2> HIDE DEF said
    <2>2. \/ said \in {"pass", "fail", "softfail", "neutral", "permerror"} /\ result' = said
          \/ said = "bad" /\ result' = "permerror"
          \/ said = "empty" /\ result' = "panic"
          \/ said \in Hosts /\ result' = None /\ host' = said /\ count' <= MaxRedirects
          \/ said \in Hosts /\ result' = "temperror" /\ count' > MaxRedirects
        BY <1>1, <1>5, <2>1 DEF V!Final, V!FollowTo, V!Follow
    <2> QED
        BY <2>2 DEF V!EvaluatesMeaning, said
<1> QED
    BY <1>6, <1>7 DEF VerifyInv

\* While a verification has no result, no more redirects than the limit were followed:
\* with it the types and the meaning of the last record are kept by every lookup
\* (verifySPFHost).
THEOREM VerifyInductive == PathSpec => []VerifyInv
<1>1. PathInit => VerifyInv
    BY DEF PathInit, V!Init, VerifyInv, V!TypeOK, V!EvaluatesMeaning
<1>2. VerifyInv /\ [PathNext]_<<vars, spfVars>> => VerifyInv'
    <2> SUFFICES ASSUME VerifyInv, [PathNext]_<<vars, spfVars>>
                 PROVE  VerifyInv'
        OBVIOUS
    <2>1. CASE Verify
        BY <2>1, VerifyKeepsInv DEF Verify
    <2>2. CASE Begin
        BY <2>2 DEF Begin, VerifyInv, V!TypeOK, V!EvaluatesMeaning
    <2>3. CASE UNCHANGED spfVars
        BY <2>3 DEF spfVars, VerifyInv, V!TypeOK, V!EvaluatesMeaning
    <2> QED
        BY <2>1, <2>2, <2>3 DEF PathNext, Take, Handle
<1> QED
    BY <1>1, <1>2, PTL DEF PathSpec

\* What the SMTP server takes a mail on is what the SPF record of the sender's domain,
\* or of the host it redirects to, says of the address: a term decides, spoils the
\* record or redirects as its place in the record wants, however the record is read
\* into directives and modifiers, and no more redirects are followed than the limit
\* (readRecord, evaluateRecord, verifySPFHost).
THEOREM VerdictIsMeaning == PathSpec => []EvaluatesMeaning
<1>1. VerifyInv => EvaluatesMeaning
    BY DEF VerifyInv, EvaluatesMeaning
<1> QED
    BY <1>1, VerifyInductive, PTL

HIDE PathAssumption DEF V!SPFAssumption

-----------------------------------------------------------------------------
(* Sequences put together.                                                 *)

LEMMA Concatenated == \A S : \A s, t, u \in Seq(S) : (s \o t) \o u = s \o (t \o u)
<1> SUFFICES ASSUME NEW S, NEW s \in Seq(S), NEW t \in Seq(S), NEW u \in Seq(S)
             PROVE  (s \o t) \o u = s \o (t \o u)
    OBVIOUS
<1> QED
    BY ConcatAssociative

IsFlatten(f, s, n) == f = [i \in 1 .. n |-> IF i = 1 THEN s[i] ELSE f[i - 1] \o s[i]]

LEMMA FlattenExists ==
    ASSUME NEW s, NEW N \in Nat
    PROVE  \E f : IsFlatten(f, s, N)
<1> DEFINE T == {n \in Nat : ~ \E f : IsFlatten(f, s, n)}
<1> SUFFICES ASSUME T # {}
             PROVE  FALSE
    OBVIOUS
<1>1. PICK n \in T : \A m \in T : n <= m
    BY Least
<1>2. CASE n = 0
    <2>1. IsFlatten([i \in 1 .. 0 |-> 0], s, 0)
        BY DEF IsFlatten
    <2> QED
        BY <1>1, <1>2, <2>1
<1>3. CASE n > 0
    <2>1. n - 1 \in Nat /\ n - 1 \notin T
        BY <1>1, <1>3
    <2>2. PICK f : IsFlatten(f, s, n - 1)
        BY <2>1
    <2> DEFINE g == [i \in 1 .. n |-> IF i = n THEN (IF n = 1 THEN s[n] ELSE f[n - 1] \o s[n])
                                     ELSE f[i]]
    <2>3. \A i \in 1 .. n - 1 : f[i] = IF i = 1 THEN s[i] ELSE f[i - 1] \o s[i]
        BY <2>2 DEF IsFlatten
    <2>4. \A i \in 1 .. n : g[i] = IF i = 1 THEN s[i] ELSE g[i - 1] \o s[i]
        BY <1>1, <1>3, <2>3
    <2>5. IsFlatten(g, s, n)
        <3>1. g = [i \in 1 .. n |-> g[i]]
            OBVIOUS
        <3> HIDE DEF g
        <3> QED
            BY <2>4, <3>1 DEF IsFlatten
    <2> QED
        BY <1>1, <2>5
<1> QED
    BY <1>1, <1>2, <1>3

Flatten(s) ==
    CHOOSE flatten : flatten = [i \in 1 .. Len(s) |->
                                  IF i = 1 THEN s[i] ELSE flatten[i - 1] \o s[i]]

LEMMA FlattenSeqIs ==
    ASSUME NEW s
    PROVE  FlattenSeq(s) = IF Len(s) = 0 THEN s ELSE Flatten(s)[Len(s)]
BY DEF FlattenSeq, Flatten

LEMMA FlattenStep ==
    ASSUME NEW s, Len(s) \in Nat, NEW i \in 1 .. Len(s)
    PROVE  Flatten(s)[i] = IF i = 1 THEN s[i] ELSE Flatten(s)[i - 1] \o s[i]
<1>1. IsFlatten(Flatten(s), s, Len(s))
    BY FlattenExists, Zenon DEF Flatten, IsFlatten
<1> QED
    BY <1>1 DEF IsFlatten

LEMMA FlattenType ==
    ASSUME NEW S, NEW s \in Seq(Seq(S))
    PROVE  /\ \A i \in 1 .. Len(s) : Flatten(s)[i] \in Seq(S)
           /\ FlattenSeq(s) \in Seq(S)
<1>1. Len(s) \in Nat /\ \A i \in 1 .. Len(s) : s[i] \in Seq(S)
    OBVIOUS
<1>2. \A i \in 1 .. Len(s) : Flatten(s)[i] \in Seq(S)
    <2> DEFINE T == {i \in 1 .. Len(s) : Flatten(s)[i] \notin Seq(S)}
    <2> SUFFICES ASSUME T # {}
                 PROVE  FALSE
        OBVIOUS
    <2>1. T \in SUBSET Nat
        OBVIOUS
    <2>2. PICK i \in T : \A j \in T : i <= j
        BY <2>1, Least
    <2>3. i \in 1 .. Len(s) /\ Flatten(s)[i] \notin Seq(S)
        BY <2>2
    <2>4. CASE i = 1
        BY <1>1, <2>3, <2>4, FlattenStep
    <2>5. CASE i # 1
        <3>1. i - 1 \in 1 .. Len(s) /\ i - 1 \notin T
            BY <1>1, <2>2, <2>3, <2>5
        <3>2. Flatten(s)[i - 1] \in Seq(S)
            BY <3>1
        <3>3. Flatten(s)[i] = Flatten(s)[i - 1] \o s[i]
            BY <1>1, <2>3, <2>5, FlattenStep
        <3>4. s[i] \in Seq(S)
            BY <1>1, <2>3
        <3> QED
            BY <2>3, <3>2, <3>3, <3>4, ConcatProperties
    <2> QED
        BY <2>4, <2>5
<1>3. FlattenSeq(s) \in Seq(S)
    <2>1. CASE Len(s) = 0
        <3>1. FlattenSeq(s) = s /\ s = <<>>
            BY <2>1, FlattenSeqIs
        <3> QED
            BY <3>1
    <2>2. CASE Len(s) # 0
        <3>1. FlattenSeq(s) = Flatten(s)[Len(s)] /\ Len(s) \in 1 .. Len(s)
            BY <1>1, <2>2, FlattenSeqIs
        <3> QED
            BY <1>2, <3>1
    <2> QED
        BY <2>1, <2>2
<1> QED
    BY <1>2, <1>3

\* A sequence put in front.
LEMMA FlattenCons ==
    ASSUME NEW S, NEW a \in Seq(S), NEW s \in Seq(Seq(S))
    PROVE  \A t \in Seq(Seq(S)) :
             Len(t) = Len(s) + 1 /\ t[1] = a /\ (\A i \in 1 .. Len(s) : t[i + 1] = s[i]) =>
               FlattenSeq(t) = a \o FlattenSeq(s)
<1>1. \A u, v \in Seq(S) : (a \o u) \o v = a \o (u \o v)
    BY Concatenated
<1> SUFFICES ASSUME NEW t \in Seq(Seq(S)), Len(t) = Len(s) + 1, t[1] = a,
                    \A i \in 1 .. Len(s) : t[i + 1] = s[i]
             PROVE  FlattenSeq(t) = a \o FlattenSeq(s)
    OBVIOUS
<1>2. Len(s) \in Nat /\ Len(t) \in Nat
    OBVIOUS
<1>3. Flatten(t)[1] = a
    BY <1>2, FlattenStep
<1>4. \A i \in 1 .. Len(s) : Flatten(t)[i + 1] = a \o Flatten(s)[i]
    <2> DEFINE T == {i \in 1 .. Len(s) : Flatten(t)[i + 1] # a \o Flatten(s)[i]}
    <2> SUFFICES ASSUME T # {}
                 PROVE  FALSE
        OBVIOUS
    <2>1. T \in SUBSET Nat
        OBVIOUS
    <2>2. PICK i \in T : \A j \in T : i <= j
        BY <2>1, Least
    <2>3. i \in 1 .. Len(s) /\ Flatten(t)[i + 1] # a \o Flatten(s)[i]
        BY <2>2
    <2>4. i + 1 \in 1 .. Len(t) /\ i + 1 # 1 /\ (i + 1) - 1 = i
        BY <1>2, <2>3
    <2>5. Flatten(t)[i + 1] = Flatten(t)[i] \o s[i]
        <3>1. Flatten(t)[i + 1] = Flatten(t)[(i + 1) - 1] \o t[i + 1]
            BY <1>2, <2>4, FlattenStep
        <3> QED
            BY <2>3, <2>4, <3>1
    <2>6. CASE i = 1
        <3>1. Flatten(s)[i] = s[i]
            BY <1>2, <2>3, <2>6, FlattenStep
        <3> QED
            BY <1>3, <2>3, <2>5, <2>6, <3>1
    <2>7. CASE i # 1
        <3>1. i - 1 \in 1 .. Len(s) /\ (i - 1) + 1 = i /\ ~(i <= i - 1)
            BY <1>2, <2>3, <2>7
        <3>2. i - 1 \notin T
            BY <2>2, <3>1
        <3>3. Flatten(t)[i] = a \o Flatten(s)[i - 1]
            BY <3>1, <3>2
        <3>4. Flatten(s)[i] = Flatten(s)[i - 1] \o s[i]
            BY <1>2, <2>3, <2>7, FlattenStep
        <3>5. Flatten(s)[i - 1] \in Seq(S)
            BY <3>1, FlattenType
        <3>6. s[i] \in Seq(S)
            BY <2>3
        <3>7. (a \o Flatten(s)[i - 1]) \o s[i] = a \o (Flatten(s)[i - 1] \o s[i])
            BY <1>1, <3>5, <3>6, Zenon
        <3> QED
            BY <2>3, <2>5, <3>3, <3>4, <3>7
    <2> QED
        BY <2>6, <2>7
<1>5. FlattenSeq(t) = Flatten(t)[Len(t)]
    BY <1>2, FlattenSeqIs
<1>6. CASE Len(s) = 0
    <2>1. FlattenSeq(s) = <<>> /\ Len(t) = 1
        BY <1>6, FlattenSeqIs
    <2> QED
        BY <1>3, <1>5, <2>1, ConcatEmptySeq
<1>7. CASE Len(s) # 0
    <2>1. FlattenSeq(s) = Flatten(s)[Len(s)] /\ Len(s) \in 1 .. Len(s)
        BY <1>2, <1>7, FlattenSeqIs
    <2> QED
        BY <1>4, <1>5, <2>1
<1> QED
    BY <1>6, <1>7

\* Sequences of one element each.
LEMMA FlattenOnes ==
    ASSUME NEW S, NEW line \in Seq(S)
    PROVE  FlattenSeq([i \in DOMAIN line |-> <<line[i]>>]) = line
<1> DEFINE s == [i \in 1 .. Len(line) |-> <<line[i]>>]
<1>1. Len(line) \in Nat /\ \A i \in 1 .. Len(line) : line[i] \in S /\ <<line[i]>> \in Seq(S)
    OBVIOUS
<1>2. s \in Seq(Seq(S)) /\ Len(s) = Len(line) /\ \A i \in 1 .. Len(line) : s[i] = <<line[i]>>
    BY <1>1
<1>3. s = [i \in DOMAIN line |-> <<line[i]>>]
    OBVIOUS
<1> HIDE DEF s
<1> DEFINE Good(f, i) == Len(f) = i /\ \A j \in 1 .. i : f[j] = line[j]
<1>4. \A i \in 1 .. Len(s) : Good(Flatten(s)[i], i)
    <2> DEFINE T == {i \in 1 .. Len(s) : ~Good(Flatten(s)[i], i)}
    <2> SUFFICES ASSUME T # {}
                 PROVE  FALSE
        OBVIOUS
    <2>1. T \in SUBSET Nat
        BY <1>1, <1>2
    <2>2. PICK i \in T : \A j \in T : i <= j
        BY <2>1, Least
    <2>3. i \in 1 .. Len(s) /\ ~Good(Flatten(s)[i], i)
        BY <2>2
    <2>4. CASE i = 1
        <3>1. Flatten(s)[i] = <<line[i]>>
            BY <1>1, <1>2, <2>3, <2>4, FlattenStep
        <3> QED
            BY <2>3, <2>4, <3>1
    <2>5. CASE i # 1
        <3>1. i - 1 \in 1 .. Len(s) /\ ~(i <= i - 1)
            BY <1>1, <1>2, <2>3, <2>5
        <3>2. i - 1 \notin T
            BY <2>2, <3>1
        <3>3. Good(Flatten(s)[i - 1], i - 1)
            BY <3>1, <3>2
        <3>4. Flatten(s)[i] = Flatten(s)[i - 1] \o s[i]
            BY <1>1, <1>2, <2>3, <2>5, FlattenStep
        <3>5. s[i] = <<line[i]>> /\ line[i] \in S
            BY <1>1, <1>2, <2>3
        <3>6. Flatten(s)[i - 1] \in Seq(S)
            BY <1>2, <3>1, FlattenType
        <3> DEFINE f == Flatten(s)[i - 1]
        <3>7. f \in Seq(S) /\ Good(f, i - 1)
            BY <3>3, <3>6
        <3> HIDE DEF f
        <3>8. Good(f \o <<line[i]>>, i)
            BY <1>1, <1>2, <2>3, <3>1, <3>5, <3>7
        <3> QED
            BY <2>3, <3>4, <3>5, <3>8 DEF f
    <2> QED
        BY <2>4, <2>5
<1>5. CASE Len(line) = 0
    <2>1. FlattenSeq(s) = s /\ s = <<>> /\ line = <<>>
        BY <1>2, <1>5, FlattenSeqIs, EmptySeq
    <2> QED
        BY <1>3, <2>1
<1>6. CASE Len(line) # 0
    <2>1. FlattenSeq(s) = Flatten(s)[Len(s)] /\ Len(s) \in 1 .. Len(s)
        BY <1>1, <1>2, <1>6, FlattenSeqIs
    <2>2. Flatten(s)[Len(s)] \in Seq(S) /\ Good(Flatten(s)[Len(s)], Len(s))
        BY <1>2, <1>4, <2>1, FlattenType
    <2>3. Flatten(s)[Len(s)] = line
        BY <1>1, <1>2, <2>2, SeqEqual
    <2> QED
        BY <1>3, <2>1, <2>3
<1> QED
    BY <1>5, <1>6

-----------------------------------------------------------------------------
(* Lines on the wire.                                                      *)

Sent == Octet \cup {"CR", "LF"}

LEMMA OctetIs ==
    /\ "." \in Octet /\ ":" \in Octet /\ "m" \in Octet /\ "x" \in Octet /\ "8" \in Octet
    /\ "." \in Sent /\ "CR" \in Sent /\ "LF" \in Sent
    /\ "CR" \notin Octet
    /\ \A e \in Octet : e \in Sent
BY DEF Octet, Sent

LEMMA OctetsSent ==
    ASSUME NEW s \in Seq(Octet)
    PROVE  s \in Seq(Sent)
BY OctetIs

LEMMA CRLFIs ==
    CRLF \in Seq(Sent) /\ Len(CRLF) = 2 /\ CRLF[1] = "CR" /\ CRLF[2] = "LF"
BY OctetIs DEF CRLF

LEMMA PrefixIs ==
    ASSUME NEW S, NEW p \in Seq(S), NEW s \in Seq(S)
    PROVE  IsPrefix(p, s) <=> Len(p) <= Len(s) /\ \A i \in 1 .. Len(p) : s[i] = p[i]
<1>1. Len(p) \in Nat /\ Len(s) \in Nat /\ \A i \in 1 .. Len(s) : s[i] \in S
    OBVIOUS
<1>2. SubSeq(p, 1, Len(p)) = p
    BY SubSeqFull
<1>3. CASE Len(p) <= Len(s)
    <2> DEFINE q == SubSeq(s, 1, Len(p))
    <2>1. \A i \in 1 .. Len(p) : s[i] \in S
        BY <1>1, <1>3
    <2>2. q \in Seq(S) /\ Len(q) = Len(p) /\ \A i \in 1 .. Len(p) : q[i] = s[i]
        BY <1>1, <2>1
    <2>3. IsPrefix(p, s) <=> p = q
        BY <1>2, <1>3 DEF IsPrefix
    <2> HIDE DEF q
    <2>4. p = q <=> \A i \in 1 .. Len(p) : q[i] = p[i]
        BY <2>2, SeqEqual
    <2> QED
        BY <1>3, <2>2, <2>3, <2>4
<1> QED
    BY <1>3 DEF IsPrefix

LEMMA PrefixDot ==
    ASSUME NEW s \in Seq(Sent)
    PROVE  /\ IsPrefix(<<".">>, s) <=> Len(s) > 0 /\ s[1] = "."
           /\ IsPrefix(<<".", ".">>, s) <=> Len(s) > 1 /\ s[1] = "." /\ s[2] = "."
<1> DEFINE dot == <<".">>
           dots == <<".", ".">>
<1>1. dot \in Seq(Sent) /\ Len(dot) = 1 /\ dot[1] = "."
    BY OctetIs
<1>2. dots \in Seq(Sent) /\ Len(dots) = 2 /\ dots[1] = "." /\ dots[2] = "."
    BY OctetIs
<1>3. Len(s) \in Nat
    OBVIOUS
<1> HIDE DEF dot, dots
<1>4. IsPrefix(dot, s) <=> Len(dot) <= Len(s) /\ \A i \in 1 .. Len(dot) : s[i] = dot[i]
    BY <1>1, PrefixIs
<1>5. IsPrefix(dots, s) <=> Len(dots) <= Len(s) /\ \A i \in 1 .. Len(dots) : s[i] = dots[i]
    BY <1>2, PrefixIs
<1>6. IsPrefix(dot, s) <=> Len(s) > 0 /\ s[1] = "."
    BY <1>1, <1>3, <1>4
<1>7. IsPrefix(dots, s) <=> Len(s) > 1 /\ s[1] = "." /\ s[2] = "."
    BY <1>2, <1>3, <1>5
<1> QED
    BY <1>6, <1>7 DEF dot, dots

LEMMA TerminatorIs ==
    /\ Terminator \in Seq(Sent) /\ Len(Terminator) = 3
    /\ Terminator[1] = "." /\ Terminator[2] = "CR" /\ Terminator[3] = "LF"
BY DEF Terminator, CRLF, Sent, Octet

LEMMA PrefixTerminator ==
    ASSUME NEW s \in Seq(Sent)
    PROVE  IsPrefix(Terminator, s) <=>
             Len(s) > 2 /\ s[1] = "." /\ s[2] = "CR" /\ s[3] = "LF"
<1>1. IsPrefix(Terminator, s) <=>
        Len(Terminator) <= Len(s) /\ \A i \in 1 .. Len(Terminator) : s[i] = Terminator[i]
    BY PrefixIs, TerminatorIs
<1> QED
    BY <1>1, TerminatorIs

LEMMA StuffIs ==
    ASSUME NEW line \in Line
    PROVE  /\ Stuff(line) \in Line
           /\ Len(line) > 0 /\ line[1] = "." =>
                /\ Len(Stuff(line)) = Len(line) + 1
                /\ Stuff(line)[1] = "." /\ Stuff(line)[2] = "."
                /\ Tail(Stuff(line)) = line
           /\ ~(Len(line) > 0 /\ line[1] = ".") => Stuff(line) = line
<1>1. /\ Stuff(line) = IF Len(line) > 0 /\ line[1] = "." THEN <<".">> \o line ELSE line
      /\ line \in Seq(Octet) /\ <<".">> \in Seq(Octet)
    <2>1. line \in Seq(Octet) /\ line \in Seq(Sent) /\ <<".">> \in Seq(Octet)
        BY OctetIs, OctetsSent DEF Line
    <2> QED
        BY <2>1, PrefixDot DEF Stuff
<1>2. CASE Len(line) > 0 /\ line[1] = "."
    <2>1. Stuff(line) = <<".">> \o line
        BY <1>1, <1>2
    <2>2. Stuff(line) \in Seq(Octet) /\ Len(Stuff(line)) = Len(line) + 1 /\ Len(line) \in Nat
        BY <1>1, <2>1
    <2>3. Stuff(line)[1] = "." /\ \A i \in 1 .. Len(line) : Stuff(line)[i + 1] = line[i]
        BY <1>1, <2>1
    <2>4. Tail(Stuff(line)) = line
        <3>1. /\ Tail(Stuff(line)) \in Seq(Octet) /\ Len(Tail(Stuff(line))) = Len(line)
              /\ \A i \in 1 .. Len(line) : Tail(Stuff(line))[i] = Stuff(line)[i + 1]
            BY <2>2, HeadTailProperties
        <3> QED
            BY <1>1, <2>3, <3>1, SeqEqual
    <2>5. Stuff(line)[1 + 1] = line[1]
        BY <1>2, <2>2, <2>3
    <2> QED
        BY <1>2, <2>2, <2>3, <2>4, <2>5 DEF Line
<1>3. CASE ~(Len(line) > 0 /\ line[1] = ".")
    BY <1>1, <1>3 DEF Line
<1> QED
    BY <1>2, <1>3

\* What Encode puts on the wire for a line and the lines after it.
LEMMA EncodeIs ==
    /\ Encode(<<>>) = Terminator
    /\ \A text \in Seq(Line) : Encode(text) \in Seq(Sent)
    /\ \A line \in Line, text \in Seq(Line) :
          Encode(<<line>> \o text) = (Stuff(line) \o CRLF) \o Encode(text)
<1> DEFINE Coded(text) == [i \in DOMAIN text |-> Stuff(text[i]) \o CRLF]
<1>1. CRLF \in Seq(Sent) /\ <<".">> \in Seq(Sent)
    BY DEF CRLF, Sent, Octet
<1>2. ASSUME NEW line \in Line
      PROVE  Stuff(line) \o CRLF \in Seq(Sent)
    <2>1. Stuff(line) \in Seq(Octet)
        BY StuffIs DEF Line
    <2>2. Stuff(line) \in Seq(Sent)
        BY <2>1 DEF Sent
    <2> QED
        BY <1>1, <2>2
<1>3. ASSUME NEW text \in Seq(Line)
      PROVE  /\ Coded(text) \in Seq(Seq(Sent)) /\ Len(Coded(text)) = Len(text)
             /\ \A i \in 1 .. Len(text) : Coded(text)[i] = Stuff(text[i]) \o CRLF
             /\ FlattenSeq(Coded(text)) \in Seq(Sent)
    <2>1. \A i \in 1 .. Len(text) : text[i] \in Line
        OBVIOUS
    <2>2. \A i \in 1 .. Len(text) : Stuff(text[i]) \o CRLF \in Seq(Sent)
        BY <1>2, <2>1
    <2>3. DOMAIN text = 1 .. Len(text) /\ Len(text) \in Nat
        OBVIOUS
    <2>4. Coded(text) \in Seq(Seq(Sent)) /\ Len(Coded(text)) = Len(text)
        BY <2>2, <2>3
    <2> QED
        BY <2>3, <2>4, FlattenType
<1>4. \A text : Encode(text) = FlattenSeq(Coded(text)) \o Terminator
    BY DEF Encode, Terminator
<1>5. Encode(<<>>) = Terminator
    <2>1. Coded(<<>>) = <<>>
        OBVIOUS
    <2>2. FlattenSeq(<<>>) = <<>>
        BY FlattenSeqIs
    <2> QED
        BY <1>4, <2>1, <2>2, TerminatorIs, ConcatEmptySeq
<1>6. ASSUME NEW text \in Seq(Line)
      PROVE  Encode(text) \in Seq(Sent)
    BY <1>3, <1>4, TerminatorIs, ConcatProperties
<1>7. \A u, v \in Seq(Sent) : (u \o v) \o Terminator = u \o (v \o Terminator)
    BY TerminatorIs, Concatenated
<1>8. ASSUME NEW line \in Line, NEW text \in Seq(Line)
      PROVE  Encode(<<line>> \o text) = (Stuff(line) \o CRLF) \o Encode(text)
    <2> DEFINE all == <<line>> \o text
               a == Stuff(line) \o CRLF
    <2>1. /\ all \in Seq(Line) /\ Len(all) = Len(text) + 1 /\ all[1] = line
          /\ \A i \in 1 .. Len(text) : all[i + 1] = text[i]
          /\ Len(text) \in Nat
        OBVIOUS
    <2> HIDE DEF all
    <2>2. /\ Coded(all) \in Seq(Seq(Sent)) /\ Len(Coded(all)) = Len(all)
          /\ \A i \in 1 .. Len(all) : Coded(all)[i] = Stuff(all[i]) \o CRLF
        BY <1>3, <2>1
    <2>3. /\ Coded(text) \in Seq(Seq(Sent)) /\ Len(Coded(text)) = Len(text)
          /\ \A i \in 1 .. Len(text) : Coded(text)[i] = Stuff(text[i]) \o CRLF
          /\ FlattenSeq(Coded(text)) \in Seq(Sent)
        BY <1>3
    <2>4. a \in Seq(Sent)
        BY <1>2
    <2> HIDE DEF Coded
    <2>5. Coded(all)[1] = a
        <3>1. 1 \in 1 .. Len(all)
            BY <2>1
        <3> QED
            BY <2>1, <2>2, <3>1, Zenon
    <2>6. \A i \in 1 .. Len(Coded(text)) : Coded(all)[i + 1] = Coded(text)[i]
        <3> SUFFICES ASSUME NEW i \in 1 .. Len(text)
                     PROVE  Coded(all)[i + 1] = Coded(text)[i]
            BY <2>3
        <3>1. i + 1 \in 1 .. Len(all)
            BY <2>1
        <3>2. Coded(all)[i + 1] = Stuff(all[i + 1]) \o CRLF
            BY <2>2, <3>1, Zenon
        <3>3. Coded(text)[i] = Stuff(text[i]) \o CRLF
            BY <2>3
        <3> QED
            BY <2>1, <3>2, <3>3
    <2>7. Len(Coded(all)) = Len(Coded(text)) + 1
        BY <2>1, <2>2, <2>3
    <2> HIDE DEF a
    <2>8. FlattenSeq(Coded(all)) = a \o FlattenSeq(Coded(text))
        BY <2>2, <2>3, <2>4, <2>5, <2>6, <2>7, FlattenCons
    <2>9. (a \o FlattenSeq(Coded(text))) \o Terminator = a \o (FlattenSeq(Coded(text)) \o Terminator)
        BY <1>7, <2>3, <2>4, Zenon
    <2> QED
        BY <1>4, <2>8, <2>9 DEF all, a
<1> QED
    BY <1>5, <1>6, <1>8

LEMMA FirstAndRest ==
    ASSUME NEW S, NEW s \in Seq(S), s # <<>>
    PROVE  \E e \in S, t \in Seq(S) : s = <<e>> \o t
<1>1. /\ Head(s) \in S /\ Tail(s) \in Seq(S) /\ Len(Tail(s)) = Len(s) - 1 /\ Len(s) \in Nat
      /\ \A i \in 1 .. Len(s) - 1 : Tail(s)[i] = s[i + 1]
    BY HeadTailProperties
<1>2. Len(s) > 0 /\ Head(s) = s[1]
    BY EmptySeq
<1> DEFINE t == <<Head(s)>> \o Tail(s)
<1>3. /\ t \in Seq(S) /\ Len(t) = Len(s) /\ t[1] = s[1]
      /\ \A i \in 1 .. Len(s) - 1 : t[i + 1] = s[i + 1]
    BY <1>1, <1>2
<1>4. \A i \in 1 .. Len(s) : t[i] = s[i]
    <2> SUFFICES ASSUME NEW i \in 1 .. Len(s)
                 PROVE  t[i] = s[i]
        OBVIOUS
    <2>1. i = 1 \/ (i - 1 \in 1 .. Len(s) - 1 /\ (i - 1) + 1 = i)
        BY <1>1
    <2> HIDE DEF t
    <2> QED
        BY <1>3, <2>1
<1>5. t = s
    <2> HIDE DEF t
    <2> QED
        BY <1>3, <1>4, SeqEqual
<1>6. s = <<Head(s)>> \o Tail(s)
    BY <1>5
<1> HIDE DEF t
<1> QED
    BY <1>1, <1>6, Zenon

LEMMA ConcatIs ==
    ASSUME NEW S, NEW s \in Seq(S), NEW t \in Seq(S)
    PROVE  /\ s \o t \in Seq(S) /\ Len(s \o t) = Len(s) + Len(t)
           /\ \A i \in 1 .. Len(s) : (s \o t)[i] = s[i]
           /\ \A i \in 1 .. Len(t) : (s \o t)[Len(s) + i] = t[i]
<1>1. PICK n \in Nat, m \in Nat : n = Len(s) /\ m = Len(t)
    OBVIOUS
<1>2. /\ s \o t \in Seq(S) /\ Len(s \o t) = n + m
      /\ \A i \in 1 .. n + m : (s \o t)[i] = IF i <= n THEN s[i] ELSE t[i - n]
    BY <1>1, ConcatProperties
<1>3. \A i \in 1 .. m : n + i \in 1 .. n + m /\ ~(n + i <= n) /\ (n + i) - n = i
    OBVIOUS
<1>4. \A i \in 1 .. m : (s \o t)[n + i] = t[i]
    BY <1>2, <1>3
<1> QED
    BY <1>1, <1>2, <1>4

\* What is left after n.
LEMMA SubSeqIs ==
    ASSUME NEW S, NEW s \in Seq(S), NEW n \in 0 .. Len(s)
    PROVE  /\ SubSeq(s, n + 1, Len(s)) \in Seq(S)
           /\ Len(SubSeq(s, n + 1, Len(s))) = Len(s) - n
           /\ \A i \in 1 .. Len(s) - n : SubSeq(s, n + 1, Len(s))[i] = s[n + i]
<1>1. PICK a \in Int, b \in Int : a = n + 1 /\ b = Len(s) /\ n \in Int
    OBVIOUS
<1>2. \A i \in a .. b : s[i] \in S
    BY <1>1
<1>3. /\ SubSeq(s, a, b) \in Seq(S)
      /\ Len(SubSeq(s, a, b)) = IF a <= b THEN b - a + 1 ELSE 0
      /\ \A i \in 1 .. b - a + 1 : SubSeq(s, a, b)[i] = s[a + i - 1]
    BY <1>2, SubSeqProperties
<1>4. \A i \in 1 .. b - n : i \in 1 .. b - a + 1 /\ a + i - 1 = n + i
    BY <1>1
<1>5. \A i \in 1 .. b - n : SubSeq(s, a, b)[i] = s[n + i]
    BY <1>3, <1>4
<1>6. Len(SubSeq(s, a, b)) = b - n
    BY <1>1, <1>3
<1> QED
    BY <1>1, <1>3, <1>5, <1>6

LEMMA LineThenRest ==
    ASSUME NEW s \in Seq(Octet), NEW rest \in Seq(Sent)
    PROVE  LET w == (s \o CRLF) \o rest
               n == Len(s)
               m == Len(rest)
           IN  /\ w \in Seq(Sent) /\ Len(w) = n + 2 + m
               /\ \A i \in 1 .. n : w[i] = s[i]
               /\ w[n + 1] = "CR" /\ w[n + 2] = "LF"
               /\ \A i \in 1 .. m : w[n + 2 + i] = rest[i]
<1>1. ASSUME NEW a \in Seq(Sent), NEW n \in Nat, Len(a) = n + 2
      PROVE  /\ a \o rest \in Seq(Sent) /\ Len(a \o rest) = n + 2 + Len(rest)
             /\ \A i \in 1 .. n + 2 : (a \o rest)[i] = a[i]
             /\ \A i \in 1 .. Len(rest) : (a \o rest)[n + 2 + i] = rest[i]
    <2>1. /\ a \o rest \in Seq(Sent) /\ Len(a \o rest) = Len(a) + Len(rest)
          /\ \A i \in 1 .. Len(a) : (a \o rest)[i] = a[i]
          /\ \A i \in 1 .. Len(rest) : (a \o rest)[Len(a) + i] = rest[i]
        BY ConcatIs
    <2> QED
        BY <1>1, <2>1
<1>2. s \in Seq(Sent) /\ CRLF \in Seq(Sent) /\ Len(s) \in Nat
    BY OctetsSent, CRLFIs
<1> DEFINE a == s \o CRLF
           n == Len(s)
<1>3. /\ a \in Seq(Sent) /\ Len(a) = n + 2
      /\ \A i \in 1 .. n : a[i] = s[i]
      /\ a[n + 1] = "CR" /\ a[n + 2] = "LF"
    BY <1>2 DEF CRLF
<1> HIDE DEF a
<1>4. /\ a \o rest \in Seq(Sent) /\ Len(a \o rest) = n + 2 + Len(rest)
      /\ \A i \in 1 .. n + 2 : (a \o rest)[i] = a[i]
      /\ \A i \in 1 .. Len(rest) : (a \o rest)[n + 2 + i] = rest[i]
    BY <1>1, <1>2, <1>3
<1>5. n + 1 \in 1 .. n + 2 /\ n + 2 \in 1 .. n + 2 /\ \A i \in 1 .. n : i \in 1 .. n + 2
    BY <1>2
<1>6. /\ \A i \in 1 .. n : (a \o rest)[i] = s[i]
      /\ (a \o rest)[n + 1] = "CR" /\ (a \o rest)[n + 2] = "LF"
    BY <1>3, <1>4, <1>5
<1> QED
    BY <1>4, <1>6 DEF a

\* The first line of the wire.
LEMMA FirstLine ==
    ASSUME NEW s \in Seq(Octet), NEW rest \in Seq(Sent), wire = (s \o CRLF) \o rest
    PROVE  wire \in Seq(Sent) /\ Raw = s /\ Rest = rest
<1>1. PICK n \in Nat, m \in Nat : n = Len(s) /\ m = Len(rest)
    OBVIOUS
<1>2. s \in Seq(Sent) /\ \A i \in 1 .. n : s[i] \in Octet
    BY <1>1 DEF Sent
<1>3. /\ wire \in Seq(Sent) /\ Len(wire) = n + 2 + m
      /\ \A i \in 1 .. n : wire[i] = s[i]
      /\ wire[n + 1] = "CR" /\ wire[n + 2] = "LF"
      /\ \A i \in 1 .. m : wire[n + 2 + i] = rest[i]
    BY <1>1, LineThenRest
<1> DEFINE ends == {i \in DOMAIN wire : wire[i] = "CR" /\ wire[i + 1] = "LF"}
<1>4. EndOfLine = n + 1
    <2>1. ends \in SUBSET Nat /\ n + 1 \in ends
        <3>1. DOMAIN wire = 1 .. Len(wire) /\ n + 1 \in 1 .. Len(wire) /\ (n + 1) + 1 = n + 2
            BY <1>3
        <3> QED
            BY <1>3, <3>1
    <2>2. ASSUME NEW i \in ends
          PROVE  n + 1 <= i
        <3>1. CASE i \in 1 .. n
            <4>1. wire[i] = s[i] /\ s[i] \in Octet
                BY <1>2, <1>3, <3>1
            <4> QED
                BY <4>1, OctetIs
        <3>2. i \in Nat /\ i >= 1
            BY <1>3
        <3> QED
            BY <3>1, <3>2
    <2>3. Min(ends) = n + 1
        <3> HIDE DEF ends
        <3> QED
            BY <2>1, <2>2, MinIsEqual
    <2> QED
        BY <2>3 DEF EndOfLine
<1>5. Raw = s
    <2> DEFINE raw == SubSeq(wire, 1, n)
    <2>1. raw \in Seq(Sent) /\ Len(raw) = n /\ \A i \in 1 .. n : raw[i] = wire[i]
        <3>1. ASSUME NEW w \in Seq(Sent), n <= Len(w)
              PROVE  /\ SubSeq(w, 1, n) \in Seq(Sent) /\ Len(SubSeq(w, 1, n)) = n
                     /\ \A i \in 1 .. n : SubSeq(w, 1, n)[i] = w[i]
            BY <3>1
        <3>2. n <= Len(wire)
            BY <1>3
        <3> QED
            BY <1>3, <3>1, <3>2
    <2> HIDE DEF raw
    <2>2. raw = s
        BY <1>1, <1>2, <1>3, <2>1, SeqEqual
    <2>3. EndOfLine - 1 = n
        BY <1>4
    <2> QED
        BY <2>2, <2>3 DEF Raw, raw
<1>6. Rest = rest
    <2>1. PICK k \in 0 .. Len(wire) : k = n + 2 /\ Len(wire) - k = m
        BY <1>3
    <2> DEFINE last == SubSeq(wire, k + 1, Len(wire))
    <2>2. last \in Seq(Sent) /\ Len(last) = m /\ \A i \in 1 .. m : last[i] = wire[k + i]
        <3>1. ASSUME NEW w \in Seq(Sent), NEW j \in 0 .. Len(w)
              PROVE  /\ SubSeq(w, j + 1, Len(w)) \in Seq(Sent)
                     /\ Len(SubSeq(w, j + 1, Len(w))) = Len(w) - j
                     /\ \A i \in 1 .. Len(w) - j : SubSeq(w, j + 1, Len(w))[i] = w[j + i]
            BY SubSeqIs
        <3>2. /\ last \in Seq(Sent) /\ Len(last) = Len(wire) - k
              /\ \A i \in 1 .. Len(wire) - k : last[i] = wire[k + i]
            BY <1>3, <3>1, Zenon
        <3> QED
            BY <2>1, <3>2
    <2> HIDE DEF last
    <2>3. \A i \in 1 .. Len(last) : last[i] = rest[i]
        BY <1>3, <2>1, <2>2
    <2>4. last = rest
        BY <1>1, <2>2, <2>3, SeqEqual
    <2>5. EndOfLine + 2 = k + 1
        BY <1>4, <2>1
    <2> QED
        BY <2>4, <2>5 DEF Rest, last
<1> QED
    BY <1>3, <1>5, <1>6

\* The final dot.
LEMMA ReadsEnd ==
    ASSUME wire = Encode(<<>>)
    PROVE  LoneDot
<1> DEFINE s == <<".">>
           rest == <<>>
<1>1. s \in Seq(Octet) /\ Len(s) = 1 /\ s[1] = "." /\ rest \in Seq(Sent)
    BY DEF Octet
<1>2. wire = (s \o CRLF) \o rest
    <2>1. s \o CRLF \in Seq(Sent)
        BY DEF CRLF, Sent, Octet
    <2>2. wire = s \o CRLF
        BY EncodeIs DEF Terminator
    <2> QED
        BY <2>1, <2>2, ConcatEmptySeq
<1> HIDE DEF s, rest
<1>3. Raw = s
    BY <1>1, <1>2, FirstLine
<1>4. s \in Seq(Sent)
    BY <1>1 DEF Sent
<1>5. /\ IsPrefix(<<".">>, s) <=> Len(s) > 0 /\ s[1] = "."
      /\ IsPrefix(<<".", ".">>, s) <=> Len(s) > 1 /\ s[1] = "." /\ s[2] = "."
    BY <1>4, PrefixDot
<1>6. IsPrefix(<<".">>, s) /\ ~IsPrefix(<<".", ".">>, s)
    BY <1>1, <1>5
<1> QED
    BY <1>3, <1>6 DEF LoneDot

\* A line, and what comes after it.
LEMMA ReadsLine ==
    ASSUME NEW line \in Line, NEW text \in Seq(Line), wire = Encode(<<line>> \o text)
    PROVE  /\ ~LoneDot /\ Unstuffed = line /\ Rest = Encode(text)
           /\ Terminated <=> text = <<>>
<1>1. Stuff(line) \in Seq(Octet) /\ Encode(text) \in Seq(Sent)
    BY StuffIs, EncodeIs DEF Line
<1>2. Raw = Stuff(line) /\ Rest = Encode(text)
    BY <1>1, EncodeIs, FirstLine
<1>3. Stuff(line) \in Seq(Sent) /\ line \in Seq(Sent) /\ Len(line) \in Nat
    BY <1>1 DEF Sent, Line
<1>4. /\ IsPrefix(<<".">>, Raw) <=> Len(Raw) > 0 /\ Raw[1] = "."
      /\ IsPrefix(<<".", ".">>, Raw) <=> Len(Raw) > 1 /\ Raw[1] = "." /\ Raw[2] = "."
    BY <1>2, <1>3, PrefixDot
<1>5. ~LoneDot /\ Unstuffed = line
    <2>1. CASE Len(line) > 0 /\ line[1] = "."
        <3>1. /\ Len(Raw) = Len(line) + 1 /\ Raw[1] = "." /\ Raw[2] = "." /\ Tail(Raw) = line
            BY <1>2, <2>1, StuffIs
        <3>2. IsPrefix(<<".">>, Raw) /\ IsPrefix(<<".", ".">>, Raw)
            BY <1>3, <1>4, <2>1, <3>1
        <3> QED
            BY <3>1, <3>2 DEF LoneDot, Unstuffed
    <2>2. CASE ~(Len(line) > 0 /\ line[1] = ".")
        <3>1. Raw = line
            BY <1>2, <2>2, StuffIs
        <3>2. ~IsPrefix(<<".">>, Raw)
            BY <1>4, <2>2, <3>1
        <3> QED
            BY <3>1, <3>2 DEF LoneDot, Unstuffed
    <2> QED
        BY <2>1, <2>2
<1>6. CASE text = <<>>
    <2>1. Rest = Terminator
        BY <1>2, <1>6, EncodeIs
    <2>2. Terminated
        BY <2>1, PrefixTerminator, TerminatorIs DEF Terminated
    <2> QED
        BY <1>2, <1>5, <1>6, <2>2
<1>7. CASE text # <<>>
    <2>1. PICK next \in Line, more \in Seq(Line) : text = <<next>> \o more
        BY <1>7, FirstAndRest
    <2> DEFINE s == Stuff(next)
               rest == (s \o CRLF) \o Encode(more)
    <2>2. Rest = rest
        BY <1>2, <2>1, EncodeIs
    <2>3. /\ s \in Seq(Sent) /\ Len(s) \in Nat
          /\ CRLF \in Seq(Sent) /\ Encode(more) \in Seq(Sent)
        <3>1. s \in Seq(Octet)
            BY StuffIs DEF Line
        <3>2. s \in Seq(Sent) /\ Len(s) \in Nat
            <4> HIDE DEF s
            <4> QED
                BY <3>1 DEF Sent
        <3>3. CRLF \in Seq(Sent)
            BY DEF CRLF, Sent
        <3> QED
            BY <3>2, <3>3, EncodeIs
    <2>4. Len(next) \in Nat
        BY DEF Line
    <2>5. /\ Len(next) > 0 /\ next[1] = "." => Len(s) > 1 /\ s[2] = "."
          /\ ~(Len(next) > 0 /\ next[1] = ".") => ~(Len(s) > 0 /\ s[1] = ".")
        BY <2>4, StuffIs
    <2> HIDE DEF s
    <2>6. /\ rest \in Seq(Sent)
          /\ \A i \in 1 .. Len(s) : rest[i] = s[i]
          /\ rest[Len(s) + 1] = "CR"
        <3>1. /\ s \o CRLF \in Seq(Sent) /\ Len(s \o CRLF) = Len(s) + 2
              /\ \A i \in 1 .. Len(s) : (s \o CRLF)[i] = s[i]
              /\ (s \o CRLF)[Len(s) + 1] = "CR"
            BY <2>3 DEF CRLF
        <3> DEFINE a == s \o CRLF
        <3> HIDE DEF a
        <3>2. a \o Encode(more) \in Seq(Sent) /\ \A i \in 1 .. Len(a) : (a \o Encode(more))[i] = a[i]
            BY <2>3, <3>1 DEF a
        <3>3. Len(s) + 1 \in 1 .. Len(a) /\ \A i \in 1 .. Len(s) : i \in 1 .. Len(a)
            BY <2>3, <3>1 DEF a
        <3> QED
            BY <3>1, <3>2, <3>3 DEF a
    <2> HIDE DEF rest
    <2>7. ~(rest[1] = "." /\ rest[2] = "CR")
        <3>1. CASE Len(next) > 0 /\ next[1] = "."
            <4>1. Len(s) > 1 /\ s[2] = "." /\ 2 \in 1 .. Len(s)
                BY <2>3, <2>5, <3>1
            <4>2. rest[2] = "."
                BY <2>6, <4>1
            <4> QED
                BY <4>2
        <3>2. CASE ~(Len(next) > 0 /\ next[1] = ".") /\ Len(s) = 0
            BY <2>6, <3>2
        <3>3. CASE ~(Len(next) > 0 /\ next[1] = ".") /\ Len(s) # 0
            <4>1. s[1] # "." /\ 1 \in 1 .. Len(s)
                BY <2>3, <2>5, <3>3
            <4> QED
                BY <2>6, <4>1
        <3> QED
            BY <3>1, <3>2, <3>3
    <2>8. ~Terminated
        BY <2>2, <2>6, <2>7, PrefixTerminator DEF Terminated
    <2> QED
        BY <1>2, <1>5, <1>7, <2>8
<1> QED
    BY <1>6, <1>7

-----------------------------------------------------------------------------
(* The size of a text.                                                     *)

Ended(text) == [i \in DOMAIN text |-> text[i] \o CRLF]

\* Octets of the first k lines.
Octets(text, k) == IF k = 0 THEN 0 ELSE Len(Flatten(Ended(text))[k])

LEMMA EndedIs ==
    ASSUME NEW text \in Seq(Line)
    PROVE  /\ Ended(text) \in Seq(Seq(Sent)) /\ Len(Ended(text)) = Len(text)
           /\ \A i \in 1 .. Len(text) :
                Ended(text)[i] \in Seq(Sent) /\ Len(Ended(text)[i]) = Len(text[i]) + 2
<1>1. Len(text) \in Nat /\ DOMAIN text = 1 .. Len(text) /\ \A i \in 1 .. Len(text) : text[i] \in Line
    OBVIOUS
<1>2. ASSUME NEW line \in Line
      PROVE  line \o CRLF \in Seq(Sent) /\ Len(line \o CRLF) = Len(line) + 2
    <2>1. line \in Seq(Sent) /\ CRLF \in Seq(Sent) /\ Len(CRLF) = 2
        BY OctetsSent, CRLFIs DEF Line
    <2>2. \A u, v \in Seq(Sent) : u \o v \in Seq(Sent) /\ Len(u \o v) = Len(u) + Len(v)
        BY ConcatProperties
    <2> QED
        BY <2>1, <2>2
<1>3. \A i \in 1 .. Len(text) : Ended(text)[i] = text[i] \o CRLF
    BY <1>1 DEF Ended
<1>4. Ended(text) \in [1 .. Len(text) -> Seq(Sent)]
    BY <1>1, <1>2 DEF Ended
<1>5. Ended(text) \in Seq(Seq(Sent)) /\ Len(Ended(text)) = Len(text)
    BY <1>1, <1>4
<1> QED
    BY <1>1, <1>2, <1>3, <1>5

LEMMA OctetsStep ==
    ASSUME NEW text \in Seq(Line), NEW k \in 1 .. Len(text)
    PROVE  /\ Octets(text, k - 1) \in Nat /\ Octets(text, k) \in Nat /\ Len(text[k]) \in Nat
           /\ Octets(text, k) = Octets(text, k - 1) + Len(text[k]) + 2
<1> DEFINE s == Ended(text)
<1>1. /\ s \in Seq(Seq(Sent)) /\ Len(s) = Len(text) /\ Len(s) \in Nat
      /\ s[k] \in Seq(Sent) /\ Len(s[k]) = Len(text[k]) + 2
    BY EndedIs
<1>2. Len(text[k]) \in Nat
    <2>1. text[k] \in Line
        OBVIOUS
    <2> QED
        BY <2>1 DEF Line
<1> HIDE DEF s
<1>3. \A i \in 1 .. Len(s) : Flatten(s)[i] \in Seq(Sent)
    BY <1>1, FlattenType
<1>4. Octets(text, k) = Len(Flatten(s)[k])
    BY DEF Octets, s
<1>5. Flatten(s)[k] = IF k = 1 THEN s[k] ELSE Flatten(s)[k - 1] \o s[k]
    BY <1>1, FlattenStep
<1>6. CASE k = 1
    <2>1. Octets(text, k - 1) = 0
        BY <1>6 DEF Octets
    <2> QED
        BY <1>1, <1>2, <1>4, <1>5, <1>6, <2>1
<1>7. CASE k # 1
    <2>1. k - 1 \in 1 .. Len(s) /\ k - 1 # 0
        BY <1>1, <1>7
    <2>2. Octets(text, k - 1) = Len(Flatten(s)[k - 1])
        BY <2>1 DEF Octets, s
    <2>3. Flatten(s)[k - 1] \in Seq(Sent)
        BY <1>3, <2>1
    <2>4. ASSUME NEW u \in Seq(Sent), NEW v \in Seq(Sent)
          PROVE  Len(u \o v) = Len(u) + Len(v) /\ Len(u) \in Nat /\ Len(v) \in Nat
        OBVIOUS
    <2>5. /\ Len(Flatten(s)[k]) = Len(Flatten(s)[k - 1]) + Len(s[k])
          /\ Len(Flatten(s)[k - 1]) \in Nat
        BY <1>1, <1>5, <1>7, <2>3, <2>4
    <2>6. PICK a \in Nat, b \in Nat :
                 a = Len(Flatten(s)[k - 1]) /\ b = Len(text[k])
        BY <1>2, <2>5
    <2>7. Octets(text, k - 1) = a
        BY <2>2, <2>6
    <2>8. Octets(text, k) = a + (b + 2)
        BY <1>1, <1>4, <2>5, <2>6
    <2>9. a + (b + 2) = a + b + 2 /\ a + b + 2 \in Nat
        OBVIOUS
    <2> QED
        BY <2>6, <2>7, <2>8, <2>9
<1> QED
    BY <1>6, <1>7

LEMMA OctetsType ==
    ASSUME NEW text \in Seq(Line), NEW k \in 0 .. Len(text)
    PROVE  Octets(text, k) \in Nat
<1>1. CASE k = 0
    BY <1>1 DEF Octets
<1>2. CASE k # 0
    BY <1>2, OctetsStep
<1> QED
    BY <1>1, <1>2

LEMMA SizeIs ==
    ASSUME NEW text \in Seq(Line)
    PROVE  Size(text) = Octets(text, Len(text)) /\ Size(text) \in Nat
<1>1. Len(text) \in Nat /\ Len(Ended(text)) = Len(text) /\ Size(text) = Len(FlattenSeq(Ended(text)))
    BY EndedIs DEF Size, Ended
<1>2. CASE Len(text) = 0
    <2>1. FlattenSeq(Ended(text)) = Ended(text)
        BY <1>1, <1>2, FlattenSeqIs
    <2> QED
        BY <1>1, <1>2, <2>1 DEF Octets
<1>3. CASE Len(text) # 0
    <2>1. FlattenSeq(Ended(text)) = Flatten(Ended(text))[Len(text)]
        BY <1>1, <1>3, FlattenSeqIs
    <2> QED
        BY <1>1, <1>3, <2>1, OctetsType DEF Octets
<1> QED
    BY <1>2, <1>3

LEMMA OctetsSame ==
    ASSUME NEW text \in Seq(Line), NEW read \in Seq(Line),
           NEW n \in Nat, n <= Len(text), n <= Len(read),
           \A i \in 1 .. n : read[i] = text[i]
    PROVE  \A k \in 0 .. n : Octets(read, k) = Octets(text, k)
<1> DEFINE T == {k \in 0 .. n : Octets(read, k) # Octets(text, k)}
<1> SUFFICES ASSUME T # {}
             PROVE  FALSE
    OBVIOUS
<1>1. T \in SUBSET Nat
    OBVIOUS
<1>2. PICK k \in T : \A j \in T : k <= j
    BY <1>1, Least
<1>3. k \in 0 .. n /\ Octets(read, k) # Octets(text, k)
    BY <1>2
<1>4. k # 0
    BY <1>3 DEF Octets
<1>5. k \in 1 .. n /\ k - 1 \in 0 .. n /\ ~(k <= k - 1)
    BY <1>3, <1>4
<1>6. Octets(read, k - 1) = Octets(text, k - 1)
    BY <1>2, <1>5
<1>7. k \in 1 .. Len(text) /\ k \in 1 .. Len(read)
    BY <1>5
<1> HIDE DEF T
<1>8. /\ Octets(text, k) = Octets(text, k - 1) + Len(text[k]) + 2
      /\ Octets(read, k) = Octets(read, k - 1) + Len(read[k]) + 2
    BY <1>7, OctetsStep
<1> QED
    BY <1>3, <1>5, <1>6, <1>8

LEMMA OctetsGrow ==
    ASSUME NEW text \in Seq(Line), NEW n \in 0 .. Len(text)
    PROVE  \A k \in n .. Len(text) : Octets(text, n) <= Octets(text, k)
<1> DEFINE T == {k \in n .. Len(text) : ~(Octets(text, n) <= Octets(text, k))}
<1> SUFFICES ASSUME T # {}
             PROVE  FALSE
    OBVIOUS
<1>1. T \in SUBSET Nat /\ Len(text) \in Nat
    OBVIOUS
<1>2. PICK k \in T : \A j \in T : k <= j
    BY <1>1, Least
<1>3. k \in n .. Len(text) /\ ~(Octets(text, n) <= Octets(text, k)) /\ Octets(text, n) \in Nat
    BY <1>2, OctetsType
<1>4. k # n
    BY <1>3
<1>5. k \in 1 .. Len(text) /\ k - 1 \in n .. Len(text) /\ ~(k <= k - 1)
    BY <1>1, <1>3, <1>4
<1>6. Octets(text, n) <= Octets(text, k - 1)
    BY <1>2, <1>5
<1> HIDE DEF T
<1>7. /\ Octets(text, k - 1) \in Nat /\ Octets(text, k) \in Nat /\ Len(text[k]) \in Nat
      /\ Octets(text, k) = Octets(text, k - 1) + Len(text[k]) + 2
    BY <1>5, OctetsStep
<1> QED
    BY <1>3, <1>6, <1>7

\* The lines read so far are no larger than the text.
LEMMA SizeOfPrefix ==
    ASSUME NEW read \in Seq(Line), NEW rest \in Seq(Line)
    PROVE  Size(read) <= Size(read \o rest)
<1> DEFINE text == read \o rest
           n == Len(read)
<1>1. /\ text \in Seq(Line) /\ Len(text) = n + Len(rest) /\ n \in Nat /\ Len(rest) \in Nat
      /\ \A i \in 1 .. n : text[i] = read[i]
    BY ConcatIs
<1> HIDE DEF text
<1>2. n <= Len(text) /\ n \in 0 .. Len(text) /\ Len(text) \in n .. Len(text)
    BY <1>1
<1>3. Octets(read, n) = Octets(text, n)
    <2>1. n <= Len(read) /\ (\A i \in 1 .. n : read[i] = text[i]) /\ n \in 0 .. n
        BY <1>1
    <2>2. \A k \in 0 .. n : Octets(read, k) = Octets(text, k)
        BY <1>1, <1>2, <2>1, OctetsSame
    <2> QED
        BY <2>1, <2>2
<1>4. Octets(text, n) <= Octets(text, Len(text))
    BY <1>1, <1>2, OctetsGrow
<1> QED
    BY <1>1, <1>3, <1>4, SizeIs DEF text

LEMMA InsertIs ==
    ASSUME NEW S, NEW text \in Seq(S), NEW i \in 1 .. Len(text), NEW e \in S
    PROVE  /\ InsertAt(text, i, e) \in Seq(S)
           /\ Len(InsertAt(text, i, e)) = Len(text) + 1
           /\ \A j \in 1 .. i - 1 : InsertAt(text, i, e)[j] = text[j]
           /\ InsertAt(text, i, e)[i] = e
           /\ \A j \in i .. Len(text) : InsertAt(text, i, e)[j + 1] = text[j]
<1>1. PICK k \in Nat : k = i - 1
    OBVIOUS
<1>2. PICK n \in Nat : n = Len(text) /\ k < n
    BY <1>1
<1> DEFINE u == SubSeq(text, 1, k)
           v == SubSeq(text, i, Len(text))
           w == u \o <<e>>
<1>3. u \in Seq(S) /\ Len(u) = k /\ \A j \in 1 .. k : u[j] = text[j]
    <2>1. \A j \in 1 .. k : text[j] \in S
        BY <1>1
    <2> QED
        BY <1>1, <2>1
<1>4. v \in Seq(S) /\ Len(v) = n - k /\ \A j \in 1 .. n - k : v[j] = text[k + j]
    <2>1. k \in 0 .. Len(text) /\ i = k + 1
        BY <1>1, <1>2
    <2> QED
        BY <1>2, <2>1, SubSeqIs
<1> HIDE DEF u, v
<1>5. w \in Seq(S) /\ Len(w) = k + 1 /\ (\A j \in 1 .. k : w[j] = text[j]) /\ w[k + 1] = e
    BY <1>3
<1> HIDE DEF w
<1>6. /\ w \o v \in Seq(S) /\ Len(w \o v) = n + 1
      /\ \A j \in 1 .. k + 1 : (w \o v)[j] = w[j]
      /\ \A j \in 1 .. n - k : (w \o v)[(k + 1) + j] = v[j]
    <2>1. /\ w \o v \in Seq(S) /\ Len(w \o v) = Len(w) + Len(v)
          /\ \A j \in 1 .. Len(w) : (w \o v)[j] = w[j]
          /\ \A j \in 1 .. Len(v) : (w \o v)[Len(w) + j] = v[j]
        <3>1. w \in Seq(S) /\ v \in Seq(S)
            BY <1>4, <1>5
        <3>2. ASSUME NEW a \in Seq(S), NEW b \in Seq(S)
              PROVE  /\ a \o b \in Seq(S) /\ Len(a \o b) = Len(a) + Len(b)
                     /\ \A j \in 1 .. Len(a) : (a \o b)[j] = a[j]
                     /\ \A j \in 1 .. Len(b) : (a \o b)[Len(a) + j] = b[j]
            BY ConcatIs
        <3> QED
            BY <3>1, <3>2
    <2>2. Len(w) = k + 1 /\ Len(v) = n - k /\ (k + 1) + (n - k) = n + 1
        BY <1>2, <1>4, <1>5
    <2>3. Len(w \o v) = n + 1
        BY <2>1, <2>2
    <2>4. \A j \in 1 .. n - k : (w \o v)[(k + 1) + j] = v[j]
        BY <2>1, <2>2
    <2> QED
        BY <2>1, <2>2, <2>3, <2>4
<1>7. InsertAt(text, i, e) = w \o v
    BY <1>1 DEF InsertAt, u, v, w
<1>8. \A j \in i .. n : (w \o v)[j + 1] = text[j]
    <2> SUFFICES ASSUME NEW j \in i .. n
                 PROVE  (w \o v)[j + 1] = text[j]
        OBVIOUS
    <2>1. j - k \in 1 .. n - k /\ (k + 1) + (j - k) = j + 1 /\ k + (j - k) = j
        BY <1>1, <1>2
    <2>2. (w \o v)[(k + 1) + (j - k)] = v[j - k] /\ v[j - k] = text[k + (j - k)]
        BY <1>4, <1>6, <2>1
    <2> QED
        BY <2>1, <2>2
<1>9. \A j \in 1 .. i - 1 : (w \o v)[j] = text[j]
    BY <1>1, <1>5, <1>6
<1>10. (w \o v)[i] = e
    BY <1>1, <1>5, <1>6
<1> QED
    BY <1>2, <1>6, <1>7, <1>8, <1>9, <1>10

LEMMA SizeOfInsert ==
    ASSUME NEW text \in Seq(Line), NEW i \in 1 .. Len(text), NEW e \in Line
    PROVE  Size(InsertAt(text, i, e)) = Size(text) + Len(e) + 2
<1> DEFINE long == InsertAt(text, i, e)
<1>1. /\ long \in Seq(Line) /\ Len(long) = Len(text) + 1
      /\ \A j \in 1 .. i - 1 : long[j] = text[j]
      /\ long[i] = e
      /\ \A j \in i .. Len(text) : long[j + 1] = text[j]
    BY InsertIs
<1>2. Len(text) \in Nat /\ i - 1 \in Nat /\ i - 1 <= Len(text) /\ i - 1 <= Len(text) + 1
    OBVIOUS
<1> HIDE DEF long
<1>3. Octets(long, i - 1) = Octets(text, i - 1)
    BY <1>1, <1>2, OctetsSame
<1>4. \A k \in i - 1 .. Len(text) : Octets(long, k + 1) = Octets(text, k) + Len(e) + 2
    <2> DEFINE T == {k \in i - 1 .. Len(text) : Octets(long, k + 1) # Octets(text, k) + Len(e) + 2}
    <2> SUFFICES ASSUME T # {}
                 PROVE  FALSE
        OBVIOUS
    <2>1. T \in SUBSET Nat
        BY <1>2
    <2>2. PICK k \in T : \A j \in T : k <= j
        BY <2>1, Least
    <2>3. k \in i - 1 .. Len(text) /\ Octets(long, k + 1) # Octets(text, k) + Len(e) + 2
        BY <2>2
    <2>4. k + 1 \in 1 .. Len(long) /\ (k + 1) - 1 = k
        BY <1>1, <1>2, <2>3
    <2>5. Octets(long, k + 1) = Octets(long, k) + Len(long[k + 1]) + 2
        <3>1. Octets(long, k + 1) = Octets(long, (k + 1) - 1) + Len(long[k + 1]) + 2
            BY <1>1, <2>4, OctetsStep
        <3> QED
            BY <2>4, <3>1
    <2>6. CASE k = i - 1
        <3>1. long[k + 1] = e
            BY <1>1, <2>6
        <3> QED
            BY <1>3, <2>3, <2>5, <2>6, <3>1
    <2>7. CASE k # i - 1
        <3>1. k \in i .. Len(text) /\ k \in 1 .. Len(text) /\ k - 1 \in i - 1 .. Len(text)
              /\ ~(k <= k - 1) /\ (k - 1) + 1 = k
            BY <1>2, <2>3, <2>7
        <3>2. Octets(long, (k - 1) + 1) = Octets(text, k - 1) + Len(e) + 2
            BY <2>2, <3>1
        <3>3. long[k + 1] = text[k]
            BY <1>1, <3>1
        <3> HIDE DEF T
        <3>4. /\ Octets(text, k - 1) \in Nat /\ Len(text[k]) \in Nat
              /\ Octets(text, k) = Octets(text, k - 1) + Len(text[k]) + 2
            BY <3>1, OctetsStep
        <3>5. Len(e) \in Nat
            BY DEF Line
        <3>6. Octets(long, k + 1) = (Octets(text, k - 1) + Len(e) + 2) + Len(text[k]) + 2
            BY <2>5, <3>1, <3>2, <3>3
        <3> QED
            BY <2>3, <3>4, <3>5, <3>6
    <2> QED
        BY <2>6, <2>7
<1>5. Octets(long, Len(text) + 1) = Octets(text, Len(text)) + Len(e) + 2
    BY <1>2, <1>4
<1> QED
    BY <1>1, <1>5, SizeIs DEF long

-----------------------------------------------------------------------------
(* The transaction.                                                        *)

LEMMA InsertType ==
    ASSUME NEW S, NEW text \in Seq(S), NEW i \in 1 .. Len(text), NEW e \in S
    PROVE  InsertAt(text, i, e) \in Seq(S) /\ InsertAt(text, i, e) # <<>>
<1>1. /\ InsertAt(text, i, e) \in Seq(S) /\ Len(InsertAt(text, i, e)) = Len(text) + 1
      /\ Len(text) \in Nat
    BY InsertIs
<1> QED
    BY <1>1, EmptySeq

\* A text whose lines are in a set S of lines.
LEMMA MailIn ==
    ASSUME NEW S, mail \in Seq(S), MessageID \in S, mail # <<>>, NEW text, IsMail(text)
    PROVE  text \in Seq(S) /\ text # <<>>
<1>1. CASE text = mail
    BY <1>1
<1>2. ASSUME NEW i \in EmptyLines(mail), text = InsertAt(mail, i, MessageID)
      PROVE  text \in Seq(S) /\ text # <<>>
    <2>1. i \in 1 .. Len(mail)
        BY DEF EmptyLines
    <2> QED
        BY <1>2, <2>1, InsertType
<1> QED
    BY <1>1, <1>2 DEF IsMail

\* A Message-ID makes a mail larger by its own line.
LEMMA SizeOfMail ==
    ASSUME mail \in Seq(Line), NEW text, IsMail(text)
    PROVE  /\ Size(text) <= Size(mail) + Size(<<MessageID>>)
           /\ Size(mail) \in Nat /\ Size(<<MessageID>>) \in Nat /\ Size(text) \in Nat
<1>1. MessageID \in Line /\ Len(MessageID) = 3
    <2>1. MessageID \in Seq(Octet) /\ Len(MessageID) = 3
        BY DEF MessageID, Octet
    <2> QED
        BY <2>1 DEF Line
<1>2. Size(mail) \in Nat
    BY SizeIs
<1>3. Size(<<MessageID>>) = 5
    <2> DEFINE one == <<MessageID>>
    <2>1. one \in Seq(Line) /\ Len(one) = 1 /\ one[1] = MessageID
        BY <1>1
    <2> HIDE DEF one
    <2>2. Size(one) = Octets(one, 1)
        BY <2>1, SizeIs
    <2>3. 1 \in 1 .. Len(one)
        BY <2>1
    <2>4. Octets(one, 1) = Octets(one, 1 - 1) + Len(one[1]) + 2
        BY <2>1, <2>3, OctetsStep
    <2>5. Octets(one, 1 - 1) = 0
        BY DEF Octets
    <2>6. Octets(one, 1) = 0 + 3 + 2
        BY <1>1, <2>1, <2>4, <2>5
    <2> QED
        BY <2>2, <2>6 DEF one
<1>4. CASE text = mail
    BY <1>2, <1>3, <1>4
<1>5. ASSUME NEW i \in EmptyLines(mail), text = InsertAt(mail, i, MessageID)
      PROVE  Size(text) = Size(mail) + 5
    <2>1. i \in 1 .. Len(mail)
        BY DEF EmptyLines
    <2>2. Size(text) = Size(mail) + Len(MessageID) + 2
        BY <1>1, <1>5, <2>1, SizeOfInsert
    <2> QED
        BY <1>1, <1>2, <2>2
<1>6. CASE \E i \in EmptyLines(mail) : text = InsertAt(mail, i, MessageID)
    BY <1>2, <1>3, <1>5, <1>6
<1> QED
    BY <1>4, <1>6 DEF IsMail

FitLine == {line \in Line : Len(line) <= MaxLine}
ASCII == Octet \ {"8"}

LEMMA MessageIDIs == MessageID \in FitLine /\ MessageID \in Seq(ASCII)
<1>1. MessageID \in Seq(ASCII) /\ MessageID \in Line /\ Len(MessageID) = 3
    <2>1. MessageID \in Seq(ASCII) /\ Len(MessageID) = 3
        BY DEF MessageID, ASCII, Octet
    <2> QED
        BY <2>1 DEF ASCII, Line
<1>2. Len(MessageID) <= MaxLine
    BY <1>1, TextAssumption
<1> QED
    BY <1>1, <1>2 DEF FitLine

LEMMA FitsIs ==
    ASSUME NEW text \in Seq(Line)
    PROVE  Fits(text) <=> text \in Seq(FitLine)
<1>1. \A i \in 1 .. Len(text) : text[i] \in Line
    OBVIOUS
<1>2. Fits(text) <=> \A i \in 1 .. Len(text) : text[i] \in FitLine
    BY <1>1 DEF Fits, FitLine
<1>3. (\A i \in 1 .. Len(text) : text[i] \in FitLine) => text \in Seq(FitLine)
    OBVIOUS
<1>4. text \in Seq(FitLine) => \A i \in 1 .. Len(text) : text[i] \in FitLine
    OBVIOUS
<1> QED
    BY <1>2, <1>3, <1>4

LEMMA ASCIILine ==
    ASSUME NEW line \in Line
    PROVE  line \in Seq(ASCII) <=> Plain(line)
<1>1. \A j \in 1 .. Len(line) : line[j] \in Octet
    BY DEF Line
<1>2. DOMAIN line = 1 .. Len(line) /\ Len(line) \in Nat
    BY DEF Line
<1>3. ASSUME Plain(line)
      PROVE  line \in Seq(ASCII)
    <2>1. \A j \in 1 .. Len(line) : line[j] \in ASCII
        BY <1>1, <1>2, <1>3 DEF ASCII, Plain
    <2> QED
        BY <2>1 DEF Line
<1>4. ASSUME line \in Seq(ASCII)
      PROVE  Plain(line)
    <2>1. \A j \in 1 .. Len(line) : line[j] \in ASCII
        BY <1>4
    <2> QED
        BY <1>2, <2>1 DEF ASCII, Plain
<1> QED
    BY <1>3, <1>4

LEMMA SevenBitIs ==
    ASSUME NEW text \in Seq(Line)
    PROVE  SevenBit(text) <=> text \in Seq(Seq(ASCII))
<1>1. \A i \in 1 .. Len(text) : text[i] \in Line
    OBVIOUS
<1>2. SevenBit(text) <=> \A i \in 1 .. Len(text) : text[i] \in Seq(ASCII)
    BY <1>1, ASCIILine DEF SevenBit
<1>3. (\A i \in 1 .. Len(text) : text[i] \in Seq(ASCII)) => text \in Seq(Seq(ASCII))
    OBVIOUS
<1>4. text \in Seq(Seq(ASCII)) => \A i \in 1 .. Len(text) : text[i] \in Seq(ASCII)
    OBVIOUS
<1> QED
    BY <1>2, <1>3, <1>4

LEMMA AppendHeaderIs ==
    ASSUME mail \in Seq(Line)
    PROVE  IsMail(AppendHeader(mail))
<1>1. CASE HasHeader(mail) \/ EmptyLines(mail) = {}
    BY <1>1 DEF AppendHeader, IsMail
<1>2. CASE ~HasHeader(mail) /\ EmptyLines(mail) # {}
    <2> DEFINE i == Min(EmptyLines(mail))
    <2>1. EmptyLines(mail) \in SUBSET Nat
        BY DEF EmptyLines
    <2>2. i \in EmptyLines(mail) /\ \A j \in EmptyLines(mail) : i <= j
        BY <1>2, <2>1, MinIs
    <2>3. AppendHeader(mail) = InsertAt(mail, i, MessageID)
        BY <1>2 DEF AppendHeader
    <2> HIDE DEF i
    <2>4. i \in 1 .. Len(mail) /\ Len(mail) \in Nat /\ DOMAIN mail = 1 .. Len(mail)
        BY <2>2 DEF EmptyLines
    <2>5. ASSUME NEW j \in 1 .. i - 1
          PROVE  mail[j] # <<>>
        <3>1. j \in DOMAIN mail /\ ~(i <= j)
            BY <2>4
        <3> QED
            BY <2>2, <3>1 DEF EmptyLines
    <2> QED
        BY <2>2, <2>3, <2>5 DEF IsMail
<1> QED
    BY <1>1, <1>2

\* An encoding of the octets above 127 leaves the others alone.
LEMMA Recoding ==
    ASSUME NEW line \in Line, NEW w \in Seq(Octet)
    PROVE  LET recoded == FlattenSeq([i \in DOMAIN line |->
                                        IF line[i] = "8" THEN w ELSE <<line[i]>>])
           IN  recoded \in Line /\ (line \in Seq(ASCII) => recoded = line)
<1> DEFINE s == [i \in DOMAIN line |-> IF line[i] = "8" THEN w ELSE <<line[i]>>]
<1>1. line \in Seq(Octet) /\ \A i \in 1 .. Len(line) : line[i] \in Octet
    BY DEF Line
<1>2. s \in Seq(Seq(Octet))
    <2>1. \A i \in 1 .. Len(line) : <<line[i]>> \in Seq(Octet)
        BY <1>1
    <2>2. \A i \in 1 .. Len(line) : (IF line[i] = "8" THEN w ELSE <<line[i]>>) \in Seq(Octet)
        BY <2>1
    <2>3. DOMAIN line = 1 .. Len(line) /\ Len(line) \in Nat
        BY <1>1
    <2> QED
        BY <2>2, <2>3
<1>3. FlattenSeq(s) \in Line
    BY <1>2, FlattenType DEF Line
<1>4. ASSUME line \in Seq(ASCII)
      PROVE  FlattenSeq(s) = line
    <2>1. \A i \in DOMAIN line : line[i] # "8"
        BY <1>4, ASCIILine DEF Plain
    <2>2. s = [i \in DOMAIN line |-> <<line[i]>>]
        BY <2>1
    <2> HIDE DEF s
    <2> QED
        BY <1>1, <2>2, FlattenOnes
<1> QED
    BY <1>3, <1>4

LEMMA JSONIs ==
    ASSUME NEW line \in Line
    PROVE  JSON(line) \in Line /\ (line \in Seq(ASCII) => JSON(line) = line)
<1>1. <<"8", "8", "8">> \in Seq(Octet)
    BY DEF Octet
<1> QED
    BY <1>1, Recoding DEF JSON

LEMMA RecodedIs ==
    ASSUME NEW line \in Line
    PROVE  Recoded(line) \in Line /\ (line \in Seq(ASCII) => Recoded(line) = line)
<1>1. <<"8", "8">> \in Seq(Octet)
    BY DEF Octet
<1> QED
    BY <1>1, Recoding DEF Recoded

-----------------------------------------------------------------------------
(* The stored mail.                                                        *)

LEMMA TrimmedIs ==
    ASSUME NEW S, NEW line \in Seq(S)
    PROVE  /\ Trimmed(line) \in Seq(S)
           /\ Trimmed(line) = <<>> <=> \A i \in 1 .. Len(line) : line[i] = "b"
<1>1. Solid(line) = {i \in 1 .. Len(line) : line[i] # "b"} /\ Len(line) \in Nat
    BY DEF Solid
<1>2. CASE Solid(line) = {}
    BY <1>1, <1>2 DEF Trimmed
<1>3. CASE Solid(line) # {}
    <2>1. Solid(line) \in SUBSET Nat /\ Solid(line) \subseteq 1 .. Len(line)
        BY <1>1
    <2>2. PICK a \in 1 .. Len(line) : a = Min(Solid(line)) /\ \A y \in Solid(line) : a <= y
        BY <1>3, <2>1, MinIs
    <2>3. PICK b \in 1 .. Len(line) : b = Max(Solid(line)) /\ b \in Solid(line)
        <3>1. Solid(line) \in SUBSET (1 .. Len(line)) /\ Len(line) \in Nat
            BY <1>1
        <3>2. Max(Solid(line)) \in Solid(line)
            BY <1>3, <3>1, MaxIs
        <3> QED
            BY <2>1, <3>2
    <2>4. a <= b
        BY <2>2, <2>3
    <2>5. SubSeq(line, a, b) \in Seq(S) /\ Len(SubSeq(line, a, b)) = b - a + 1
        BY <2>4
    <2>6. SubSeq(line, a, b) # <<>>
        BY <2>4, <2>5, EmptySeq
    <2> QED
        BY <1>1, <1>3, <2>2, <2>3, <2>5, <2>6 DEF Trimmed
<1> QED
    BY <1>2, <1>3

LEMMA NameValue ==
    ASSUME NEW S, NEW line \in Seq(S)
    PROVE  Name(line) \in Seq(S) /\ Value(line) \in Seq(S)
<1>1. CASE Colons(line) = {}
    BY <1>1, TrimmedIs DEF Name, Value
<1>2. CASE Colons(line) # {}
    <2>1. Colons(line) \in SUBSET Nat /\ Colons(line) \subseteq 1 .. Len(line)
        BY DEF Colons
    <2>2. PICK c \in 1 .. Len(line) : c = Min(Colons(line))
        BY <1>2, <2>1, MinIs
    <2>3. SubSeq(line, 1, c - 1) \in Seq(S) /\ SubSeq(line, c + 1, Len(line)) \in Seq(S)
        OBVIOUS
    <2>4. Trimmed(SubSeq(line, 1, c - 1)) \in Seq(S) /\ Trimmed(SubSeq(line, c + 1, Len(line))) \in Seq(S)
        BY <2>3, TrimmedIs
    <2> QED
        BY <1>2, <2>2, <2>4 DEF Name, Value
<1> QED
    BY <1>1, <1>2

\* A line of blanks with one colon among them, or none.
LEMMA BorderIs ==
    ASSUME NEW line \in Line
    PROVE  Name(line) = <<>> /\ Value(line) = <<>> <=>
             \A j \in DOMAIN line :
                /\ line[j] \in {"b", ":"}
                /\ \A k \in 1 .. j - 1 : line[j] = ":" => line[k] # ":"
<1>1. line \in Seq(Octet) /\ Len(line) \in Nat /\ DOMAIN line = 1 .. Len(line)
    BY DEF Line
<1>2. Colons(line) = {j \in 1 .. Len(line) : line[j] = ":"}
    BY <1>1 DEF Colons
<1>3. CASE Colons(line) = {}
    <2>1. Name(line) = <<>> /\ Value(line) = <<>> <=> \A j \in 1 .. Len(line) : line[j] = "b"
        BY <1>1, <1>3, TrimmedIs DEF Name, Value
    <2>2. \A j \in 1 .. Len(line) : line[j] # ":"
        BY <1>2, <1>3
    <2> QED
        BY <1>1, <2>1, <2>2
<1>4. CASE Colons(line) # {}
    <2>1. Colons(line) \in SUBSET Nat /\ Colons(line) \subseteq 1 .. Len(line)
        BY <1>2
    <2>2. PICK c \in 1 .. Len(line) :
                 c = Min(Colons(line)) /\ line[c] = ":" /\ \A y \in Colons(line) : c <= y
        BY <1>2, <1>4, <2>1, MinIs
    <2> DEFINE u == SubSeq(line, 1, c - 1)
               v == SubSeq(line, c + 1, Len(line))
    <2>3. u \in Seq(Octet) /\ Len(u) = c - 1 /\ \A j \in 1 .. c - 1 : u[j] = line[j]
        <3>1. \A j \in 1 .. c - 1 : line[j] \in Octet
            BY <1>1
        <3> QED
            BY <1>1, <3>1
    <2>4. /\ v \in Seq(Octet) /\ Len(v) = Len(line) - c
          /\ \A j \in 1 .. Len(line) - c : v[j] = line[c + j]
        <3>1. c \in 0 .. Len(line)
            BY <1>1
        <3>2. ASSUME NEW w \in Seq(Octet), NEW k \in 0 .. Len(w)
              PROVE  /\ SubSeq(w, k + 1, Len(w)) \in Seq(Octet)
                     /\ Len(SubSeq(w, k + 1, Len(w))) = Len(w) - k
                     /\ \A j \in 1 .. Len(w) - k : SubSeq(w, k + 1, Len(w))[j] = w[k + j]
            BY SubSeqIs
        <3> QED
            BY <1>1, <3>1, <3>2, Zenon
    <2>5. Name(line) = Trimmed(u) /\ Value(line) = Trimmed(v)
        BY <1>4, <2>2 DEF Name, Value
    <2> HIDE DEF u, v
    <2>6. Name(line) = <<>> <=> \A j \in 1 .. c - 1 : line[j] = "b"
        BY <2>3, <2>5, TrimmedIs
    <2>7. Value(line) = <<>> <=> \A j \in c + 1 .. Len(line) : line[j] = "b"
        <3>1. Value(line) = <<>> <=> \A j \in 1 .. Len(line) - c : line[c + j] = "b"
            BY <2>4, <2>5, TrimmedIs
        <3>2. ASSUME \A j \in 1 .. Len(line) - c : line[c + j] = "b", NEW j \in c + 1 .. Len(line)
              PROVE  line[j] = "b"
            <4>1. j - c \in 1 .. Len(line) - c /\ c + (j - c) = j
                BY <1>1
            <4> QED
                BY <3>2, <4>1
        <3>3. \A j \in 1 .. Len(line) - c : c + j \in c + 1 .. Len(line)
            BY <1>1
        <3> QED
            BY <3>1, <3>2, <3>3
    <2>8. ASSUME Name(line) = <<>>, Value(line) = <<>>, NEW j \in 1 .. Len(line)
          PROVE  /\ line[j] \in {"b", ":"}
                 /\ \A k \in 1 .. j - 1 : line[j] = ":" => line[k] # ":"
        <3>1. j \in 1 .. c - 1 \/ j = c \/ j \in c + 1 .. Len(line)
            BY <1>1
        <3>2. \A k \in 1 .. c - 1 : line[k] = "b"
            BY <2>6, <2>8
        <3>3. \A k \in c + 1 .. Len(line) : line[k] = "b"
            BY <2>7, <2>8
        <3> QED
            BY <2>2, <3>1, <3>2, <3>3
    <2>9. ASSUME \A j \in 1 .. Len(line) :
                    /\ line[j] \in {"b", ":"}
                    /\ \A k \in 1 .. j - 1 : line[j] = ":" => line[k] # ":"
          PROVE  Name(line) = <<>> /\ Value(line) = <<>>
        <3>1. ASSUME NEW j \in 1 .. c - 1
              PROVE  line[j] = "b"
            <4>1. j \in 1 .. Len(line) /\ ~(c <= j)
                BY <1>1
            <4> QED
                BY <1>2, <2>2, <2>9, <4>1
        <3>2. ASSUME NEW j \in c + 1 .. Len(line)
              PROVE  line[j] = "b"
            <4>1. j \in 1 .. Len(line) /\ c \in 1 .. j - 1
                BY <1>1
            <4> QED
                BY <2>2, <2>9, <4>1
        <3> QED
            BY <2>6, <2>7, <3>1, <3>2
    <2> QED
        BY <1>1, <2>8, <2>9
<1> QED
    BY <1>3, <1>4

LEMMA SeparatorsAreBorders ==
    ASSUME NEW text \in Seq(Line)
    PROVE  Separators(text) = Borders(text) /\ Separators(text) \in SUBSET Nat
<1>1. \A i \in DOMAIN text : text[i] \in Line /\ i \in Nat
    OBVIOUS
<1>2. ASSUME NEW i \in DOMAIN text
      PROVE  i \in Separators(text) <=> i \in Borders(text)
    <2>1. text[i] \in Line
        BY <1>1
    <2> QED
        BY <2>1, BorderIs, Zenon DEF Separators, Borders
<1> QED
    BY <1>1, <1>2 DEF Separators, Borders

\* The last header with the name of a header.
LEMMA LastOfName ==
    ASSUME NEW text, NEW n \in Nat, NEW i \in 1 .. n
    PROVE  \E k \in 1 .. n : /\ Name(text[k]) = Name(text[i])
                            /\ \A j \in k + 1 .. n : Name(text[j]) # Name(text[k])
<1> DEFINE T == {d \in Nat : d < n /\ Name(text[n - d]) = Name(text[i])}
<1>1. n - i \in T
    <2>1. n - (n - i) = i /\ n - i \in Nat /\ n - i < n
        OBVIOUS
    <2> QED
        BY <2>1
<1>2. PICK d \in T : \A e \in T : d <= e
    BY <1>1, Least
<1>3. PICK k \in 1 .. n : k = n - d
    BY <1>2
<1>4. ASSUME NEW j \in k + 1 .. n, Name(text[j]) = Name(text[k])
      PROVE  FALSE
    <2>1. n - j \in Nat /\ n - j < n /\ n - (n - j) = j /\ ~(d <= n - j)
        BY <1>2, <1>3
    <2>2. Name(text[j]) = Name(text[i])
        BY <1>2, <1>3, <1>4
    <2> QED
        BY <1>2, <2>1, <2>2
<1> QED
    BY <1>2, <1>3, <1>4

LEMMA MessageFormatType ==
    ASSUME NEW text \in Seq(Line), Separators(text) # {}
    PROVE  /\ MessageFormat(text).headers \subseteq Line \X Line
           /\ MessageFormat(text).body \in Seq(Line)
<1>1. PICK n \in 1 .. Len(text) : n = Min(Separators(text))
    <2>1. Separators(text) \in SUBSET Nat
        BY SeparatorsAreBorders
    <2>2. Min(Separators(text)) \in Separators(text)
        BY <2>1, MinIs
    <2>3. Min(Separators(text)) \in 1 .. Len(text)
        BY <2>2 DEF Separators
    <2> QED
        BY <2>3
<1>2. Len(text) \in Nat /\ n \in Nat /\ \A i \in 1 .. Len(text) : text[i] \in Line
    OBVIOUS
<1>3. ASSUME NEW i \in 1 .. n - 1
      PROVE  <<Recoded(Name(text[i])), Recoded(Value(text[i]))>> \in Line \X Line
    <2>1. text[i] \in Line
        BY <1>2
    <2>2. Name(text[i]) \in Line /\ Value(text[i]) \in Line
        BY <2>1, NameValue DEF Line
    <2> QED
        BY <2>2, RecodedIs
<1>4. \A i \in 1 .. Len(text) - n : Recoded(text[n + i]) \in Line
    BY <1>2, RecodedIs
<1>5. [i \in 1 .. Len(text) - n |-> Recoded(text[n + i])] \in Seq(Line)
    <2>1. Len(text) - n \in Nat
        BY <1>2
    <2> QED
        BY <1>4, <2>1
<1>6. {<<Recoded(Name(text[i])), Recoded(Value(text[i]))>> :
         i \in {j \in 1 .. n - 1 : Kept(text, j)}} \subseteq Line \X Line
    BY <1>3
<1> QED
    BY <1>1, <1>5, <1>6 DEF MessageFormat

LEMMA Shows ==
    ASSUME NEW text \in Seq(Line), Separators(text) # {}
    PROVE  LET n == Min(Borders(text))
               seen == MessageFormat(text)
           IN  /\ Len(seen.body) = Len(text) - n
               /\ \A i \in DOMAIN seen.body : Plain(text[n + i]) => seen.body[i] = text[n + i]
               /\ (\A i \in 1 .. n - 1 : Plain(text[i])) =>
                     /\ {h[1] : h \in seen.headers} = {Name(text[i]) : i \in 1 .. n - 1}
                     /\ \A h \in seen.headers :
                           \E i \in 1 .. n - 1 :
                              /\ h = <<Name(text[i]), Value(text[i])>>
                              /\ \A j \in i + 1 .. n - 1 : Name(text[j]) # h[1]
<1> DEFINE seen == MessageFormat(text)
<1>1. /\ Len(text) \in Nat /\ DOMAIN text = 1 .. Len(text)
      /\ \A i \in 1 .. Len(text) : text[i] \in Line
    OBVIOUS
<1>2. \A line \in Seq(ASCII) : line \in Line /\ Recoded(line) = line
    <2>1. \A line \in Seq(ASCII) : line \in Line
        BY DEF ASCII, Line
    <2> QED
        BY <2>1, RecodedIs
<1>3. PICK n \in 1 .. Len(text) : n = Min(Borders(text)) /\ n = Min(Separators(text))
    <2>1. Separators(text) \in SUBSET Nat /\ Separators(text) = Borders(text)
        BY SeparatorsAreBorders
    <2>2. Min(Separators(text)) \in Separators(text)
        BY <2>1, MinIs
    <2>3. Min(Separators(text)) \in 1 .. Len(text)
        BY <2>2 DEF Separators
    <2> QED
        BY <2>1, <2>3
<1>4. /\ seen.headers = {<<Recoded(Name(text[i])), Recoded(Value(text[i]))>> :
                          i \in {j \in 1 .. n - 1 : Kept(text, j)}}
      /\ seen.body = [i \in 1 .. Len(text) - n |-> Recoded(text[n + i])]
    BY <1>3 DEF MessageFormat
<1> HIDE DEF seen
<1>5. /\ Len(seen.body) = Len(text) - n
      /\ \A i \in DOMAIN seen.body : Plain(text[n + i]) => seen.body[i] = text[n + i]
    <2>1. Len(text) - n \in Nat
        BY <1>1
    <2>2. ASSUME NEW i \in 1 .. Len(text) - n, Plain(text[n + i])
          PROVE  Recoded(text[n + i]) = text[n + i]
        <3>1. text[n + i] \in Line
            BY <1>1
        <3> QED
            BY <1>2, <2>2, <3>1, ASCIILine
    <2> QED
        BY <1>4, <2>1, <2>2
<1>6. ASSUME \A i \in 1 .. n - 1 : Plain(text[i])
      PROVE  /\ {h[1] : h \in seen.headers} = {Name(text[i]) : i \in 1 .. n - 1}
             /\ \A h \in seen.headers :
                   \E i \in 1 .. n - 1 :
                      /\ h = <<Name(text[i]), Value(text[i])>>
                      /\ \A j \in i + 1 .. n - 1 : Name(text[j]) # h[1]
    <2>1. ASSUME NEW i \in 1 .. n - 1
          PROVE  Recoded(Name(text[i])) = Name(text[i]) /\ Recoded(Value(text[i])) = Value(text[i])
        <3>1. text[i] \in Line
            BY <1>1
        <3>2. text[i] \in Seq(ASCII)
            BY <1>6, <3>1, ASCIILine
        <3> QED
            BY <1>2, <3>2, NameValue
    <2>2. seen.headers = {<<Name(text[i]), Value(text[i])>> : i \in {j \in 1 .. n - 1 : Kept(text, j)}}
        BY <1>4, <2>1
    <2>3. \A i : Kept(text, i) <=> \A j \in i + 1 .. n - 1 : Name(text[j]) # Name(text[i])
        BY <1>3 DEF Kept
    <2>4. ASSUME NEW h \in seen.headers
          PROVE  \E i \in 1 .. n - 1 :
                    /\ h = <<Name(text[i]), Value(text[i])>>
                    /\ \A j \in i + 1 .. n - 1 : Name(text[j]) # h[1]
        <3>1. PICK i \in 1 .. n - 1 : h = <<Name(text[i]), Value(text[i])>> /\ Kept(text, i)
            BY <2>2
        <3>2. h[1] = Name(text[i])
            BY <3>1
        <3> QED
            BY <2>3, <3>1, <3>2
    <2>5. ASSUME NEW i \in 1 .. n - 1
          PROVE  Name(text[i]) \in {h[1] : h \in seen.headers}
        <3>1. n - 1 \in Nat
            BY <1>1
        <3>2. PICK k \in 1 .. n - 1 : /\ Name(text[k]) = Name(text[i])
                                      /\ \A j \in k + 1 .. n - 1 : Name(text[j]) # Name(text[k])
            BY <3>1, LastOfName, Zenon
        <3>3. <<Name(text[k]), Value(text[k])>> \in seen.headers
            BY <2>2, <2>3, <3>2
        <3> QED
            BY <3>2, <3>3
    <2>6. ASSUME NEW h \in seen.headers
          PROVE  h[1] \in {Name(text[i]) : i \in 1 .. n - 1}
        <3>1. PICK i \in 1 .. n - 1 : h = <<Name(text[i]), Value(text[i])>>
            BY <2>4
        <3> QED
            BY <3>1
    <2> QED
        BY <2>4, <2>5, <2>6
<1> QED
    BY <1>3, <1>5, <1>6 DEF seen

-----------------------------------------------------------------------------
(* The way of a text.                                                      *)

\* The lines of a text are those that were read and those still on the wire, and the
\* final dot comes with the last of them.
Unread(text) ==
    \E rest \in Seq(Line) :
       /\ text = lines \o rest
       /\ wire = Encode(rest)
       /\ lines # <<>> => rest # <<>>

\* A text whose lines pass the limit of the next server, too.
Sound(text) == IsMail(text) /\ Fits(text) /\ text # <<>>

\* The inductive invariant of MailText, apart from the types.
WayInv ==
    /\ stage = "idle" => lines = <<>>
    /\ stage \in {"sending", "relaying"} => Fits(lines)
    /\ stage = "sending" => Unread(mail)
    /\ stage = "refused" => mail = <<>> \/ ~Fits(mail) \/ Size(mail) > MaxSize
    /\ stage = "received" => lines = mail /\ wire = <<>> /\ Fits(mail) /\ mail # <<>>
    /\ stage \in {"accepted", "shown", "unreadable"} => Sound(data)
    /\ stage \in {"queued", "relaying", "kept", "relayed"} /\ SevenBit(mail) => Sound(data)
    /\ stage = "relaying" => Unread(data)
    /\ stage = "kept" /\ SevenBit(mail) => Size(mail) + Size(<<MessageID>>) > MaxSize
    /\ stage = "relayed" => lines = data /\ wire = <<>>
    /\ stage = "shown" => shown = MessageFormat(data) /\ Separators(data) # {}
    /\ stage = "unreadable" => Separators(data) = {}

TextInv == TypeOK /\ WayInv

LEMMA UnreadFails ==
    ASSUME NEW text \in Seq(Line), lines \in Seq(Line), Unread(text), LoneDot \/ TooLong
    PROVE  text = <<>> \/ ~Fits(text)
<1>1. PICK rest \in Seq(Line) :
             text = lines \o rest /\ wire = Encode(rest) /\ (lines # <<>> => rest # <<>>)
    BY DEF Unread
<1>2. CASE rest = <<>>
    <2>1. lines = <<>>
        BY <1>1, <1>2
    <2>2. text = <<>>
        BY <1>1, <1>2, <2>1, ConcatEmptySeq
    <2> QED
        BY <2>2
<1>3. CASE rest # <<>>
    <2>1. PICK line \in Line, more \in Seq(Line) : rest = <<line>> \o more
        BY <1>3, FirstAndRest
    <2>2. ~LoneDot /\ Unstuffed = line
        BY <1>1, <2>1, ReadsLine
    <2>3. Len(line) > MaxLine
        BY <2>2 DEF TooLong
    <2>4. rest[1] = line /\ Len(rest) \in Nat /\ Len(rest) >= 1
        BY <2>1
    <2>5. text[Len(lines) + 1] = line /\ Len(lines) + 1 \in 1 .. Len(text)
        <3>1. ASSUME NEW u \in Seq(Line), NEW v \in Seq(Line)
              PROVE  /\ Len(u \o v) = Len(u) + Len(v) /\ Len(u) \in Nat
                     /\ \A i \in 1 .. Len(v) : (u \o v)[Len(u) + i] = v[i]
            BY ConcatIs
        <3>2. /\ Len(text) = Len(lines) + Len(rest) /\ Len(lines) \in Nat
              /\ \A i \in 1 .. Len(rest) : text[Len(lines) + i] = rest[i]
            BY <1>1, <3>1
        <3> QED
            BY <2>4, <3>2
    <2>6. ~(Len(line) <= MaxLine)
        BY <2>3, TextAssumption DEF Line
    <2> QED
        BY <2>5, <2>6 DEF Fits
<1> QED
    BY <1>2, <1>3

LEMMA UnreadLine ==
    ASSUME NEW text \in Seq(Line), lines \in Seq(Line), Unread(text), Fits(lines),
           ~LoneDot, ~TooLong
    PROVE  LET read == Append(lines, Unstuffed) IN
           /\ read \in Seq(Line) /\ Fits(read)
           /\ Terminated => /\ read = text /\ text # <<>>
                            /\ SubSeq(Rest, Len(Terminator) + 1, Len(Rest)) = <<>>
           /\ ~Terminated => \E rest \in Seq(Line) :
                               text = read \o rest /\ Rest = Encode(rest) /\ rest # <<>>
           /\ Size(read) <= Size(text)
           /\ Rest \in Seq(Sent)
<1>1. PICK rest \in Seq(Line) : text = lines \o rest /\ wire = Encode(rest)
    BY DEF Unread
<1>2. rest # <<>>
    BY <1>1, ReadsEnd
<1>3. PICK line \in Line, more \in Seq(Line) : rest = <<line>> \o more
    BY <1>2, FirstAndRest
<1>4. /\ Unstuffed = line /\ Rest = Encode(more)
      /\ Terminated <=> more = <<>>
    BY <1>1, <1>3, ReadsLine
<1> DEFINE read == Append(lines, line)
<1>5. Append(lines, Unstuffed) = read
    BY <1>4
<1>6. read \in Seq(Line) /\ read # <<>> /\ read = lines \o <<line>>
    BY AppendProperties, AppendIsConcat
<1>7. Fits(read)
    <2>1. line \in FitLine
        BY <1>4, TextAssumption DEF TooLong, FitLine, Line
    <2>2. lines \in Seq(FitLine)
        BY FitsIs
    <2>3. read \in Seq(FitLine)
        BY <2>1, <2>2
    <2> QED
        BY <1>6, <2>3, FitsIs
<1>8. text = read \o more
    <2>1. <<line>> \in Seq(Line)
        OBVIOUS
    <2>2. lines \o (<<line>> \o more) = (lines \o <<line>>) \o more
        BY <2>1, ConcatAssociative
    <2> QED
        BY <1>1, <1>3, <1>6, <2>2
<1>9. Rest \in Seq(Sent) /\ Size(read) <= Size(text)
    BY <1>4, <1>6, <1>8, EncodeIs, SizeOfPrefix
<1> HIDE DEF read
<1>10. ASSUME Terminated
       PROVE  /\ read = text /\ text # <<>>
              /\ SubSeq(Rest, Len(Terminator) + 1, Len(Rest)) = <<>>
    <2>1. more = <<>> /\ Rest = Terminator
        BY <1>4, <1>10, EncodeIs
    <2>2. read = text
        BY <1>6, <1>8, <2>1, ConcatEmptySeq
    <2>3. SubSeq(Rest, Len(Terminator) + 1, Len(Rest)) = <<>>
        BY <2>1, TerminatorIs, SubSeqEmpty
    <2> QED
        BY <1>6, <2>2, <2>3
<1> QED
    BY <1>4, <1>5, <1>6, <1>7, <1>8, <1>9, <1>10

LEMMA MailType ==
    ASSUME NEW m \in Mail
    PROVE  m \in Seq(Line)
<1>1. ASSUME NEW S, NEW k \in Nat, NEW s \in BoundedSeq(S, k)
      PROVE  s \in Seq(S)
    <2>1. PICK n \in 0 .. k : s \in [1 .. n -> S]
        BY <1>1 DEF BoundedSeq, SeqOf
    <2> QED
        BY <2>1
<1>2. ASSUME NEW L, L \subseteq Line, NEW s \in BoundedSeq(L, MaxLines)
      PROVE  s \in Seq(Line)
    <2>1. s \in Seq(L)
        BY <1>1, <1>2, TextAssumption
    <2> QED
        BY <1>2, <2>1
<1> DEFINE Dots(n) == [i \in 1 .. n |-> "."]
           Short == BoundedSeq(Octet, MaxOctets)
           AllDots == {Dots(n) : n \in 0 .. MaxLine + 1}
<1>3. Short \subseteq Line
    BY <1>1, TextAssumption DEF Line
<1>4. AllDots \subseteq Line
    <2>1. \A n \in Nat : Dots(n) \in Seq(Octet)
        BY DEF Octet
    <2>2. \A n \in 0 .. MaxLine + 1 : n \in Nat
        BY TextAssumption
    <2> HIDE DEF Dots
    <2> QED
        BY <2>1, <2>2 DEF Line
<1>5. m \in BoundedSeq(Short, MaxLines) \/ m \in BoundedSeq(AllDots, MaxLines)
    BY DEF Mail
<1> HIDE DEF Short, AllDots
<1> QED
    BY <1>2, <1>3, <1>4, <1>5

\* Lines of a text that is sound are ASCII if those of the mail are.
LEMMA SoundASCII ==
    ASSUME mail \in Seq(Line), NEW text \in Seq(Line), IsMail(text), mail # <<>>, SevenBit(mail)
    PROVE  text \in Seq(Seq(ASCII)) /\ SevenBit(text)
<1>1. mail \in Seq(Seq(ASCII))
    BY SevenBitIs
<1>2. text \in Seq(Seq(ASCII))
    BY <1>1, MailIn, MessageIDIs
<1> QED
    BY <1>2, SevenBitIs

LEMMA SendDataKeeps ==
    ASSUME TextInv, SendData
    PROVE  TextInv'
<1>1. /\ stage = "idle" /\ mail' \in Mail /\ wire' = Encode(mail') /\ stage' = "sending"
      /\ serverType' = serverType /\ lines' = lines /\ data' = data /\ shown' = shown
      /\ lines = <<>>
    BY DEF SendData, TextInv, WayInv
<1>2. mail' \in Seq(Line)
    BY <1>1, MailType
<1>3. wire' \in Seq(Sent)
    BY <1>1, <1>2, EncodeIs
<1>4. TypeOK'
    BY <1>1, <1>2, <1>3 DEF TextInv, TypeOK, Sent
<1>5. Unread(mail)'
    <2>1. mail' = lines' \o mail'
        BY <1>1, <1>2, ConcatEmptySeq
    <2> QED
        BY <1>1, <1>2, <2>1 DEF Unread
<1>6. Fits(lines')
    BY <1>1 DEF Fits
<1> QED
    BY <1>1, <1>4, <1>5, <1>6 DEF TextInv, WayInv

LEMMA DataFailsKeeps ==
    ASSUME TextInv, DataFails
    PROVE  TextInv'
<1>1. /\ mail \in Seq(Line) /\ lines \in Seq(Line) /\ data \in Seq(Line)
      /\ LoneDot \/ TooLong
      /\ UNCHANGED <<serverType, mail, wire, lines, data, shown>>
    BY DEF DataFails, TextInv, TypeOK
<1>2. CASE stage = "sending"
    <2>1. stage' = "refused"
        BY <1>2 DEF DataFails, Failed
    <2>2. mail = <<>> \/ ~Fits(mail)
        BY <1>1, <1>2, UnreadFails DEF TextInv, WayInv
    <2>3. TypeOK'
        BY <1>1, <2>1 DEF TextInv, TypeOK
    <2> QED
        BY <1>1, <2>1, <2>2, <2>3 DEF TextInv, WayInv
<1>3. CASE stage = "relaying"
    <2>1. stage' = "kept"
        BY <1>3 DEF DataFails, Failed
    <2>2. data = <<>> \/ ~Fits(data)
        BY <1>1, <1>3, UnreadFails DEF TextInv, WayInv
    <2>3. ~SevenBit(mail)
        BY <1>3, <2>2 DEF TextInv, WayInv, Sound
    <2>4. TypeOK'
        BY <1>1, <2>1 DEF TextInv, TypeOK
    <2> QED
        BY <1>1, <2>1, <2>3, <2>4 DEF TextInv, WayInv
<1> QED
    BY <1>2, <1>3 DEF DataFails

LEMMA DataLineKeeps ==
    ASSUME TextInv, DataLine
    PROVE  TextInv'
<1>1. /\ mail \in Seq(Line) /\ lines \in Seq(Line) /\ data \in Seq(Line)
      /\ stage \in {"sending", "relaying"} /\ Fits(lines)
      /\ ~LoneDot /\ ~TooLong
      /\ lines' = Append(lines, Unstuffed)
      /\ wire' = IF Terminated THEN SubSeq(Rest, Len(Terminator) + 1, Len(Rest)) ELSE Rest
      /\ stage' = IF Size(lines') > MaxSize THEN Failed
                  ELSE IF Terminated THEN Taken ELSE stage
      /\ UNCHANGED <<serverType, mail, data, shown>>
    BY DEF DataLine, TextInv, TypeOK, WayInv
<1> DEFINE text == IF stage = "sending" THEN mail ELSE data
<1>2. text \in Seq(Line) /\ Unread(text)
    BY <1>1 DEF TextInv, WayInv
<1> HIDE DEF text
<1>3. /\ lines' \in Seq(Line) /\ Fits(lines') /\ Size(lines') <= Size(text)
      /\ Terminated => lines' = text /\ text # <<>> /\ wire' = <<>>
      /\ ~Terminated => \E rest \in Seq(Line) :
                          text = lines' \o rest /\ wire' = Encode(rest) /\ rest # <<>>
      /\ Rest \in Seq(Sent)
    BY <1>1, <1>2, UnreadLine
<1>4. wire' \in Seq(Octet \cup {"CR", "LF"})
    BY <1>1, <1>3 DEF Sent
<1>5. CASE Size(lines') > MaxSize
    <2>1. Size(text) > MaxSize
        <3>1. Size(lines') \in Nat /\ Size(text) \in Nat
            BY <1>2, <1>3, SizeIs
        <3> QED
            BY <1>3, <1>5, <3>1, TextAssumption
    <2>2. CASE stage = "sending"
        <3>1. stage' = "refused" /\ text = mail
            BY <1>1, <1>5, <2>2 DEF text, Failed
        <3>2. TypeOK'
            BY <1>1, <1>3, <1>4, <3>1 DEF TextInv, TypeOK
        <3> QED
            BY <1>1, <2>1, <3>1, <3>2 DEF TextInv, WayInv
    <2>3. CASE stage = "relaying"
        <3>1. stage' = "kept" /\ text = data
            BY <1>1, <1>5, <2>3 DEF text, Failed
        <3>2. TypeOK'
            BY <1>1, <1>3, <1>4, <3>1 DEF TextInv, TypeOK
        <3>3. (SevenBit(mail) => Sound(data))'
            BY <1>1, <2>3 DEF TextInv, WayInv, Sound, IsMail
        <3>4. SevenBit(mail) => Size(mail) + Size(<<MessageID>>) > MaxSize
            <4> SUFFICES ASSUME SevenBit(mail)
                         PROVE  Size(mail) + Size(<<MessageID>>) > MaxSize
                OBVIOUS
            <4>1. IsMail(data)
                BY <2>3 DEF TextInv, WayInv, Sound
            <4>2. /\ Size(data) <= Size(mail) + Size(<<MessageID>>)
                  /\ Size(mail) \in Nat /\ Size(<<MessageID>>) \in Nat /\ Size(data) \in Nat
                BY <1>1, <4>1, SizeOfMail
            <4> QED
                BY <2>1, <3>1, <4>2, TextAssumption
        <3> QED
            BY <1>1, <3>1, <3>2, <3>3, <3>4 DEF TextInv, WayInv
    <2> QED
        BY <1>1, <2>2, <2>3
<1>6. CASE ~(Size(lines') > MaxSize) /\ Terminated
    <2>1. wire' = <<>> /\ lines' = text /\ text # <<>>
        BY <1>3, <1>6
    <2>2. CASE stage = "sending"
        <3>1. stage' = "received" /\ text = mail
            BY <1>1, <1>6, <2>2 DEF text, Taken
        <3>2. TypeOK'
            BY <1>1, <1>3, <1>4, <3>1 DEF TextInv, TypeOK
        <3> QED
            BY <1>1, <1>3, <2>1, <3>1, <3>2 DEF TextInv, WayInv
    <2>3. CASE stage = "relaying"
        <3>1. stage' = "relayed" /\ text = data
            BY <1>1, <1>6, <2>3 DEF text, Taken
        <3>2. TypeOK'
            BY <1>1, <1>3, <1>4, <3>1 DEF TextInv, TypeOK
        <3>3. (SevenBit(mail) => Sound(data))'
            BY <1>1, <2>3 DEF TextInv, WayInv, Sound, IsMail
        <3> QED
            BY <1>1, <1>3, <2>1, <3>1, <3>2, <3>3 DEF TextInv, WayInv
    <2> QED
        BY <1>1, <2>2, <2>3
<1>7. CASE ~(Size(lines') > MaxSize) /\ ~Terminated
    <2>1. stage' = stage
        BY <1>1, <1>7
    <2>2. TypeOK'
        BY <1>1, <1>3, <1>4, <2>1 DEF TextInv, TypeOK
    <2>3. \E rest \in Seq(Line) : text = lines' \o rest /\ wire' = Encode(rest) /\ rest # <<>>
        BY <1>3, <1>7
    <2>4. CASE stage = "sending"
        <3>1. Unread(mail)'
            BY <1>1, <2>3, <2>4 DEF Unread, text
        <3> QED
            BY <1>1, <1>3, <2>1, <2>2, <2>4, <3>1 DEF TextInv, WayInv
    <2>5. CASE stage = "relaying"
        <3>1. Unread(data)'
            BY <1>1, <2>3, <2>5 DEF Unread, text
        <3>2. (SevenBit(mail) => Sound(data))'
            BY <1>1, <2>5 DEF TextInv, WayInv, Sound, IsMail
        <3> QED
            BY <1>1, <1>3, <2>1, <2>2, <2>5, <3>1, <3>2 DEF TextInv, WayInv
    <2> QED
        BY <1>1, <2>4, <2>5
<1> QED
    BY <1>5, <1>6, <1>7

LEMMA HandleDataKeeps ==
    ASSUME TextInv, HandleData
    PROVE  TextInv'
<1>1. /\ mail \in Seq(Line) /\ lines = mail /\ mail # <<>> /\ Fits(mail)
      /\ data' = (IF serverType = "send" THEN AppendHeader(lines) ELSE lines)
      /\ stage' = "accepted"
      /\ UNCHANGED <<serverType, mail, wire, lines, shown>>
    BY DEF HandleData, TextInv, TypeOK, WayInv
<1>2. IsMail(data')
    <2>1. CASE serverType = "send"
        BY <1>1, <2>1, AppendHeaderIs
    <2>2. CASE serverType # "send"
        BY <1>1, <2>2 DEF IsMail
    <2> QED
        BY <2>1, <2>2
<1>3. data' \in Seq(FitLine) /\ data' # <<>>
    <2>1. mail \in Seq(FitLine)
        BY <1>1, FitsIs
    <2> QED
        BY <1>1, <1>2, <2>1, MailIn, MessageIDIs
<1>4. data' \in Seq(Line)
    BY <1>3 DEF FitLine
<1>5. Fits(data')
    BY <1>3, <1>4, FitsIs
<1>6. Sound(data)'
    BY <1>1, <1>2, <1>3, <1>5 DEF Sound, IsMail
<1>7. TypeOK'
    BY <1>1, <1>4 DEF TextInv, TypeOK
<1> QED
    BY <1>1, <1>6, <1>7 DEF TextInv, WayInv

LEMMA QueueKeeps ==
    ASSUME TextInv, Queue
    PROVE  TextInv'
<1>1. /\ mail \in Seq(Line) /\ data \in Seq(Line) /\ Sound(data)
      /\ data' = [i \in DOMAIN data |-> JSON(data[i])]
      /\ stage' = "queued"
      /\ UNCHANGED <<serverType, mail, wire, lines, shown>>
    BY DEF Queue, TextInv, TypeOK, WayInv
<1>2. DOMAIN data = 1 .. Len(data) /\ Len(data) \in Nat /\ \A i \in 1 .. Len(data) : data[i] \in Line
    BY <1>1
<1>3. data' \in Seq(Line)
    BY <1>1, <1>2, JSONIs
<1>4. SevenBit(mail) => data' = data
    <2> SUFFICES ASSUME SevenBit(mail)
                 PROVE  data' = data
        OBVIOUS
    <2>1. mail # <<>>
        <3>1. data # <<>>
            BY <1>1 DEF Sound
        <3> QED
            BY <1>1, <3>1 DEF Sound, IsMail, EmptyLines
    <2>2. data \in Seq(Seq(ASCII))
        BY <1>1, <2>1, SoundASCII DEF Sound
    <2>3. \A i \in 1 .. Len(data) : JSON(data[i]) = data[i]
        BY <1>2, <2>2, JSONIs
    <2>4. data = [i \in 1 .. Len(data) |-> data[i]]
        BY <1>1
    <2> QED
        BY <1>1, <1>2, <2>3, <2>4
<1>5. (SevenBit(mail) => Sound(data))'
    BY <1>1, <1>4 DEF Sound, IsMail
<1>6. TypeOK'
    BY <1>1, <1>3 DEF TextInv, TypeOK
<1> QED
    BY <1>1, <1>5, <1>6 DEF TextInv, WayInv

LEMMA RelayKeeps ==
    ASSUME TextInv, Relay
    PROVE  TextInv'
<1>1. /\ data \in Seq(Line) /\ stage = "queued"
      /\ wire' = Encode(data) /\ lines' = <<>> /\ stage' = "relaying"
      /\ UNCHANGED <<serverType, mail, data, shown>>
    BY DEF Relay, TextInv, TypeOK
<1>2. wire' \in Seq(Sent)
    BY <1>1, EncodeIs
<1>3. TypeOK'
    BY <1>1, <1>2 DEF TextInv, TypeOK, Sent
<1>4. Unread(data)'
    <2>1. data' = lines' \o data'
        BY <1>1, ConcatEmptySeq
    <2> QED
        BY <1>1, <2>1 DEF Unread
<1>5. Fits(lines')
    BY <1>1 DEF Fits
<1>6. (SevenBit(mail) => Sound(data))'
    BY <1>1 DEF TextInv, WayInv, Sound, IsMail
<1> QED
    BY <1>1, <1>3, <1>4, <1>5, <1>6 DEF TextInv, WayInv

LEMMA FetchKeeps ==
    ASSUME TextInv, Fetch
    PROVE  TextInv'
<1>1. /\ data \in Seq(Line) /\ Sound(data)
      /\ UNCHANGED <<serverType, mail, wire, lines, data>>
    BY DEF Fetch, TextInv, TypeOK, WayInv
<1>2. Sound(data)'
    BY <1>1 DEF Sound, IsMail
<1>3. CASE Separators(data) = {}
    <2>1. stage' = "unreadable" /\ shown' = shown
        BY <1>3 DEF Fetch
    <2>2. TypeOK'
        BY <1>1, <2>1 DEF TextInv, TypeOK
    <2>3. Separators(data)' = {}
        BY <1>1, <1>3
    <2> QED
        BY <1>1, <1>2, <2>1, <2>2, <2>3 DEF TextInv, WayInv
<1>4. CASE Separators(data) # {}
    <2>1. stage' = "shown" /\ shown' = MessageFormat(data)
        BY <1>4 DEF Fetch
    <2>2. shown'.headers \subseteq Line \X Line /\ shown'.body \in Seq(Line)
        BY <1>1, <1>4, <2>1, MessageFormatType
    <2>3. TypeOK'
        BY <1>1, <2>1, <2>2 DEF TextInv, TypeOK
    <2>4. Separators(data)' # {} /\ shown' = MessageFormat(data)'
        BY <1>1, <1>4, <2>1
    <2> QED
        BY <1>1, <1>2, <2>1, <2>3, <2>4 DEF TextInv, WayInv
<1> QED
    BY <1>3, <1>4

\* Where each line of a text is, read, on the wire or yet to be sent, that the lines of
\* the texts accepted and queued pass the limit of the next server, and that only size
\* keeps an ASCII mail back, is kept by every step: the inductive invariant that the
\* theorems about a mail rest on (handleData, SendMail).
THEOREM TextInductive == PathSpec => []TextInv
<1>1. PathInit => TextInv
    BY DEF PathInit, Init, TextInv, TypeOK, WayInv
<1>2. TextInv /\ [PathNext]_<<vars, spfVars>> => TextInv'
    <2> SUFFICES ASSUME TextInv, [PathNext]_<<vars, spfVars>>
                 PROVE  TextInv'
        OBVIOUS
    <2>1. CASE SendData
        BY <2>1, SendDataKeeps
    <2>2. CASE DataFails
        BY <2>2, DataFailsKeeps
    <2>3. CASE DataLine
        BY <2>3, DataLineKeeps
    <2>4. CASE HandleData
        BY <2>4, HandleDataKeeps
    <2>5. CASE Queue
        BY <2>5, QueueKeeps
    <2>6. CASE Relay
        BY <2>6, RelayKeeps
    <2>7. CASE Fetch
        BY <2>7, FetchKeeps
    <2>8. CASE UNCHANGED vars
        <3>1. UNCHANGED <<serverType, mail, stage, wire, lines, data, shown>>
            BY <2>8 DEF vars
        <3>2. TypeOK'
            BY <3>1 DEF TextInv, TypeOK
        <3>3. (Unread(mail)' <=> Unread(mail)) /\ (Unread(data)' <=> Unread(data))
            BY <3>1 DEF Unread
        <3>4. Sound(data)' <=> Sound(data)
            BY <3>1 DEF Sound, IsMail
        <3> QED
            BY <3>1, <3>2, <3>3, <3>4 DEF TextInv, WayInv
    <2> QED
        BY <2>1, <2>2, <2>3, <2>4, <2>5, <2>6, <2>7, <2>8
        DEF PathNext, Verify, Begin, Take, Handle
<1> QED
    BY <1>1, <1>2, PTL DEF PathSpec

\* The variables of a mail and of the verification of its sender have their types.
THEOREM PathTypes == PathSpec => []PathTypeOK
<1>1. TextInv /\ VerifyInv => PathTypeOK
    BY DEF TextInv, VerifyInv, PathTypeOK
<1> QED
    BY <1>1, TextInductive, VerifyInductive, PTL

\* The data that handleData takes is the mail that the client sent, line for line, and
\* nothing of it is left to be read as a command; only a mail without a line, with a line
\* too long or of too many octets is refused, and the transaction has at most a
\* Message-ID more, before the first empty line (ReadDataLine, AppendHeader).  This
\* holds of every mail, however many lines and dots it has and whatever the limits.
THEOREM MailArrives == PathSpec => []DataArrives
<1>1. TextInv => DataArrives
    BY DEF TextInv, WayInv, Sound, DataArrives
<1> QED
    BY <1>1, TextInductive, PTL

\* An ASCII mail that was accepted passes the next server whole, unless its Message-ID
\* takes it past the limit of a mail: stuffing on the way out, and JSON in between, take
\* nothing away and add nothing, and no line gets too long (SendMail, ReadDataLine,
\* QueueMail).
THEOREM MailRelayed == PathSpec => []RelayedWhole
<1>1. TextInv => RelayedWhole
    BY DEF TextInv, WayInv, Sound, RelayedWhole
<1> QED
    BY <1>1, TextInductive, PTL

\* FETCH shows every mail that has a line of blanks and at most one colon, and ends its
\* header at the first: the lines after it are the body, line for line, those of ASCII as
\* they are, and of each name in an ASCII header the last line is shown
\* (NewMessageFormat, RawHeaders, RawBody).
THEOREM MailShown == PathSpec => []ShownAsStored
<1>1. ASSUME TextInv, stage \in {"shown", "unreadable"}
      PROVE  ShownAsStored
    <2>1. /\ data \in Seq(Line)
          /\ stage = "shown" => shown = MessageFormat(data) /\ Separators(data) # {}
          /\ stage = "unreadable" => Separators(data) = {}
        BY <1>1 DEF TextInv, TypeOK, WayInv
    <2>2. Separators(data) = Borders(data)
        BY <2>1, SeparatorsAreBorders
    <2>3. CASE stage = "unreadable"
        BY <2>1, <2>2, <2>3 DEF ShownAsStored
    <2>4. CASE stage = "shown"
        BY <2>1, <2>2, <2>4, Shows DEF ShownAsStored
    <2> QED
        BY <1>1, <2>3, <2>4
<1>2. TextInv => ShownAsStored
    BY <1>1 DEF ShownAsStored
<1> QED
    BY <1>2, TextInductive, PTL
=============================================================================
