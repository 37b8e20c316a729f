----------------------------- MODULE AuthzProofs ------------------------------
(***************************************************************************)
(* Theorems about the functions of authz.py, for all settings and calls.   *)
(***************************************************************************)
EXTENDS Authz, NaturalsInduction, WellFoundedInduction, TLAPS

(* The nested returns of check_authz compute the order of evaluation that  *)
(* the comment of authz.py gives, for every setting and every call: what   *)
(* is refused early is refused by that order, and a rule that raises lets  *)
(* nobody through.                                                         *)
THEOREM DecisionTheorem ==
    ASSUME NEW conf, NEW call
    PROVE  CheckAuthz(conf, call) = "yes" <=> Permits(conf, call)
<1>1. RbacCheck(conf, call) \in {"yes", "no", "none"}
  BY DEF RbacCheck
<1> QED BY <1>1 DEF CheckAuthz, Permits, Rbac, Acl, Abac

-----------------------------------------------------------------------------
(* Induction, for a set of numbers.                                        *)
LEMMA Induction ==
    ASSUME NEW S, 0 \in S, \A n \in Nat : n \in S => n + 1 \in S
    PROVE  Nat \subseteq S
<1> DEFINE Bad == Nat \ S
<1> SUFFICES ASSUME Bad # {} PROVE FALSE
  OBVIOUS
<1>1. IsWellFoundedOn(OpToRel(<, Nat), Nat)
  BY NatLessThanWellFounded
<1>2. PICK m \in Bad : \A k \in Bad : ~(<<k, m>> \in OpToRel(<, Nat))
  BY <1>1, WFMin
<1>3. m \in Nat /\ m \notin S
  BY <1>2
<1>6. m # 0 /\ m - 1 \in Nat /\ (m - 1) + 1 = m
  BY <1>3
<1>4. <<m - 1, m>> \in OpToRel(<, Nat)
  BY <1>3, <1>6 DEF OpToRel
<1>5. m - 1 \in S
  BY <1>2, <1>4, <1>6
<1> QED BY <1>3, <1>5, <1>6

(* A set of numbers that is not empty has a least.                         *)
LEMMA NatMin ==
    ASSUME NEW S \in SUBSET Nat, S # {}
    PROVE  Min(S) \in S /\ \A y \in S : Min(S) <= y
<1>1. IsWellFoundedOn(OpToRel(<, Nat), Nat)
  BY NatLessThanWellFounded
<1>2. PICK m \in S : \A k \in S : ~(<<k, m>> \in OpToRel(<, Nat))
  BY <1>1, WFMin
<1>3. ASSUME NEW k \in S PROVE m <= k
  <2>1. m \in Nat /\ k \in Nat /\ ~(k < m)
    BY <1>2 DEF OpToRel
  <2> QED BY <2>1
<1>4. \E x \in S : \A y \in S : x <= y
  BY <1>3
<1> QED BY <1>4 DEF Min

(* The greatest of the first n positions is n.                             *)
LEMMA MaxOfPrefix ==
    ASSUME NEW n \in Nat, n # 0, NEW s \in SUBSET (1..n), n \in s
    PROVE  Max(s) = n
<1>1. \A y \in s : n >= y
  OBVIOUS
<1>2. \E x \in s : \A y \in s : x >= y
  BY <1>1
<1>3. Max(s) \in s /\ \A y \in s : Max(s) >= y
  BY <1>2 DEF Max
<1>4. Max(s) \in 1..n /\ Max(s) >= n
  BY <1>3
<1> QED BY <1>4

(* What a parser has read after each set of entries.                       *)
Reads(entries, n, f) ==
    f = [s \in SUBSET (1..n) |->
            IF s = {} THEN <<>> ELSE Assign(f[s \ {Max(s)}], entries[Max(s)])]

LEMMA ReadsExists ==
    ASSUME NEW entries, NEW n \in Nat
    PROVE  \E f : Reads(entries, n, f)
<1> DEFINE S == {k \in Nat : \E f : Reads(entries, k, f)}
<1>1. 0 \in S
  <2> DEFINE f == [s \in SUBSET (1..0) |-> <<>>]
  <2>1. 1..0 = {}
    OBVIOUS
  <2>2. Reads(entries, 0, f)
    BY <2>1 DEF Reads
  <2> QED BY <2>2
<1>2. ASSUME NEW k \in Nat, k \in S PROVE k + 1 \in S
  <2>1. PICK f : Reads(entries, k, f)
    BY <1>2
  <2> DEFINE U == SUBSET (1..(k + 1))
             g == [s \in U |-> IF k + 1 \in s THEN Assign(f[s \ {k + 1}], entries[k + 1])
                               ELSE f[s]]
  <2>2. 1..(k + 1) = (1..k) \cup {k + 1} /\ k + 1 \notin 1..k
    OBVIOUS
  <2>3. ASSUME NEW s \in U
        PROVE  g[s] = IF s = {} THEN <<>> ELSE Assign(g[s \ {Max(s)}], entries[Max(s)])
    <3>1. CASE k + 1 \in s
      <4>1. Max(s) = k + 1
        BY <3>1, MaxOfPrefix
      <4>2. s \ {k + 1} \in SUBSET (1..k) /\ s \ {k + 1} \in U
        BY <2>2
      <4>3. g[s \ {k + 1}] = f[s \ {k + 1}]
        BY <4>2
      <4> QED BY <3>1, <4>1, <4>3
    <3>2. CASE k + 1 \notin s
      <4>1. s \in SUBSET (1..k) /\ g[s] = f[s]
        BY <2>2, <3>2
      <4>2. s \ {Max(s)} \in U /\ k + 1 \notin s \ {Max(s)}
        BY <3>2
      <4>3. g[s \ {Max(s)}] = f[s \ {Max(s)}]
        BY <4>2
      <4> QED BY <2>1, <4>1, <4>3 DEF Reads
    <3> QED BY <3>1, <3>2
  <2>4. Reads(entries, k + 1, g)
    <3> DEFINE h == [s \in U |-> IF s = {} THEN <<>>
                                 ELSE Assign(g[s \ {Max(s)}], entries[Max(s)])]
    <3>1. g = [s \in U |-> g[s]] /\ \A s \in U : g[s] = h[s]
      BY <2>3
    <3>2. g = h
      BY <3>1
    <3> QED BY <3>2 DEF Reads
  <2> QED BY <2>4
<1>3. Nat \subseteq S
  <2> HIDE DEF S
  <2> QED BY <1>1, <1>2, Induction
<1> QED BY <1>3

LEMMA DictReads ==
    ASSUME NEW E, NEW entries \in Seq(E)
    PROVE  \E f : /\ Reads(entries, Len(entries), f)
                  /\ Dict(entries) = f[1..Len(entries)]
<1> DEFINE n == Len(entries)
           F(f) == [s \in SUBSET (1..n) |->
                      IF s = {} THEN <<>> ELSE Assign(f[s \ {Max(s)}], entries[Max(s)])]
           f == CHOOSE h : h = F(h)
<1>1. n \in Nat /\ DOMAIN entries = 1..n
  OBVIOUS
<1>2. f = F(f)
  <2>1. \E h : h = F(h)
    BY <1>1, ReadsExists DEF Reads
  <2> HIDE DEF F
  <2> QED BY <2>1
<1>3. Dict(entries) = f[1..n]
  BY <1>1 DEF Dict, FoldLeft, MapThenFoldSet
<1> QED BY <1>2, <1>3 DEF Reads

(* What a parser has after the first n entries: for every key that they    *)
(* have one entry, the last of them.                                       *)
Newest(entries, n, e) ==
    \E j \in 1..n : /\ entries[j] # Malformed /\ e = entries[j]
                    /\ \A k \in 1..n :
                          entries[k] # Malformed /\ entries[k].key = e.key => k <= j

Agrees(entries, n, dict) ==
    /\ \A i \in DOMAIN dict : Newest(entries, n, dict[i])
    /\ \A j \in 1..n : entries[j] # Malformed =>
          \E i \in DOMAIN dict : dict[i].key = entries[j].key
    /\ \A i, k \in DOMAIN dict : dict[i].key = dict[k].key => i = k

LEMMA AssignAgrees ==
    ASSUME NEW E, NEW entries \in Seq(E), NEW n \in Nat, n + 1 <= Len(entries),
           NEW dict \in Seq(E), Agrees(entries, n, dict)
    PROVE  /\ Assign(dict, entries[n + 1]) \in Seq(E)
           /\ Agrees(entries, n + 1, Assign(dict, entries[n + 1]))
<1> DEFINE e == entries[n + 1]
           place == {i \in DOMAIN dict : dict[i].key = e.key}
           d == Assign(dict, e)
<1>1. /\ e \in E /\ 1..(n + 1) = (1..n) \cup {n + 1}
      /\ DOMAIN dict = 1..Len(dict) /\ Len(dict) \in Nat
  OBVIOUS
<1>2. /\ \A i \in DOMAIN dict : Newest(entries, n, dict[i])
      /\ \A j \in 1..n : entries[j] # Malformed =>
            \E i \in DOMAIN dict : dict[i].key = entries[j].key
      /\ \A i, k \in DOMAIN dict : dict[i].key = dict[k].key => i = k
  BY DEF Agrees
<1>3. ASSUME NEW x, Newest(entries, n, x), e # Malformed => e.key # x.key
      PROVE  Newest(entries, n + 1, x)
  <2>1. PICK j \in 1..n : /\ entries[j] # Malformed /\ x = entries[j]
                          /\ \A k \in 1..n : entries[k] # Malformed
                                /\ entries[k].key = x.key => k <= j
    BY <1>3 DEF Newest
  <2>2. \A k \in 1..(n + 1) : entries[k] # Malformed /\ entries[k].key = x.key => k <= j
    BY <1>1, <1>3, <2>1
  <2> QED BY <1>1, <2>1, <2>2 DEF Newest
<1>4. e # Malformed => Newest(entries, n + 1, e)
  BY DEF Newest
<1>5. CASE e = Malformed
  <2>1. d = dict
    BY <1>5 DEF Assign
  <2>2. \A i \in DOMAIN d : Newest(entries, n + 1, d[i])
    BY <1>3, <1>5, <2>1 DEF Agrees
  <2>3. \A j \in 1..(n + 1) : entries[j] # Malformed =>
           \E i \in DOMAIN d : d[i].key = entries[j].key
    BY <1>1, <1>5, <2>1 DEF Agrees
  <2> QED BY <2>1, <2>2, <2>3 DEF Agrees
<1>6. CASE e # Malformed /\ place = {}
  <2>1. d = Append(dict, e)
    BY <1>6 DEF Assign
  <2>2. /\ d \in Seq(E) /\ DOMAIN d = 1..(Len(dict) + 1) /\ d[Len(dict) + 1] = e
        /\ \A i \in DOMAIN dict : i \in DOMAIN d /\ d[i] = dict[i]
    BY <1>1, <2>1
  <2>3. \A i \in DOMAIN d : i \in DOMAIN dict \/ i = Len(dict) + 1
    BY <1>1, <2>2
  <2>4. \A i \in DOMAIN dict : dict[i].key # e.key
    BY <1>6
  <2>5. \A i \in DOMAIN d : Newest(entries, n + 1, d[i])
    BY <1>3, <1>4, <1>6, <2>2, <2>3, <2>4 DEF Agrees
  <2>6. \A j \in 1..(n + 1) : entries[j] # Malformed =>
           \E i \in DOMAIN d : d[i].key = entries[j].key
    <3>1. ASSUME NEW j \in 1..n, entries[j] # Malformed
          PROVE  \E i \in DOMAIN d : d[i].key = entries[j].key
      <4>1. PICK i \in DOMAIN dict : dict[i].key = entries[j].key
        BY <3>1, <1>2
      <4>2. i \in DOMAIN d /\ d[i].key = entries[j].key
        BY <4>1, <2>2
      <4> HIDE DEF d
      <4> QED BY <4>2
    <3>2. \E i \in DOMAIN d : d[i].key = e.key
      BY <1>1, <2>2
    <3> QED BY <1>1, <3>1, <3>2
  <2>7. \A i, k \in DOMAIN d : d[i].key = d[k].key => i = k
    BY <2>2, <2>3, <2>4 DEF Agrees
  <2> QED BY <2>2, <2>5, <2>6, <2>7 DEF Agrees
<1>7. CASE e # Malformed /\ place # {}
  <2>1. d = [i \in DOMAIN dict |-> IF i \in place THEN e ELSE dict[i]]
    BY <1>7 DEF Assign
  <2>2. d \in Seq(E) /\ DOMAIN d = DOMAIN dict
    BY <1>1, <2>1
  <2>3. \A i \in DOMAIN d : d[i] = IF i \in place THEN e ELSE dict[i]
    BY <2>1
  <2>4. \A i \in DOMAIN d : d[i].key = dict[i].key
    BY <2>2, <2>3
  <2>5. \A i \in DOMAIN d : Newest(entries, n + 1, d[i])
    BY <1>3, <1>4, <1>7, <2>2, <2>3 DEF Agrees
  <2>6. \A j \in 1..(n + 1) : entries[j] # Malformed =>
           \E i \in DOMAIN d : d[i].key = entries[j].key
    <3>1. ASSUME NEW j \in 1..n, entries[j] # Malformed
          PROVE  \E i \in DOMAIN d : d[i].key = entries[j].key
      <4>1. PICK i \in DOMAIN dict : dict[i].key = entries[j].key
        BY <3>1, <1>2
      <4>2. i \in DOMAIN d /\ d[i].key = entries[j].key
        BY <4>1, <2>2, <2>4
      <4> HIDE DEF d
      <4> QED BY <4>2
    <3>2. \E i \in DOMAIN d : d[i].key = e.key
      BY <1>7, <2>2, <2>4
    <3> QED BY <1>1, <3>1, <3>2
  <2>7. \A i, k \in DOMAIN d : d[i].key = d[k].key => i = k
    BY <2>2, <2>4 DEF Agrees
  <2> QED BY <2>2, <2>5, <2>6, <2>7 DEF Agrees
<1> QED BY <1>5, <1>6, <1>7

(* The parsers' loop (parse_api_keys, parse_roles, parse_acl): the         *)
(* dictionary has one entry for each key that is listed, and it is the     *)
(* last one listed, for a list of any length.                              *)
THEOREM DictTheorem ==
    ASSUME NEW E, NEW entries \in Seq(E)
    PROVE  Dict(entries) \in Seq(E) /\ Agrees(entries, Len(entries), Dict(entries))
<1> DEFINE len == Len(entries)
<1>1. PICK f : Reads(entries, len, f) /\ Dict(entries) = f[1..len]
  BY DictReads
<1> DEFINE S == {n \in Nat : n <= len => /\ f[1..n] \in Seq(E)
                                         /\ Agrees(entries, n, f[1..n])}
<1>2. 0 \in S
  <2>1. 1..0 = {} /\ f[{}] = <<>>
    BY <1>1 DEF Reads
  <2>2. Agrees(entries, 0, <<>>)
    BY <2>1 DEF Agrees
  <2>3. f[1..0] = <<>> /\ <<>> \in Seq(E)
    BY <2>1
  <2>4. f[1..0] \in Seq(E) /\ Agrees(entries, 0, f[1..0])
    BY <2>2, <2>3
  <2> QED BY <2>4
<1>3. ASSUME NEW n \in Nat, n \in S PROVE n + 1 \in S
  <2> SUFFICES ASSUME n + 1 <= len
               PROVE  /\ f[1..(n + 1)] \in Seq(E)
                      /\ Agrees(entries, n + 1, f[1..(n + 1)])
    OBVIOUS
  <2>1. f[1..n] \in Seq(E) /\ Agrees(entries, n, f[1..n])
    BY <1>3
  <2>2. /\ 1..(n + 1) \in SUBSET (1..len) /\ 1..(n + 1) # {}
        /\ (1..(n + 1)) \ {n + 1} = 1..n
    OBVIOUS
  <2>3. Max(1..(n + 1)) = n + 1
    BY MaxOfPrefix
  <2>4. f[1..(n + 1)] = Assign(f[1..n], entries[n + 1])
    BY <1>1, <2>2, <2>3 DEF Reads
  <2> QED BY <2>1, <2>4, AssignAgrees
<1>4. Nat \subseteq S
  <2> HIDE DEF S
  <2> QED BY <1>2, <1>3, Induction
<1>5. len \in S
  BY <1>4
<1> QED BY <1>1, <1>5
=============================================================================
