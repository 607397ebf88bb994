-------------------------- MODULE PalworldServerProofs --------------------------
(* The safety properties of PalworldServer, for any options, ConfigMaps and  *)
(* passwords and any number of edits.                                        *)
EXTENDS PalworldServer, FiniteSetTheorems, SequenceTheorems, WellFoundedInduction, TLAPS

USE DEF volume, cluster, locals

-------------------------------------------------------------------------------
(* The smallest member of a set of numbers: what an induction needs.         *)
LEMMA LeastNat ==
  ASSUME NEW T \in SUBSET Nat, T # {}
  PROVE  \E n \in T : \A m \in T : n <= m
<1>1. PICK n \in T : \A m \in T : ~ (<<m, n>> \in OpToRel(<, Nat))
  BY NatLessThanWellFounded, WFMin
<1>2. \A m \in T : ~ (m < n)
  BY <1>1 DEF OpToRel
<1> QED
  BY <1>2

(* p is what the parser has made of the first m options of the file. *)
ParsesFirst(file, p, m) ==
  p = [i \in 0..m |-> IF i = 0 THEN [dict |-> Nothing, depth |-> 0]
                      ELSE Split(p[i - 1], file.order[i], file.value[file.order[i]])]

(* The recursive function of ParsedTo exists.                                *)
LEMMA ParsesExist ==
  ASSUME NEW file, NEW n \in Nat
  PROVE  \E p : ParsesFirst(file, p, n)
<1> DEFINE T == {m \in Nat : ~ \E p : ParsesFirst(file, p, m)}
           Step(q, i) == Split(q[i - 1], file.order[i], file.value[file.order[i]])
           s == [dict |-> Nothing, depth |-> 0]
<1>1. SUFFICES ASSUME T # {} PROVE FALSE
  OBVIOUS
<1>2. PICK m \in T : \A k \in T : m <= k
  BY <1>1, LeastNat
<1>3. CASE m = 0
  <2> DEFINE g == [k \in 0..0 |-> s]
  <2>1. g = [k \in 0..0 |-> IF k = 0 THEN s ELSE Step(g, k)]
    <3> HIDE DEF s
    <3> QED
      OBVIOUS
  <2> QED
    BY <2>1, <1>3 DEF ParsesFirst
<1>4. CASE m # 0
  <2>1. m - 1 \in Nat /\ m - 1 \notin T
    BY <1>2, <1>4
  <2>2. PICK g : ParsesFirst(file, g, m - 1)
    BY <2>1
  <2> DEFINE h == [k \in 0..m |-> IF k = m THEN Step(g, m) ELSE g[k]]
             r == [k \in 0..m |-> IF k = 0 THEN s ELSE Step(h, k)]
  <2>3. \A k \in 0..(m - 1) : g[k] = IF k = 0 THEN s ELSE Step(g, k)
    BY <2>2 DEF ParsesFirst
  <2>4. ASSUME NEW k \in 0..m PROVE h[k] = r[k]
    <3> HIDE DEF s
    <3>1. CASE k = 0
      BY <3>1, <2>3, <1>4
    <3>2. CASE k # 0
      <4>1. k - 1 \in 0..(m - 1) /\ k - 1 # m /\ k - 1 \in 0..m
        BY <3>2
      <4>2. h[k - 1] = g[k - 1]
        BY <4>1
      <4>3. h[k] = Step(g, k)
        BY <4>1, <2>3, <3>2
      <4> QED
        BY <4>2, <4>3, <3>2
    <3> QED
      BY <3>1, <3>2
  <2>5. h = r
    BY <2>4
  <2> QED
    BY <2>5, <1>2 DEF ParsesFirst
<1> QED
  BY <1>3, <1>4

(* What the parser has after each option of the file.                        *)
LEMMA ParseChain ==
  ASSUME NEW file, NEW n \in Nat
  PROVE  \E p : /\ p[0] = [dict |-> Nothing, depth |-> 0]
                /\ \A i \in 1..n :
                     p[i] = Split(p[i - 1], file.order[i], file.value[file.order[i]])
                /\ ParsedTo(file, n) = p[n].dict
<1> DEFINE s == [dict |-> Nothing, depth |-> 0]
           Step(q, i) == Split(q[i - 1], file.order[i], file.value[file.order[i]])
           F == CHOOSE p : p = [i \in 0..n |-> IF i = 0 THEN s ELSE Step(p, i)]
<1>1. \E p : p = [i \in 0..n |-> IF i = 0 THEN s ELSE Step(p, i)]
  BY ParsesExist DEF ParsesFirst
<1>2. F = [i \in 0..n |-> IF i = 0 THEN s ELSE Step(F, i)]
  <2> HIDE DEF s
  <2> QED
    BY <1>1, Zenon
<1>3. ParsedTo(file, n) = F[n].dict
  BY DEF ParsedTo
<1> HIDE DEF F
<1>4. F[0] = s /\ \A i \in 1..n : F[i] = Step(F, i)
  <2>1. 0 \in 0..n /\ \A i \in 1..n : i \in 0..n /\ i # 0
    OBVIOUS
  <2> HIDE DEF s
  <2> QED
    BY <2>1, <1>2
<1> QED
  BY <1>3, <1>4

-------------------------------------------------------------------------------
(* What dict.update and the parser keep.                                     *)
(* SetToSeqs leaves out no member of a finite set.                           *)
LEMMA AddedLists ==
  ASSUME NEW old, NEW new, IsFiniteSet(DOMAIN new), NEW added \in Added(old, new)
  PROVE  /\ added \in Seq(DOMAIN new)
         /\ \A k \in DOMAIN new \ DOMAIN old.value :
              \E i \in DOMAIN added : added[i] = k
<1> DEFINE S == DOMAIN new \ DOMAIN old.value
           n == Cardinality(S)
<1>1. IsFiniteSet(S)
  BY FS_Subset
<1>2. n \in Nat
  BY <1>1, FS_CardinalityType
<1>3. added \in [1..n -> S] /\ \A i, j \in 1..n : i # j => added[i] # added[j]
  BY DEF Added, SetToSeqs
<1> HIDE DEF S, n
<1>4. added \in Injection(1..n, S)
  BY <1>3 DEF Injection, IsInjective
<1>5. IsFiniteSet(1..n) /\ Cardinality(1..n) = n
  BY <1>2, FS_Interval
<1>6. added \in Surjection(1..n, S)
  BY <1>4, <1>1, <1>5, FS_Injection DEF n
<1>7. \A k \in S : \E i \in 1..n : added[i] = k
  BY <1>6 DEF Surjection
<1>8. added \in Seq(S) /\ DOMAIN added = 1..n
  BY <1>2, <1>3
<1>9. S \subseteq DOMAIN new
  BY DEF S
<1>10. added \in Seq(DOMAIN new)
  BY <1>8, <1>9
<1> QED
  BY <1>7, <1>8, <1>10 DEF S

LEMMA UpdatedDict ==
  ASSUME NEW old, Dict(old), NEW new, DOMAIN new \subseteq Options, Given(new) \subseteq Value,
         NEW added \in Seq(DOMAIN new),
         \A k \in DOMAIN new \ DOMAIN old.value : \E i \in DOMAIN added : added[i] = k
  PROVE  Dict(Updated(old, new, added))
<1> DEFINE both == Updated(old, new, added)
           D == DOMAIN old.value \cup DOMAIN new
<1>1. /\ DOMAIN both.value = D
      /\ both.order = old.order \o added
      /\ \A k \in D : both.value[k] = IF k \in DOMAIN new THEN new[k] ELSE old.value[k]
  BY DEF Updated
<1>2. Given(both.value) \subseteq Value
  <2> SUFFICES ASSUME NEW k \in D PROVE both.value[k] \in Value
    BY <1>1 DEF Given
  <2>1. CASE k \in DOMAIN new
    BY <1>1, <2>1 DEF Given
  <2>2. CASE k \notin DOMAIN new
    BY <1>1, <2>2 DEF Given, Dict
  <2> QED
    BY <2>1, <2>2
<1> HIDE DEF both
<1>3. old.order \in Seq(DOMAIN old.value)
  BY DEF Dict, Listed
<1>4. old.order \in Seq(D) /\ added \in Seq(D)
  BY <1>3
<1>5. /\ both.order \in Seq(D)
      /\ Len(both.order) = Len(old.order) + Len(added)
      /\ \A i \in 1..Len(old.order) + Len(added) :
           both.order[i] = IF i <= Len(old.order) THEN old.order[i] ELSE added[i - Len(old.order)]
  BY <1>1, <1>4, ConcatProperties
<1>6. ASSUME NEW k \in D PROVE \E i \in DOMAIN both.order : both.order[i] = k
  <2>0. DOMAIN both.order = 1..(Len(old.order) + Len(added))
    BY <1>5
  <2>1. CASE k \in DOMAIN old.value
    <3>1. PICK i \in DOMAIN old.order : old.order[i] = k
      BY <2>1 DEF Dict, Listed
    <3>2. i \in 1..Len(old.order) /\ Len(old.order) \in Nat /\ Len(added) \in Nat
      BY <1>4, <3>1
    <3>3. i \in DOMAIN both.order /\ both.order[i] = k
      BY <2>0, <3>1, <3>2, <1>5
    <3> QED
      BY <3>3
  <2>2. CASE k \notin DOMAIN old.value
    <3>1. PICK i \in DOMAIN added : added[i] = k
      BY <2>2
    <3>2. i \in 1..Len(added) /\ Len(old.order) \in Nat /\ Len(added) \in Nat
      BY <1>4, <3>1
    <3> DEFINE j == Len(old.order) + i
    <3>3. /\ j \in 1..(Len(old.order) + Len(added))
          /\ ~(j <= Len(old.order))
          /\ j - Len(old.order) = i
      BY <3>2
    <3> HIDE DEF j
    <3>4. j \in DOMAIN both.order /\ both.order[j] = k
      BY <2>0, <3>1, <3>3, <1>5
    <3> QED
      BY <3>4
  <2> QED
    BY <2>1, <2>2
<1>7. D \subseteq Options
  BY DEF Dict
<1>8. Dict(both)
  BY <1>1, <1>2, <1>5, <1>6, <1>7 DEF Dict, Listed
<1> QED
  BY <1>8 DEF both

LEMMA NothingDict == Dict(Nothing)
<1>1. DOMAIN Nothing.value = {} /\ Nothing.order = <<>>
  BY DEF Nothing, NoValues
<1>2. Given(Nothing.value) = {}
  BY <1>1 DEF Given
<1> QED
  BY <1>1, <1>2 DEF Dict, Listed

LEMMA InterpolatedValue ==
  ASSUME NEW v \in Value
  PROVE  Interpolated(v) \in Value
BY DEF Interpolated, Value, PercentSigns

LEMMA JoinedValue ==
  ASSUME NEW v \in Value, NEW next \in Value
  PROVE  Joined(v, next) \in Value
<1>1. Interpolated(next) \in Value
  BY InterpolatedValue
<1>2. Interpolated(next).percent \in PercentSigns
  BY <1>1 DEF Value
<1>3. v.nest + next.nest \in Int
  BY DEF Value
<1> QED
  BY <1>2, <1>3 DEF Joined, Value, PercentSigns

(* The parser hands on options of the file, with their values or such as     *)
(* have become part of one.                                                  *)
LEMMA SplitDict ==
  ASSUME NEW parsed, NEW k \in Options, NEW v \in Value,
         Dict(parsed.dict), parsed.depth \in Int,
         parsed.depth # 0 => parsed.dict.order # <<>>
  PROVE  LET split == Split(parsed, k, v)
         IN  Dict(split.dict) /\ split.depth \in Int /\ split.dict.order # <<>>
<1> DEFINE split == Split(parsed, k, v)
<1>1. split.depth \in Int
  BY DEF Split, Value
<1>2. CASE parsed.depth = 0
  <2> DEFINE new == [o \in {k} |-> Interpolated(v)]
  <2>1. split.dict = Updated(parsed.dict, new, <<k>>)
    BY <1>2 DEF Split
  <2>2. DOMAIN new = {k} /\ Given(new) = {Interpolated(v)}
    BY DEF Given
  <2> HIDE DEF new
  <2>3. Given(new) \subseteq Value /\ DOMAIN new \subseteq Options
    BY <2>2, InterpolatedValue
  <2>4. /\ <<k>> \in Seq(DOMAIN new)
        /\ \A o \in DOMAIN new : \E i \in DOMAIN <<k>> : <<k>>[i] = o
    BY <2>2
  <2>5. Dict(Updated(parsed.dict, new, <<k>>))
    BY <2>3, <2>4, UpdatedDict
  <2>6. Updated(parsed.dict, new, <<k>>).order = parsed.dict.order \o <<k>>
    BY DEF Updated
  <2>7. parsed.dict.order \in Seq(DOMAIN parsed.dict.value)
    BY DEF Dict, Listed
  <2>8. parsed.dict.order \o <<k>> # <<>>
    BY <2>7
  <2> QED
    BY <1>1, <2>1, <2>5, <2>6, <2>8
<1>3. CASE parsed.depth # 0
  <2> DEFINE last == Last(parsed.dict.order)
             w == Joined(parsed.dict.value[last], v)
             val == [parsed.dict.value EXCEPT ![last] = w]
  <2>1. split.dict.order = parsed.dict.order /\ split.dict.value = val
    BY <1>3 DEF Split
  <2>2. parsed.dict.order \in Seq(DOMAIN parsed.dict.value) /\ parsed.dict.order # <<>>
    BY <1>3 DEF Dict, Listed
  <2>3. last \in DOMAIN parsed.dict.value
    BY <2>2 DEF Last
  <2>4. w \in Value
    BY <2>3, JoinedValue DEF Dict, Given
  <2> HIDE DEF w, last
  <2>5. DOMAIN val = DOMAIN parsed.dict.value
    OBVIOUS
  <2>6. \A o \in DOMAIN val : val[o] \in Value
    BY <2>4 DEF Dict, Given
  <2> HIDE DEF val, split
  <2>7. Given(val) \subseteq Value
    BY <2>6 DEF Given
  <2>8. Dict(split.dict)
    BY <2>1, <2>5, <2>7 DEF Dict, Listed
  <2> QED
    BY <1>1, <2>1, <2>2, <2>8 DEF split
<1> QED
  BY <1>2, <1>3

LEMMA ParsedDict ==
  ASSUME NEW file, Dict(file)
  PROVE  Dict(Parsed(file))
<1> DEFINE n == Len(file.order)
<1>1. file.order \in Seq(DOMAIN file.value) /\ n \in Nat
  BY DEF Dict, Listed
<1>2. PICK p : /\ p[0] = [dict |-> Nothing, depth |-> 0]
               /\ \A i \in 1..n :
                    p[i] = Split(p[i - 1], file.order[i], file.value[file.order[i]])
               /\ ParsedTo(file, n) = p[n].dict
  BY <1>1, ParseChain
<1> DEFINE Good(i) == /\ Dict(p[i].dict)
                      /\ p[i].depth \in Int
                      /\ p[i].depth # 0 => p[i].dict.order # <<>>
           T == {i \in 0..n : ~Good(i)}
<1>3. \A i \in 1..n : file.order[i] \in Options /\ file.value[file.order[i]] \in Value
  BY <1>1 DEF Dict, Given
<1>4. Good(0)
  BY <1>2, NothingDict
<1>5. ASSUME NEW i \in 1..n, Good(i - 1) PROVE Good(i)
  <2> DEFINE k == file.order[i]
             v == file.value[k]
  <2>1. k \in Options /\ v \in Value
    BY <1>3
  <2>2. p[i] = Split(p[i - 1], k, v)
    BY <1>2
  <2> HIDE DEF k, v
  <2>3. LET split == Split(p[i - 1], k, v)
        IN  Dict(split.dict) /\ split.depth \in Int /\ split.dict.order # <<>>
    BY <1>5, <2>1, SplitDict
  <2> QED
    BY <2>2, <2>3
<1> HIDE DEF Good
<1>6. T = {}
  <2> SUFFICES ASSUME T # {} PROVE FALSE
    OBVIOUS
  <2>1. PICK i \in T : \A j \in T : i <= j
    <3>1. T \in SUBSET Nat
      BY <1>1
    <3> HIDE DEF T
    <3> QED
      BY <3>1, LeastNat
  <2>2. i \in 1..n
    BY <1>1, <1>4, <2>1
  <2>3. i - 1 \in 0..n /\ i - 1 \notin T
    BY <1>1, <2>1, <2>2
  <2> QED
    BY <1>5, <2>1, <2>2, <2>3
<1>7. Good(n)
  BY <1>1, <1>6
<1> QED
  BY <1>2, <1>7 DEF Good, Parsed

(* A file without unmatched parentheses comes back with the options it has,  *)
(* each with what configparser makes of its value.                           *)
LEMMA MatchedParsed ==
  ASSUME NEW file, Dict(file), ~Unmatched(file), NEW k \in DOMAIN file.value
  PROVE  /\ k \in DOMAIN Parsed(file).value
         /\ Parsed(file).value[k] = Interpolated(file.value[k])
<1> DEFINE n == Len(file.order)
<1>1. file.order \in Seq(DOMAIN file.value) /\ n \in Nat
  BY DEF Dict, Listed
<1>2. PICK p : /\ p[0] = [dict |-> Nothing, depth |-> 0]
               /\ \A i \in 1..n :
                    p[i] = Split(p[i - 1], file.order[i], file.value[file.order[i]])
               /\ ParsedTo(file, n) = p[n].dict
  BY <1>1, ParseChain
<1> DEFINE Good(i) ==
             /\ i < n => p[i].depth = 0
             /\ \A j \in 1..i : file.order[j] \in DOMAIN p[i].dict.value
             /\ \A o \in DOMAIN p[i].dict.value :
                  p[i].dict.value[o] = Interpolated(file.value[o])
           T == {i \in 0..n : ~Good(i)}
<1>3. Good(0)
  BY <1>2 DEF Nothing, NoValues
<1>4. ASSUME NEW i \in 1..n, Good(i - 1) PROVE Good(i)
  <2> DEFINE o == file.order[i]
             v == file.value[o]
             new == [x \in {o} |-> Interpolated(v)]
             old == p[i - 1].dict
  <2>1. p[i] = Split(p[i - 1], o, v) /\ p[i - 1].depth = 0
    BY <1>1, <1>2, <1>4
  <2>2. p[i].dict = Updated(old, new, <<o>>) /\ p[i].depth = 0 + v.nest
    BY <2>1 DEF Split
  <2>3. i < n => v.nest = 0
    BY <1>1 DEF Unmatched
  <2>4. DOMAIN new = {o} /\ new[o] = Interpolated(v)
    OBVIOUS
  <2>5. \A x \in DOMAIN old.value : old.value[x] = Interpolated(file.value[x])
    BY <1>4
  <2>6. \A j \in 1..(i - 1) : file.order[j] \in DOMAIN old.value
    BY <1>4
  <2>7. \A j \in 1..i : j \in 1..(i - 1) \/ j = i
    OBVIOUS
  <2>8. \A j \in 1..i : file.order[j] \in DOMAIN old.value \cup {o}
    BY <2>6, <2>7
  <2> HIDE DEF new, old
  <2>9. /\ DOMAIN p[i].dict.value = DOMAIN old.value \cup {o}
        /\ \A x \in DOMAIN p[i].dict.value :
             p[i].dict.value[x] = IF x \in {o} THEN new[x] ELSE old.value[x]
    BY <2>2, <2>4 DEF Updated
  <2>10. \A x \in DOMAIN p[i].dict.value : p[i].dict.value[x] = Interpolated(file.value[x])
    BY <2>4, <2>5, <2>9
  <2>11. i < n => p[i].depth = 0
    BY <2>2, <2>3
  <2> QED
    BY <2>8, <2>9, <2>10, <2>11
<1> HIDE DEF Good
<1>5. T = {}
  <2> SUFFICES ASSUME T # {} PROVE FALSE
    OBVIOUS
  <2>1. PICK i \in T : \A j \in T : i <= j
    <3>1. T \in SUBSET Nat
      BY <1>1
    <3> HIDE DEF T
    <3> QED
      BY <3>1, LeastNat
  <2>2. i \in 1..n
    BY <1>1, <1>3, <2>1
  <2>3. i - 1 \in 0..n /\ i - 1 \notin T
    BY <1>1, <2>1, <2>2
  <2> QED
    BY <1>4, <2>1, <2>2, <2>3
<1>6. Good(n)
  BY <1>1, <1>5
<1>7. PICK i \in DOMAIN file.order : file.order[i] = k
  BY DEF Dict, Listed
<1>8. i \in 1..n
  BY <1>1
<1> QED
  BY <1>2, <1>6, <1>7, <1>8 DEF Good, Parsed

(* ConfigMap, Secret and template are well-typed. *)
LEMMA Sources ==
  /\ Dict(Template)
  /\ \A c \in Configs : /\ IsFiniteSet(DOMAIN c)
                        /\ DOMAIN c \subseteq Options
                        /\ Given(c) \subseteq Value
  /\ \A p \in Passwords : /\ IsFiniteSet(DOMAIN WithPassword(p))
                          /\ DOMAIN WithPassword(p) \subseteq Options
                          /\ Given(WithPassword(p)) \subseteq Value
<1>1. AnyGiven \subseteq Value
  BY PalworldAssumption DEF Value
<1>2. Given(Template.value) \subseteq Value
  BY <1>1 DEF AnyGiven
<1>3. DOMAIN Template.value \subseteq Options
  BY DEF Options
<1>4. Dict(Template)
  BY <1>2, <1>3, PalworldAssumption DEF Dict
<1>5. ASSUME NEW c \in Configs
      PROVE  IsFiniteSet(DOMAIN c) /\ DOMAIN c \subseteq Options /\ Given(c) \subseteq Value
  <2>1. Given(c) \subseteq AnyGiven
    BY DEF AnyGiven
  <2>2. DOMAIN c \subseteq Options
    BY DEF Options
  <2> QED
    BY <1>1, <2>1, <2>2, PalworldAssumption
<1>6. ASSUME NEW p \in Passwords
      PROVE  /\ IsFiniteSet(DOMAIN WithPassword(p))
             /\ DOMAIN WithPassword(p) \subseteq Options
             /\ Given(WithPassword(p)) \subseteq Value
  <2>1. DOMAIN WithPassword(p) = {Password} /\ Given(WithPassword(p)) = {p}
    BY DEF WithPassword, Given
  <2>2. p \in Value
    BY <1>1 DEF AnyGiven
  <2>3. Password \in Options
    BY <1>3, PalworldAssumption
  <2> QED
    BY <2>1, <2>2, <2>3, FS_Singleton
<1> QED
  BY <1>4, <1>5, <1>6

LEMMA CurrentDict == TypeOK => Dict(Current)
BY Sources DEF TypeOK, Current

-------------------------------------------------------------------------------
LEMMA TypeStep == TypeOK /\ [Next]_vars => TypeOK'
<1> SUFFICES ASSUME TypeOK, Next \/ UNCHANGED vars PROVE TypeOK'
  OBVIOUS
<1> USE NothingDict DEF TypeOK
<1>1. CASE Read
  <2>1. Dict(options_dict')
    <3>1. CASE ~Accepted
      BY <1>1, <3>1 DEF Read, Restarts
    <3>2. CASE Accepted
      <4>1. PICK added \in Added(Parsed(Current), config) :
              options_dict' = Updated(Parsed(Current), config, added)
        BY <1>1, <3>2 DEF Read
      <4>2. Dict(Parsed(Current))
        BY CurrentDict, ParsedDict
      <4>3. config \in Configs
        OBVIOUS
      <4> QED
        BY <4>1, <4>2, <4>3, Sources, AddedLists, UpdatedDict
    <3> QED
      BY <3>1, <3>2
  <2>2. unmatched' \in BOOLEAN
    BY <1>1 DEF Read
  <2>3. /\ pc' \in {"secret", "read"}
        /\ configmap_data' \in Configs \cup {NoValues}
        /\ server_password' \in Passwords \cup {Template.value[Password]}
        /\ UNCHANGED <<volume, cluster, cut>>
    BY <1>1 DEF Read, Restarts
  <2> QED
    BY <2>1, <2>2, <2>3
<1>2. CASE ReadSecret
  <2>1. PICK added \in Added(options_dict, WithPassword(secret)) :
          options_dict' = Updated(options_dict, WithPassword(secret), added)
    BY <1>2 DEF ReadSecret
  <2>2. Dict(options_dict) /\ secret \in Passwords
    OBVIOUS
  <2>3. Dict(options_dict')
    BY <2>1, <2>2, Sources, AddedLists, UpdatedDict
  <2> QED
    BY <1>2, <2>3 DEF ReadSecret, LeavesFile
<1>3. CASE SecretFails
  BY <1>3 DEF SecretFails, Restarts, LeavesFile
<1>4. CASE Open
  BY <1>4 DEF Open
<1>5. CASE Write
  BY <1>5 DEF Write
<1>6. CASE Crash
  <2>1. cut' \in BOOLEAN
    BY <1>6 DEF Crash
  <2> QED
    BY <1>6, <2>1 DEF Crash, Restarts
<1>7. CASE Edit
  BY <1>7, PalworldAssumption DEF Edit
<1>8. CASE UNCHANGED vars
  BY <1>8 DEF vars
<1> QED
  BY <1>1, <1>2, <1>3, <1>4, <1>5, <1>6, <1>7, <1>8 DEF Next

(* Every variable keeps its type: in particular the file and the dictionary  *)
(* that configure() makes of it list each option they have a value of.       *)
THEOREM TypeCorrect == Spec => []TypeOK
<1>1. Init => TypeOK
  <2> SUFFICES ASSUME Init PROVE TypeOK
    OBVIOUS
  <2>1. edits \in 0 .. MaxEdits
    BY PalworldAssumption DEF Init
  <2> QED
    BY <2>1, NothingDict DEF Init, TypeOK
<1> QED
  BY <1>1, TypeStep, PTL DEF Spec

-------------------------------------------------------------------------------
(* From the ConfigMap and the Secret into the dictionary, and from there     *)
(* into the file.                                                            *)
Holds(dict, settings) ==
  \A k \in DOMAIN settings \ {Password} :
    k \in DOMAIN dict.value /\ dict.value[k] = settings[k]

ConfigTaken ==
  pc \in {"secret", "open", "write"} => Holds(options_dict, configmap_data)

PasswordTaken ==
  pc \in {"open", "write"} =>
    /\ Password \in DOMAIN options_dict.value
    /\ options_dict.value[Password] = server_password

LEMMA ConfigTakenStep == ConfigTaken /\ [Next]_vars => ConfigTaken'
<1> SUFFICES ASSUME ConfigTaken, Next \/ UNCHANGED vars PROVE ConfigTaken'
  OBVIOUS
<1> USE DEF ConfigTaken
<1>1. CASE Read
  <2>1. CASE ~Accepted
    BY <1>1, <2>1 DEF Read, Restarts
  <2>2. CASE Accepted
    <3>1. PICK added \in Added(Parsed(Current), config) :
            options_dict' = Updated(Parsed(Current), config, added)
      BY <1>1, <2>2 DEF Read
    <3>2. configmap_data' = config
      BY <1>1, <2>2 DEF Read
    <3>3. Holds(Updated(Parsed(Current), config, added), config)
      BY DEF Holds, Updated
    <3> QED
      BY <3>1, <3>2, <3>3 DEF Holds
  <2> QED
    BY <2>1, <2>2
<1>2. CASE ReadSecret
  <2> DEFINE new == WithPassword(secret)
  <2>1. PICK added \in Added(options_dict, new) :
          options_dict' = Updated(options_dict, new, added)
    BY <1>2 DEF ReadSecret
  <2>2. configmap_data' = configmap_data /\ pc = "secret"
    BY <1>2 DEF ReadSecret
  <2>3. DOMAIN new = {Password}
    BY DEF WithPassword
  <2> HIDE DEF new
  <2>4. Holds(Updated(options_dict, new, added), configmap_data)
    BY <2>2, <2>3 DEF Holds, Updated
  <2> QED
    BY <2>1, <2>2, <2>4 DEF Holds
<1>3. CASE SecretFails \/ Crash
  BY <1>3 DEF SecretFails, Crash, Restarts
<1>4. CASE Open \/ Write
  BY <1>4 DEF Open, Write, Holds
<1>5. CASE Edit \/ UNCHANGED vars
  BY <1>5 DEF Edit, vars, Holds
<1> QED
  BY <1>1, <1>2, <1>3, <1>4, <1>5 DEF Next

LEMMA PasswordTakenStep == PasswordTaken /\ [Next]_vars => PasswordTaken'
<1> SUFFICES ASSUME PasswordTaken, Next \/ UNCHANGED vars PROVE PasswordTaken'
  OBVIOUS
<1> USE DEF PasswordTaken
<1>1. CASE Read
  BY <1>1 DEF Read, Restarts
<1>2. CASE ReadSecret
  <2>1. PICK added \in Added(options_dict, WithPassword(secret)) :
          options_dict' = Updated(options_dict, WithPassword(secret), added)
    BY <1>2 DEF ReadSecret
  <2>2. server_password' = secret
    BY <1>2 DEF ReadSecret
  <2>3. DOMAIN WithPassword(secret) = {Password} /\ WithPassword(secret)[Password] = secret
    BY DEF WithPassword
  <2>4. Password \in DOMAIN options_dict'.value /\ options_dict'.value[Password] = secret
    BY <2>1, <2>3 DEF Updated
  <2> QED
    BY <2>2, <2>4
<1>3. CASE SecretFails \/ Crash
  BY <1>3 DEF SecretFails, Crash, Restarts
<1>4. CASE Open \/ Write
  BY <1>4 DEF Open, Write
<1>5. CASE Edit \/ UNCHANGED vars
  BY <1>5 DEF Edit, vars
<1> QED
  BY <1>1, <1>2, <1>3, <1>4, <1>5 DEF Next

LEMMA SettingsRightStep ==
  ConfigTaken /\ PasswordTaken /\ SettingsRight /\ [Next]_vars => SettingsRight'
<1> SUFFICES ASSUME ConfigTaken, PasswordTaken, SettingsRight, Next \/ UNCHANGED vars
             PROVE  SettingsRight'
  OBVIOUS
<1> USE DEF SettingsRight
<1>1. CASE Read \/ ReadSecret \/ SecretFails \/ Open \/ Crash
  BY <1>1 DEF Read, ReadSecret, SecretFails, Open, Crash, Restarts
<1>2. CASE Write
  BY <1>2 DEF Write, ConfigTaken, PasswordTaken, Holds
<1>3. CASE Edit \/ UNCHANGED vars
  BY <1>3 DEF Edit, vars
<1> QED
  BY <1>1, <1>2, <1>3 DEF Next

(* The game starts with the settings its start has read.                     *)
THEOREM StartsWithItsSettings == Spec => []SettingsRight
<1>1. Init => ConfigTaken /\ PasswordTaken /\ SettingsRight
  BY DEF Init, ConfigTaken, PasswordTaken, SettingsRight
<1> QED
  BY <1>1, ConfigTakenStep, PasswordTakenStep, SettingsRightStep, PTL DEF Spec

-------------------------------------------------------------------------------
(* The options of the template, in the file and in the dictionary.           *)
Kept(dict) ==
  \A k \in DOMAIN Template.value \ {Password} :
    /\ k \in DOMAIN dict.value
    /\ (\A c \in Configs : k \notin DOMAIN c) => dict.value[k] = Template.value[k]

KeptInv ==
  ~unmatched =>
    /\ there /\ ini # Nothing => Kept(ini)
    /\ pc \in {"secret", "open", "write"} => Kept(options_dict)
    /\ pc = "run" => Kept(ini)

LEMMA UpdatedKept ==
  ASSUME NEW old, NEW new, NEW added, Kept(old),
         \A k \in DOMAIN new : k = Password \/ \E c \in Configs : k \in DOMAIN c
  PROVE  Kept(Updated(old, new, added))
<1> DEFINE both == Updated(old, new, added)
<1>0. /\ DOMAIN both.value = DOMAIN old.value \cup DOMAIN new
      /\ \A k \in DOMAIN old.value \ DOMAIN new : both.value[k] = old.value[k]
  BY DEF Updated
<1> HIDE DEF both
<1>1. Kept(both)
  <2> SUFFICES ASSUME NEW k \in DOMAIN Template.value \ {Password}
               PROVE  /\ k \in DOMAIN both.value
                      /\ (\A c \in Configs : k \notin DOMAIN c) =>
                           both.value[k] = Template.value[k]
    BY DEF Kept
  <2>1. /\ k \in DOMAIN old.value
        /\ (\A c \in Configs : k \notin DOMAIN c) => old.value[k] = Template.value[k]
    BY DEF Kept
  <2>2. (\A c \in Configs : k \notin DOMAIN c) => k \notin DOMAIN new
    OBVIOUS
  <2> QED
    BY <1>0, <2>1, <2>2
<1> QED
  BY <1>1 DEF both

(* What configparser makes of a value without percent signs is the value. *)
LEMMA ParsedKept ==
  ASSUME NEW file, Dict(file), ~Unmatched(file), Kept(file)
  PROVE  Kept(Parsed(file))
<1> SUFFICES ASSUME NEW k \in DOMAIN Template.value \ {Password}
             PROVE  /\ k \in DOMAIN Parsed(file).value
                    /\ (\A c \in Configs : k \notin DOMAIN c) =>
                         Parsed(file).value[k] = Template.value[k]
  BY DEF Kept
<1>1. k \in DOMAIN file.value
  BY DEF Kept
<1>2. /\ k \in DOMAIN Parsed(file).value
      /\ Parsed(file).value[k] = Interpolated(file.value[k])
  BY <1>1, MatchedParsed
<1>3. Template.value[k].percent = "none"
  BY PalworldAssumption DEF Given
<1>4. (\A c \in Configs : k \notin DOMAIN c) =>
        Interpolated(file.value[k]) = Template.value[k]
  BY <1>3 DEF Kept, Interpolated
<1> QED
  BY <1>2, <1>4

LEMMA TemplateIsKept == Kept(Template)
BY DEF Kept

LEMMA KeptStep == TypeOK /\ KeptInv /\ [Next]_vars => KeptInv'
<1> SUFFICES ASSUME TypeOK, KeptInv, Next \/ UNCHANGED vars, ~unmatched' PROVE KeptInv'
  BY DEF KeptInv
<1>1. ~unmatched
  BY DEF Next, Read, ReadSecret, SecretFails, Open, Write, Crash, Edit, vars
<1>2. CASE Read
  <2>1. UNCHANGED volume
    BY <1>2 DEF Read
  <2>2. CASE ~Accepted
    BY <1>1, <1>2, <2>1, <2>2 DEF Read, Restarts, KeptInv
  <2>3. CASE Accepted
    <3>1. ~Unmatched(Current)
      BY <1>2, <2>3 DEF Read
    <3>2. Kept(Current)
      BY <1>1, <2>3, TemplateIsKept DEF KeptInv, Current, Accepted, Readable
    <3>3. Kept(Parsed(Current))
      BY <3>1, <3>2, CurrentDict, ParsedKept
    <3>4. PICK added \in Added(Parsed(Current), config) :
            options_dict' = Updated(Parsed(Current), config, added)
      BY <1>2, <2>3 DEF Read
    <3>5. Kept(Updated(Parsed(Current), config, added))
      BY <3>3, UpdatedKept DEF TypeOK
    <3>6. pc' = "secret"
      BY <1>2, <2>3 DEF Read
    <3> QED
      BY <1>1, <2>1, <3>4, <3>5, <3>6 DEF KeptInv, Kept
  <2> QED
    BY <2>2, <2>3
<1>3. CASE ReadSecret
  <2>1. UNCHANGED volume /\ pc = "secret" /\ pc' = "open"
    BY <1>3 DEF ReadSecret, LeavesFile
  <2>2. PICK added \in Added(options_dict, WithPassword(secret)) :
          options_dict' = Updated(options_dict, WithPassword(secret), added)
    BY <1>3 DEF ReadSecret
  <2>3. Kept(options_dict)
    BY <1>1, <2>1 DEF KeptInv
  <2>4. DOMAIN WithPassword(secret) = {Password}
    BY DEF WithPassword
  <2>5. Kept(Updated(options_dict, WithPassword(secret), added))
    BY <2>3, <2>4, UpdatedKept
  <2> QED
    BY <1>1, <2>1, <2>2, <2>5 DEF KeptInv, Kept
<1>4. CASE SecretFails \/ Crash
  BY <1>1, <1>4 DEF SecretFails, Crash, Restarts, LeavesFile, KeptInv, Kept
<1>5. CASE Open
  <2>1. ini' = Nothing /\ pc = "open" /\ pc' = "write" /\ options_dict' = options_dict
    BY <1>5 DEF Open
  <2> QED
    BY <1>1, <2>1 DEF KeptInv, Kept
<1>6. CASE Write
  <2>1. ini' = options_dict /\ pc = "write" /\ pc' = "run"
    BY <1>6 DEF Write
  <2> QED
    BY <1>1, <2>1 DEF KeptInv, Kept
<1>7. CASE Edit \/ UNCHANGED vars
  BY <1>1, <1>7 DEF Edit, vars, KeptInv, Kept
<1> QED
  BY <1>2, <1>3, <1>4, <1>5, <1>6, <1>7 DEF Next

(* Nothing of the template is lost by any number of rewrites, as long as no  *)
(* start has read a file in which a parenthesis is left unmatched in front   *)
(* of another option.                                                        *)
THEOREM TemplateKept == Spec => []OptionsKept
<1>1. Init => KeptInv
  BY DEF Init, KeptInv
<1>2. KeptInv => OptionsKept
  BY DEF KeptInv, Kept, OptionsKept
<1> QED
  BY <1>1, <1>2, TypeCorrect, KeptStep, PTL DEF Spec

-------------------------------------------------------------------------------
LEMMA FileSurvivesStep ==
  PasswordTaken /\ FileSurvives /\ [Next]_vars => FileSurvives'
<1> SUFFICES ASSUME PasswordTaken, FileSurvives, Next \/ UNCHANGED vars PROVE FileSurvives'
  OBVIOUS
<1> USE DEF FileSurvives
<1>1. CASE Read
  BY <1>1 DEF Read, Restarts
<1>2. CASE ReadSecret \/ SecretFails
  BY <1>2 DEF ReadSecret, SecretFails, Restarts, LeavesFile
<1>3. CASE Open
  BY <1>3 DEF Open
<1>4. CASE Write
  <2>1. ini' = options_dict /\ Password \in DOMAIN options_dict.value
    BY <1>4 DEF Write, PasswordTaken
  <2> QED
    BY <2>1 DEF Nothing, NoValues
<1>5. CASE Crash
  BY <1>5 DEF Crash, Restarts
<1>6. CASE Edit \/ UNCHANGED vars
  BY <1>6 DEF Edit, vars
<1> QED
  BY <1>1, <1>2, <1>3, <1>4, <1>5, <1>6 DEF Next

(* Only a container that ends between open and write leaves an empty file.   *)
THEOREM OnlyACutEmptiesTheFile == Spec => []FileSurvives
<1>1. Init => PasswordTaken /\ FileSurvives
  BY DEF Init, PasswordTaken, FileSurvives
<1> QED
  BY <1>1, PasswordTakenStep, FileSurvivesStep, PTL DEF Spec

-------------------------------------------------------------------------------
(* The way into the loop of failing starts, and that none leads out of it.   *)

(* The game reads its settings once more, but the next start will not. *)
Doomed == there /\ ~Readable(ini) /\ pc \in {"read", "run"}

(* configure() has taken a bare percent sign, from Secret or ConfigMap. *)
BarePercent ==
  \/ server_password.percent = "bare"
  \/ \E k \in DOMAIN configmap_data \ {Password} : configmap_data[k].percent = "bare"

PercentDooms == pc = "run" /\ BarePercent => Doomed

OpenedFile == pc \in {"write", "run"} => there

LEMMA OpenedFileStep == OpenedFile /\ [Next]_vars => OpenedFile'
<1> SUFFICES ASSUME OpenedFile, Next \/ UNCHANGED vars PROVE OpenedFile'
  OBVIOUS
<1> USE DEF OpenedFile
<1>1. CASE Read \/ ReadSecret \/ SecretFails \/ Crash
  BY <1>1 DEF Read, ReadSecret, SecretFails, Crash, Restarts
<1>2. CASE Open \/ Write \/ Edit \/ UNCHANGED vars
  BY <1>2 DEF Open, Write, Edit, vars
<1> QED
  BY <1>1, <1>2 DEF Next

(* A start that takes a bare percent sign, from the Secret or from the       *)
(* ConfigMap, writes a file that its own next run cannot read.               *)
THEOREM BarePercentDooms == Spec => []PercentDooms
<1>1. Init => OpenedFile
  BY DEF Init, OpenedFile
<1>2. OpenedFile /\ SettingsRight => PercentDooms
  <2> SUFFICES ASSUME OpenedFile, SettingsRight, pc = "run", BarePercent PROVE Doomed
    BY DEF PercentDooms
  <2>1. there
    BY DEF OpenedFile
  <2>2. PICK k \in DOMAIN ini.value : ini.value[k].percent = "bare"
    BY DEF SettingsRight, BarePercent
  <2>3. ~Readable(ini)
    BY <2>2 DEF Readable, Given
  <2> QED
    BY <2>1, <2>3 DEF Doomed
<1> QED
  BY <1>1, <1>2, OpenedFileStep, StartsWithItsSettings, PTL DEF Spec

(* A server whose file cannot be read at the next start never starts a game  *)
(* again, whatever becomes of ConfigMap and Secret: nothing but a person     *)
(* with access to the volume helps.                                          *)
THEOREM NoWayBack == Spec => [][Doomed => Doomed' /\ (pc' = "run" => pc = "run")]_vars
<1>1. [Next]_vars => [Doomed => Doomed' /\ (pc' = "run" => pc = "run")]_vars
  <2> SUFFICES ASSUME Next, Doomed PROVE Doomed' /\ (pc' = "run" => pc = "run")
    OBVIOUS
  <2> USE DEF Doomed, Readable
  <2>1. CASE Read
    BY <2>1 DEF Read, Accepted, Current, Restarts
  <2>2. CASE ReadSecret \/ SecretFails \/ Open \/ Write
    BY <2>2 DEF ReadSecret, SecretFails, Open, Write
  <2>3. CASE Crash
    BY <2>3 DEF Crash, Restarts
  <2>4. CASE Edit
    BY <2>4 DEF Edit
  <2> QED
    BY <2>1, <2>2, <2>3, <2>4 DEF Next
<1> QED
  BY <1>1, PTL DEF Spec

===============================================================================
