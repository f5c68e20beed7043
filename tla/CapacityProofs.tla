--------------------------- MODULE CapacityProofs ---------------------------
(***************************************************************************)
(* Theorems about Capacity, for any number of callers, any volumes,        *)
(* settings and starting tables, and any limits on passes and drops.       *)
(***************************************************************************)
EXTENDS Capacity, SequenceTheorems, FiniteSetTheorems, WellFoundedInduction, TLAPS

-----------------------------------------------------------------------------
(* The least and the greatest number of a finite set.                      *)

\* A set of naturals has a least element: the order of the naturals is well founded.
LEMMA Least ==
  ASSUME NEW S \in SUBSET Nat, S # {}
  PROVE  \E x \in S : \A y \in S : x <= y
<1>1. PICK x \in S : \A y \in S : ~ (<<y, x>> \in OpToRel(<, Nat))
  BY NatLessThanWellFounded, WFMin
<1>2. ASSUME NEW y \in S PROVE x <= y
  <2>1. <<y, x>> \in Nat \X Nat OBVIOUS
  <2>2. ~ (y < x) BY <1>1, <2>1 DEF OpToRel
  <2>3. QED BY <2>2
<1>3. QED BY <1>2

\* It is what Min chooses.
LEMMA MinExists ==
  ASSUME NEW S \in SUBSET Nat, S # {}
  PROVE  Min(S) \in S /\ \A y \in S : Min(S) <= y
<1>1. PICK x \in S : \A y \in S : x <= y BY Least
<1>2. QED BY <1>1 DEF Min

\* A set of naturals with an upper bound has a greatest element.
LEMMA MaxExists ==
  ASSUME NEW n \in Nat, NEW S \in SUBSET (0..n), S # {}
  PROVE  Max(S) \in S /\ \A y \in S : y <= Max(S)
<1> DEFINE D == {d \in Nat : n - d \in S}
<1>1. D # {} /\ D \in SUBSET Nat
  <2>1. PICK y \in S : TRUE OBVIOUS
  <2>2. y \in 0..n OBVIOUS
  <2>3. n - y \in Nat /\ n - (n - y) = y BY <2>2
  <2>4. n - y \in D BY <2>1, <2>3
  <2>5. QED BY <2>4
<1>2. PICK d \in D : \A e \in D : d <= e BY <1>1, Least
<1>3. n - d \in S BY <1>2
<1>4. ASSUME NEW y \in S PROVE y <= n - d
  <2>1. y \in 0..n OBVIOUS
  <2>2. n - y \in Nat /\ n - (n - y) = y BY <2>1
  <2>3. n - y \in D BY <2>2
  <2>4. d <= n - y BY <1>2, <2>3
  <2>5. QED BY <2>1, <2>4, <1>2
<1>5. \E x \in S : \A y \in S : x >= y
  <2>1. \A y \in S : y \in Nat OBVIOUS
  <2>2. QED BY <1>2, <1>3, <1>4, <2>1
<1>6. QED BY <1>5 DEF Max

\* The greater and the smaller of two numbers, as the limits use them.
LEMMA MaxOfTwo ==
  ASSUME NEW x \in Int, NEW y \in Int
  PROVE  Max({x, y}) = IF x >= y THEN x ELSE y
BY DEF Max

\* The smaller of two numbers.
LEMMA MinOfTwo ==
  ASSUME NEW x \in Int, NEW y \in Int
  PROVE  Min({x, y}) = IF x <= y THEN x ELSE y
BY DEF Min

\* A set that holds 0, and with each number the next, holds every number.
LEMMA Counting ==
  ASSUME NEW G \in SUBSET Nat, 0 \in G, \A n \in G : n + 1 \in G
  PROVE  \A n \in Nat : n \in G
<1>1. SUFFICES ASSUME Nat \ G # {} PROVE FALSE OBVIOUS
<1>2. PICK m \in Nat \ G : \A k \in Nat \ G : m <= k BY <1>1, Least
<1>3. m - 1 \in Nat /\ m - 1 < m /\ (m - 1) + 1 = m BY <1>2
<1>4. m - 1 \in G BY <1>2, <1>3
<1>5. m \in G BY <1>3, <1>4
<1>6. QED BY <1>2, <1>5

-----------------------------------------------------------------------------
(* Sums of bytes.                                                          *)

\* The element that MapThenSumSet takes next, and what makes g the function that
\* it builds over the subsets of S.
Taken(s) == CHOOSE x \in s : TRUE
SumsUp(g, f, S) ==
  g = [s \in SUBSET S |-> IF s = {} THEN 0 ELSE f[Taken(s)] + g[s \ {Taken(s)}]]

\* Bytes is the value of that function.
LEMMA BytesBySum ==
  ASSUME NEW f, NEW S
  PROVE  Bytes(f, S) = (CHOOSE g : SumsUp(g, f, S))[S]
BY DEF Bytes, MapThenSumSet, MapThenFoldSet, Taken, SumsUp

\* Taking an element leaves a smaller set.
LEMMA TakenLess ==
  ASSUME NEW S, IsFiniteSet(S), NEW s \in SUBSET S, s # {}
  PROVE  /\ Taken(s) \in s /\ s \ {Taken(s)} \in SUBSET S
         /\ IsFiniteSet(s) /\ Cardinality(s) \in Nat \ {0}
         /\ Cardinality(s \ {Taken(s)}) = Cardinality(s) - 1
<1>1. Taken(s) \in s BY DEF Taken
<1>2. IsFiniteSet(s) BY FS_Subset
<1>3. QED BY <1>1, <1>2, FS_RemoveElement, FS_CardinalityType, FS_EmptySet

\* Up to n elements the function exists.
SumsTo(g, n, f, S) ==
  /\ g \in [{s \in SUBSET S : Cardinality(s) <= n} -> Nat]
  /\ \A s \in SUBSET S : Cardinality(s) <= n =>
       g[s] = IF s = {} THEN 0 ELSE f[Taken(s)] + g[s \ {Taken(s)}]

\* Sums of the sets with n elements can be taken one element further.
LEMMA SumsToNext ==
  ASSUME NEW S, IsFiniteSet(S), NEW f, \A x \in S : f[x] \in Nat,
         NEW n \in Nat, NEW g, SumsTo(g, n, f, S)
  PROVE  \E h : SumsTo(h, n + 1, f, S)
<1> DEFINE D == {s \in SUBSET S : Cardinality(s) <= n + 1}
           h == [s \in D |-> IF s = {} THEN 0 ELSE f[Taken(s)] + g[s \ {Taken(s)}]]
<1>1. ASSUME NEW s \in D, s # {}
      PROVE  /\ s \ {Taken(s)} \in SUBSET S /\ Cardinality(s \ {Taken(s)}) <= n
             /\ f[Taken(s)] \in Nat /\ g[s \ {Taken(s)}] \in Nat
  <2>1. s \in SUBSET S /\ Cardinality(s) <= n + 1 OBVIOUS
  <2>2. /\ Taken(s) \in s /\ s \ {Taken(s)} \in SUBSET S
        /\ Cardinality(s) \in Nat /\ Cardinality(s \ {Taken(s)}) = Cardinality(s) - 1
    BY <1>1, <2>1, TakenLess
  <2>3. Cardinality(s \ {Taken(s)}) <= n BY <2>1, <2>2
  <2>4. QED BY <2>1, <2>2, <2>3 DEF SumsTo
<1>2. h \in [D -> Nat] BY <1>1
<1>3. ASSUME NEW s \in SUBSET S, Cardinality(s) <= n PROVE h[s] = g[s]
  <2>1. Cardinality(s) \in Nat BY FS_Subset, FS_CardinalityType
  <2>2. s \in D BY <2>1, <1>3
  <2>3. QED BY <1>3, <2>2 DEF SumsTo
<1>4. ASSUME NEW s \in SUBSET S, Cardinality(s) <= n + 1
      PROVE  h[s] = IF s = {} THEN 0 ELSE f[Taken(s)] + h[s \ {Taken(s)}]
  <2>1. s \in D BY <1>4
  <2>2. s # {} => h[s \ {Taken(s)}] = g[s \ {Taken(s)}] BY <2>1, <1>1, <1>3
  <2>3. QED BY <2>1, <2>2
<1>5. QED BY <1>2, <1>4 DEF SumsTo

\* Of the numbers of a finite set there is a function that sums up its subsets.
LEMMA SumExists ==
  ASSUME NEW S, IsFiniteSet(S), NEW f, \A x \in S : f[x] \in Nat
  PROVE  \E g \in [SUBSET S -> Nat] : SumsUp(g, f, S)
<1> DEFINE G == {n \in Nat : \E g : SumsTo(g, n, f, S)}
<1>1. 0 \in G
  <2> DEFINE g == [s \in {s \in SUBSET S : Cardinality(s) <= 0} |-> 0]
  <2>1. ASSUME NEW s \in SUBSET S, Cardinality(s) <= 0 PROVE s = {}
    BY <2>1, FS_Subset, FS_CardinalityType, FS_EmptySet
  <2>2. SumsTo(g, 0, f, S) BY <2>1 DEF SumsTo
  <2>3. QED BY <2>2
<1>2. ASSUME NEW n \in G PROVE n + 1 \in G
  <2>1. PICK g : SumsTo(g, n, f, S) OBVIOUS
  <2>2. n + 1 \in Nat OBVIOUS
  <2>3. QED BY <2>1, <2>2, SumsToNext
<1>3. Cardinality(S) \in G BY <1>1, <1>2, Counting, FS_CardinalityType
<1>4. PICK g : SumsTo(g, Cardinality(S), f, S) BY <1>3
<1>5. ASSUME NEW s \in SUBSET S PROVE Cardinality(s) <= Cardinality(S) BY FS_Subset
<1>6. g \in [SUBSET S -> Nat]
  <2>1. {s \in SUBSET S : Cardinality(s) <= Cardinality(S)} = SUBSET S BY <1>5
  <2>2. QED BY <1>4, <2>1 DEF SumsTo
<1>7. SumsUp(g, f, S) BY <1>4, <1>5, <1>6 DEF SumsUp, SumsTo
<1>8. QED BY <1>6, <1>7

\* The bytes of finitely many chunks are a natural number.
LEMMA BytesType ==
  ASSUME NEW S, IsFiniteSet(S), NEW f, \A x \in S : f[x] \in Nat
  PROVE  Bytes(f, S) \in Nat
<1> DEFINE g == CHOOSE g : SumsUp(g, f, S)
<1>1. SumsUp(g, f, S) BY SumExists
<1> DEFINE G == {n \in Nat : \A s \in SUBSET S : Cardinality(s) <= n => g[s] \in Nat}
<1> HIDE DEF g
<1>2. 0 \in G
  <2>1. ASSUME NEW s \in SUBSET S, Cardinality(s) <= 0 PROVE s = {}
    BY <2>1, FS_Subset, FS_CardinalityType, FS_EmptySet
  <2>2. {} \in SUBSET S OBVIOUS
  <2>3. g[{}] = 0 BY <1>1, <2>2 DEF SumsUp
  <2>4. QED BY <2>1, <2>3
<1>3. ASSUME NEW n \in G PROVE n + 1 \in G
  <2>1. ASSUME NEW s \in SUBSET S, Cardinality(s) <= n + 1, s # {} PROVE g[s] \in Nat
    <3>1. g[s] = f[Taken(s)] + g[s \ {Taken(s)}] BY <1>1, <2>1 DEF SumsUp
    <3>2. Taken(s) \in S /\ s \ {Taken(s)} \in SUBSET S /\ Cardinality(s \ {Taken(s)}) <= n
      BY <2>1, TakenLess
    <3>3. g[s \ {Taken(s)}] \in Nat BY <3>2
    <3>4. QED BY <3>1, <3>2, <3>3
  <2>2. g[{}] \in Nat BY <1>1 DEF SumsUp
  <2>3. ASSUME NEW s \in SUBSET S, Cardinality(s) <= n + 1 PROVE g[s] \in Nat
    <3>1. CASE s = {} BY <3>1, <2>2
    <3>2. CASE s # {} BY <3>2, <2>1, <2>3
    <3>3. QED BY <3>1, <3>2
  <2>4. n + 1 \in Nat OBVIOUS
  <2>5. QED BY <2>3, <2>4
<1>4. Cardinality(S) \in G BY <1>2, <1>3, Counting, FS_CardinalityType
<1>5. Cardinality(S) <= Cardinality(S) BY FS_CardinalityType
<1>6. g[S] \in Nat BY <1>4, <1>5
<1>7. QED BY <1>6, BytesBySum DEF g

-----------------------------------------------------------------------------
(* Limits and chunks.                                                      *)

\* The limit is positive, and what the capacity page reports is measured by it.
LEMMA Limits ==
  ASSUME NEW p \in 1..100
  PROVE  /\ LimitOf(p) \in Nat \ {0}
         /\ \A used \in Int : Reported(used, p).over <=> used >= LimitOf(p)
<1> DEFINE answer == {i \in DOMAIN Volumes : Volumes[i].total > 0 /\ Volumes[i].avail >= 0}
           total  == {i \in DOMAIN Volumes : Volumes[i].total > 0}
<1>1. DOMAIN Volumes \in SUBSET Nat /\ \A i \in DOMAIN Volumes : Volumes[i] \in [total : Nat, avail : Nat]
  <2>1. Volumes \in Seq([total : Nat, avail : Nat]) BY CapacityAssumption
  <2>2. Len(Volumes) \in Nat /\ Volumes \in [1..Len(Volumes) -> [total : Nat, avail : Nat]]
    BY <2>1, LenProperties
  <2>3. QED BY <2>1, <2>2
<1>2. answer = total BY <1>1
<1>3. CASE EnvBytes > 0
  <2>1. LimitOf(p) = EnvBytes BY <1>3 DEF LimitOf
  <2>2. \A used \in Int : Reported(used, p).over <=> used >= EnvBytes
    BY <1>3 DEF Reported
  <2>3. EnvBytes \in Nat BY CapacityAssumption
  <2>4. QED BY <1>3, <2>1, <2>2, <2>3
<1>4. CASE ~ (EnvBytes > 0)
  <2>1. total # {} BY <1>4, CapacityAssumption
  <2>2. total \in SUBSET Nat BY <1>1
  <2>3. Min(total) \in total BY <2>1, <2>2, MinExists
  <2>4. Volumes[Min(total)].total \in Nat BY <1>1, <2>3
  <2>5. (Volumes[Min(total)].total * p) \div 100 \in Int BY <2>4
  <2> DEFINE limit == Max({1, (Volumes[Min(total)].total * p) \div 100})
  <2>6. limit \in Nat \ {0}
    <3>1. limit = IF 1 >= (Volumes[Min(total)].total * p) \div 100 THEN 1
                  ELSE (Volumes[Min(total)].total * p) \div 100
      BY <2>5, MaxOfTwo
    <3>2. QED BY <2>5, <3>1
  <2>7. LimitOf(p) = limit BY <1>4 DEF LimitOf
  <2>8. ASSUME NEW used \in Int PROVE Reported(used, p).over <=> limit > 0 /\ used >= limit
    BY <1>4, <1>2, <2>1 DEF Reported
  <2> HIDE DEF limit
  <2>9. QED BY <2>6, <2>7, <2>8
<1>5. QED BY <1>3, <1>4

\* The trim begins at or below the limit, and ends below it.
LEMMA Targets ==
  ASSUME NEW limit \in Nat \ {0}
  PROVE  /\ Approach(limit) \in 1..limit
         /\ Target(limit) \in 1..limit
<1> DEFINE nine == (limit * 90) \div 100
           most == (limit * 85) \div 100
<1>1. nine \in 0..limit /\ most \in 0..limit OBVIOUS
<1> HIDE DEF nine, most
<1>2. Max({1, nine}) \in 1..limit
  <2>1. Max({1, nine}) = IF 1 >= nine THEN 1 ELSE nine BY <1>1, MaxOfTwo
  <2>2. QED BY <1>1, <2>1
<1>3. Max({1, most}) \in 1..limit
  <2>1. Max({1, most}) = IF 1 >= most THEN 1 ELSE most BY <1>1, MaxOfTwo
  <2>2. QED BY <1>1, <2>1
<1> DEFINE below == Min({limit - 1, Max({1, most})})
<1>4. below \in 0..limit
  <2>1. below = IF limit - 1 <= Max({1, most}) THEN limit - 1 ELSE Max({1, most})
    BY <1>3, MinOfTwo
  <2>2. QED BY <1>3, <2>1
<1> HIDE DEF below
<1>5. Max({1, below}) \in 1..limit
  <2>1. Max({1, below}) = IF 1 >= below THEN 1 ELSE below BY <1>4, MaxOfTwo
  <2>2. QED BY <1>4, <2>1
<1>6. QED BY <1>2, <1>5 DEF Approach, Target, nine, most, below

\* A time is in its chunk.
LEMMA InChunk ==
  ASSUME NEW t \in Nat
  PROVE  /\ ChunkOf(t) \in 0..t
         /\ FirstTime(ChunkOf(t)) <= t
         /\ t < FirstTime(ChunkOf(t) + 1)
<1>1. Width \in Nat \ {0} BY CapacityAssumption
<1>2. t \div Width \in 0..t BY <1>1
<1>3. (t \div Width) * Width <= t BY <1>1
<1>4. t < (t \div Width + 1) * Width BY <1>1
<1>5. QED BY <1>2, <1>3, <1>4 DEF ChunkOf, FirstTime

\* Later chunks begin later.
LEMMA ChunkOrder ==
  ASSUME NEW j \in Nat, NEW k \in Nat
  PROVE  /\ FirstTime(k) \in Nat
         /\ j < k => FirstTime(j) < FirstTime(k)
         /\ j < k => FirstTime(j + 1) <= FirstTime(k)
<1>1. Width \in Nat \ {0} BY CapacityAssumption
<1>2. k * Width \in Nat BY <1>1
<1>3. j < k => j * Width < k * Width BY <1>1
<1>4. j < k => (j + 1) * Width <= k * Width BY <1>1
<1>5. QED BY <1>2, <1>3, <1>4 DEF FirstTime

-----------------------------------------------------------------------------
(* Types.                                                                  *)

Pc == {"policy", "gate", "size", "list", "drop", "oldest", "dropOne", "span", "slice",
       "delete", "recheck", "insert", "busy", "halt"}

\* What a List query may answer.
Listing == UNION {[ks -> Nat] : ks \in SUBSET (0..MaxTime)}

Fields == {"pc", "percent", "policy", "first", "seen", "blind", "n", "cut", "enough",
           "listed", "progress", "err", "crossed", "removed", "raced", "faulted"}

\* A call under way.
IsCall(r) ==
  /\ DOMAIN r = Fields
  /\ r.pc \in Pc /\ r.percent \in 1..100
  /\ r.policy \in Policy \cup {None} /\ (r.pc # "policy" => r.policy \in Policy)
  /\ r.first \in Nat /\ r.seen \in Nat /\ r.blind \in BOOLEAN
  /\ r.n \in Nat \ {0} /\ r.cut \in Nat /\ r.enough \in BOOLEAN /\ r.listed \in Listing
  /\ r.progress \in BOOLEAN /\ r.err \in BOOLEAN
  /\ r.crossed \in BOOLEAN /\ r.removed \in BOOLEAN
  /\ r.raced \in BOOLEAN /\ r.faulted \in BOOLEAN

TableTypes == /\ rows \subseteq 0..MaxTime
              /\ DOMAIN size \subseteq 0..MaxTime
              /\ size \in [DOMAIN size -> Nat \ {0}]
              /\ \A t \in rows : ChunkOf(t) \in DOMAIN size
              /\ lag \in Nat
SettingTypes == /\ percent \in 1..100 /\ policy \in Policy
                /\ storing \in Policy \cup {None}
                /\ applied \subseteq [percent : 1..100, policy : Policy]
CallTypes == /\ DOMAIN call = Caller
             /\ \A c \in Caller : Busy(c) => IsCall(call[c])

TypeInv == TableTypes /\ SettingTypes /\ CallTypes

\* A call that is somewhere is under way.
LEMMA BusyAt ==
  ASSUME CallTypes, NEW c \in Caller, NEW pc \in Pc, At(c, pc)
  PROVE  Busy(c) /\ IsCall(call[c]) /\ call[c].pc = pc
BY DEF CallTypes, Busy, At, Pc

\* The chunks are finitely many, and the size of the database is a number.
LEMMA UsedType ==
  ASSUME TableTypes
  PROVE  /\ IsFiniteSet(DOMAIN size)
         /\ \A ks \in SUBSET DOMAIN size : Bytes(size, ks) \in Nat
         /\ Used \in Nat
<1>1. IsFiniteSet(DOMAIN size)
  <2>1. 0 \in Int /\ MaxTime \in Int BY CapacityAssumption
  <2>2. IsFiniteSet(0..MaxTime) BY <2>1, FS_Interval
  <2>3. QED BY <2>2, FS_Subset DEF TableTypes
<1>2. ASSUME NEW ks \in SUBSET DOMAIN size PROVE Bytes(size, ks) \in Nat
  <2>1. IsFiniteSet(ks) BY <1>1, FS_Subset
  <2>2. \A k \in ks : size[k] \in Nat BY DEF TableTypes
  <2>3. QED BY <2>1, <2>2, BytesType
<1>3. QED BY <1>1, <1>2, CapacityAssumption DEF Used, TableTypes

-----------------------------------------------------------------------------
(* What each step does to the call that takes it (r before, s after) and   *)
(* to the others.                                                          *)

\* Only the fields changed are new.
Kept(r, s, changed) == DOMAIN s = Fields /\ \A x \in Fields \ changed : s[x] = r[x]

\* The others go on as they were; or they are marked as disturbed.
Alone(c) == DOMAIN call' = Caller /\ \A g \in Caller \ {c} : call'[g] = call[g]
Disturbs(c) == /\ DOMAIN call' = Caller
               /\ \A g \in Caller \ {c} :
                    call'[g] = IF Busy(g) THEN [call[g] EXCEPT !.raced = TRUE] ELSE call[g]

\* The table loses the chunks ks and the rows ts.
Loses(c, ks, ts) == /\ rows' = rows \ ts
                    /\ size' = [k \in DOMAIN size \ ks |-> size[k]]
                    /\ Disturbs(c) /\ UNCHANGED setVars

\* The step of one call alone.
LEMMA Single ==
  ASSUME CallTypes, NEW c \in Caller, NEW r, call' = [call EXCEPT ![c] = r]
  PROVE  call'[c] = r /\ Alone(c)
BY DEF CallTypes, Alone

\* What Removes does to the caller and to the others.
LEMMA Removal ==
  ASSUME CallTypes, NEW c \in Caller, NEW r, NEW ks, NEW ts, Removes(c, r, ks, ts)
  PROVE  call'[c] = r /\ Loses(c, ks, ts)
BY DEF CallTypes, Removes, Loses, Disturbs

\* A call begins with the percentage that is stored.
LEMMA LoadPercentMoves ==
  ASSUME TypeInv, NEW c \in Caller, LoadPercent(c)
  PROVE  /\ ~ Busy(c) /\ Alone(c) /\ UNCHANGED <<dbVars, setVars>>
         /\ LET s == call'[c] IN
              /\ IsCall(s) /\ s.pc = "policy" /\ s.n = 1
              /\ s.percent = percent /\ s.crossed = (storing # None) /\ s.cut = 0
              /\ ~ s.blind /\ ~ s.progress /\ ~ s.removed /\ ~ s.err
<1> DEFINE s == [pc |-> "policy", percent |-> percent, policy |-> None,
                 first |-> 0, seen |-> 0, blind |-> FALSE,
                 n |-> 1, cut |-> 0, enough |-> FALSE, listed |-> <<>>,
                 progress |-> FALSE, err |-> FALSE,
                 crossed |-> storing # None, removed |-> FALSE, raced |-> FALSE,
                 faulted |-> FALSE]
<1>1. call' = [call EXCEPT ![c] = s] BY DEF LoadPercent
<1>2. <<>> \in Listing
  <2>1. <<>> \in [{} -> Nat] OBVIOUS
  <2>2. {} \in SUBSET (0..MaxTime) OBVIOUS
  <2>3. QED BY <2>1, <2>2 DEF Listing
<1>3. IsCall(s) BY <1>2 DEF IsCall, Fields, Pc, TypeInv, SettingTypes
<1>4. call'[c] = s /\ Alone(c) BY <1>1, Single DEF TypeInv
<1>5. ~ Busy(c) /\ UNCHANGED <<dbVars, setVars>> BY DEF LoadPercent, At, Busy
<1>6. QED BY <1>3, <1>4, <1>5

\* It takes the policy that is stored, and nothing else changes.
LEMMA LoadPolicyMoves ==
  ASSUME TypeInv, NEW c \in Caller, LoadPolicy(c)
  PROVE  LET r == call[c]  s == call'[c] IN
         /\ IsCall(r) /\ r.pc = "policy" /\ Alone(c) /\ UNCHANGED <<dbVars, setVars>>
         /\ Kept(r, s, {"pc", "policy"}) /\ s.pc = "gate" /\ s.policy = policy
<1>1. IsCall(call[c]) /\ call[c].pc = "policy" BY BusyAt DEF TypeInv, LoadPolicy, Pc
<1>2. call'[c] = [To(c, "gate") EXCEPT !.policy = policy] /\ Alone(c)
  BY Single DEF TypeInv, LoadPolicy, Goes
<1>3. Kept(call[c], call'[c], {"pc", "policy"}) BY <1>1, <1>2 DEF To, Kept, IsCall, Fields
<1>4. call'[c].pc = "gate" /\ call'[c].policy = policy BY <1>1, <1>2 DEF To, IsCall, Fields
<1>5. QED BY <1>1, <1>2, <1>3, <1>4 DEF LoadPolicy, Goes, Local

\* The gate lets a batch through unseen, or by the size it has read.
LEMMA GateMoves ==
  ASSUME TypeInv, NEW c \in Caller, Gate(c)
  PROVE  LET r == call[c]  s == call'[c]  limit == LimitOf(r.percent) IN
         /\ IsCall(r) /\ r.pc = "gate" /\ Alone(c) /\ Local
         /\ \/ /\ Kept(r, s, {"pc", "blind", "faulted"})
               /\ s.pc = "insert" /\ s.blind /\ s.faulted
            \/ /\ Kept(r, s, {"pc", "first", "seen"}) /\ s.first = Used /\ s.seen = Used
               /\ \/ s.pc = "insert" /\ Used < limit
                  \/ s.pc = "size"
                  \/ s.pc = "halt" /\ Used >= limit /\ r.policy # "drop_oldest"
<1>1. IsCall(call[c]) /\ call[c].pc = "gate" BY BusyAt DEF TypeInv, Gate, Pc
<1> DEFINE limit == LimitOf(call[c].percent)
<1>2. Used \in Nat /\ limit \in Nat \ {0} /\ Approach(limit) \in 1..limit
  BY <1>1, UsedType, Limits, Targets DEF TypeInv, IsCall
<1>3. CASE \E kind \in {"size", "disk"} : Fails(c, kind, [To(c, "insert") EXCEPT !.blind = TRUE])
  <2>1. /\ call'[c] = [[To(c, "insert") EXCEPT !.blind = TRUE] EXCEPT !.faulted = TRUE]
        /\ Alone(c) /\ Local
    BY <1>3, Single DEF TypeInv, Fails
  <2>2. QED BY <1>1, <2>1 DEF To, Kept, IsCall, Fields
<1>4. CASE ~ \E kind \in {"size", "disk"} : Fails(c, kind, [To(c, "insert") EXCEPT !.blind = TRUE])
  <2>1. /\ call'[c] = [call[c] EXCEPT
          !.first = Used, !.seen = Used,
          !.pc = CASE call[c].policy = "drop_oldest" ->
                        IF Used < Approach(limit) THEN "insert" ELSE "size"
                   [] OTHER -> IF Used < limit THEN "insert" ELSE "halt"]
        /\ Alone(c) /\ Local
    BY <1>4, Single DEF TypeInv, Gate, Goes
  <2>2. Kept(call[c], call'[c], {"pc", "first", "seen"}) BY <1>1, <2>1 DEF Kept, IsCall, Fields
  <2>3. /\ call'[c].first = Used /\ call'[c].seen = Used
        /\ call'[c].pc = CASE call[c].policy = "drop_oldest" ->
                                IF Used < Approach(limit) THEN "insert" ELSE "size"
                           [] OTHER -> IF Used < limit THEN "insert" ELSE "halt"
    BY <1>1, <2>1 DEF IsCall, Fields
  <2>4. \/ call'[c].pc = "insert" /\ Used < limit
        \/ call'[c].pc = "size"
        \/ call'[c].pc = "halt" /\ Used >= limit /\ call[c].policy # "drop_oldest"
    BY <1>2, <2>3
  <2>5. QED BY <1>1, <2>1, <2>2, <2>3, <2>4
<1>5. QED BY <1>3, <1>4

\* A pass ends, or goes on with the size it has read.
LEMMA SizeMoves ==
  ASSUME TypeInv, NEW c \in Caller, Size(c)
  PROVE  LET r == call[c]  s == call'[c]  target == Target(LimitOf(r.percent)) IN
         /\ IsCall(r) /\ r.pc = "size" /\ Alone(c) /\ Local
         /\ \/ /\ Kept(r, s, {"pc", "err", "faulted"})
               /\ s.pc = "recheck" /\ s.err /\ s.faulted
            \/ /\ Kept(r, s, {"pc", "seen"}) /\ s.seen = Used
               /\ \/ s.pc = "recheck" /\ Used < target
                  \/ s.pc = "list" /\ Used >= target /\ r.n <= MaxPasses
                  \/ s.pc = "oldest" /\ Used >= target
<1>1. IsCall(call[c]) /\ call[c].pc = "size" BY BusyAt DEF TypeInv, Size, Pc
<1> DEFINE limit == LimitOf(call[c].percent)
<1>2. Used \in Nat /\ limit \in Nat \ {0} /\ Target(limit) \in 1..limit
  BY <1>1, UsedType, Limits, Targets DEF TypeInv, IsCall
<1>3. CASE Fails(c, "size", [To(c, "recheck") EXCEPT !.err = TRUE])
  <2>1. /\ call'[c] = [[To(c, "recheck") EXCEPT !.err = TRUE] EXCEPT !.faulted = TRUE]
        /\ Alone(c) /\ Local
    BY <1>3, Single DEF TypeInv, Fails
  <2>2. QED BY <1>1, <2>1 DEF To, Kept, IsCall, Fields
<1>4. CASE ~ Fails(c, "size", [To(c, "recheck") EXCEPT !.err = TRUE])
  <2>1. /\ call'[c] = [call[c] EXCEPT
                  !.seen = Used,
                  !.pc = CASE Used < Target(limit) -> "recheck"
                           [] Used >= Target(limit) /\ call[c].n <= MaxPasses -> "list"
                           [] OTHER -> "oldest"]
        /\ Alone(c) /\ Local
    BY <1>4, Single DEF TypeInv, Size, Goes
  <2>2. Kept(call[c], call'[c], {"pc", "seen"}) BY <1>1, <2>1 DEF Kept, IsCall, Fields
  <2>3. /\ call'[c].seen = Used
        /\ call'[c].pc = CASE Used < Target(limit) -> "recheck"
                           [] Used >= Target(limit) /\ call[c].n <= MaxPasses -> "list"
                           [] OTHER -> "oldest"
    BY <1>1, <2>1 DEF IsCall, Fields
  <2>4. \/ call'[c].pc = "recheck" /\ Used < Target(limit)
        \/ call'[c].pc = "list" /\ Used >= Target(limit) /\ call[c].n <= MaxPasses
        \/ call'[c].pc = "oldest" /\ Used >= Target(limit)
    BY <1>2, <2>3
  <2>5. QED BY <1>1, <2>1, <2>2, <2>3, <2>4
<1>5. QED BY <1>3, <1>4

\* The plan of a List step whose answer names every chunk but gives some no size.
Plans(r, s) ==
  LET need == Max({1, r.seen - Target(LimitOf(r.percent))})
      kept == FirstKept(s.listed, r.seen, need)
  IN /\ Cardinality(DOMAIN size) > 1
     /\ DOMAIN s.listed = DOMAIN size
     /\ s.listed = [k \in DOMAIN size |-> s.listed[k]]
     /\ \A k \in DOMAIN size : s.listed[k] \in {0, size[k]}
     /\ s.cut = FirstTime(kept)
     /\ s.enough = (Freed(s.listed, r.seen, kept) >= need)

\* The list leads to a plan, or past it to the oldest chunk.
LEMMA ListMoves ==
  ASSUME TypeInv, NEW c \in Caller, List(c)
  PROVE  LET r == call[c]  s == call'[c] IN
         /\ IsCall(r) /\ r.pc = "list" /\ Alone(c) /\ Local
         /\ \/ Kept(r, s, {"pc", "faulted"}) /\ s.pc = "oldest" /\ s.faulted
            \/ /\ Kept(r, s, {"pc"}) /\ s.pc = "oldest"
               /\ Cardinality(DOMAIN size) <= 1
            \/ /\ Kept(r, s, {"pc", "cut", "enough", "listed"}) /\ s.pc = "drop"
               /\ Plans(r, s)
<1>1. IsCall(call[c]) /\ call[c].pc = "list" BY BusyAt DEF TypeInv, List, Pc
<1>2. CASE Fails(c, "list", To(c, "oldest"))
  <2>1. call'[c] = [To(c, "oldest") EXCEPT !.faulted = TRUE] /\ Alone(c) /\ Local
    BY <1>2, Single DEF TypeInv, Fails
  <2>2. QED BY <1>1, <2>1 DEF To, Kept, IsCall, Fields
<1>3. CASE Cardinality(DOMAIN size) <= 1 /\ Goes(c, To(c, "oldest"))
  <2>1. call'[c] = To(c, "oldest") /\ Alone(c) /\ Local
    BY <1>3, Single DEF TypeInv, Goes
  <2>2. QED BY <1>1, <1>3, <2>1 DEF To, Kept, IsCall, Fields
<1>4. CASE ~ Fails(c, "list", To(c, "oldest"))
           /\ ~ (Cardinality(DOMAIN size) <= 1 /\ Goes(c, To(c, "oldest")))
  <2>1. Cardinality(DOMAIN size) > 1 /\ Local BY <1>4 DEF List
  <2> DEFINE need == Max({1, call[c].seen - Target(LimitOf(call[c].percent))})
             answer(unknown) == [k \in DOMAIN size |-> IF k \in unknown THEN 0 ELSE size[k]]
             kept(unknown) == FirstKept(answer(unknown), call[c].seen, need)
  <2>2. PICK unknown \in {{}} \cup kSubset(1, DOMAIN size) \cup {DOMAIN size} :
          call' = [call EXCEPT ![c] =
                     [To(c, "drop") EXCEPT
                        !.cut = FirstTime(kept(unknown)),
                        !.enough = Freed(answer(unknown), call[c].seen, kept(unknown)) >= need,
                        !.listed = answer(unknown)]]
    BY <1>4 DEF List
  <2> DEFINE listed == answer(unknown)
             first  == kept(unknown)
  <2>3. DOMAIN listed = DOMAIN size /\ listed = [k \in DOMAIN size |-> listed[k]]
    OBVIOUS
  <2>4. \A k \in DOMAIN size : listed[k] \in {0, size[k]} OBVIOUS
  <2> HIDE DEF answer, need
  <2>5. /\ call'[c] = [To(c, "drop") EXCEPT
                         !.cut = FirstTime(first),
                         !.enough = Freed(listed, call[c].seen, first) >= need,
                         !.listed = listed]
        /\ Alone(c)
    BY <2>2, Single DEF TypeInv
  <2>6. /\ Kept(call[c], call'[c], {"pc", "cut", "enough", "listed"})
        /\ call'[c].pc = "drop" /\ call'[c].cut = FirstTime(first) /\ call'[c].listed = listed
        /\ call'[c].enough = (Freed(listed, call[c].seen, first) >= need)
    BY <1>1, <2>5 DEF To, Kept, IsCall, Fields
  <2>7. Plans(call[c], call'[c]) BY <2>1, <2>3, <2>4, <2>6 DEF Plans, need
  <2>8. QED BY <1>1, <2>1, <2>5, <2>6, <2>7
<1>5. QED BY <1>2, <1>3, <1>4

\* Where the next pass begins, or the trim ends.
Passes(r, s) == /\ s.progress /\ s.n = r.n + 1
                /\ s.pc = IF r.n = MaxPasses + MaxRounds THEN "recheck" ELSE "size"

\* After a failure the trim goes on with the next weaker means.
FallsTo(pc) == CASE pc = "drop" -> "oldest" [] pc = "dropOne" -> "span" [] OTHER -> "delete"

\* The three steps that drop chunks.
LEMMA DropMoves ==
  ASSUME TypeInv, NEW c \in Caller, Drop(c) \/ DropOne(c) \/ Slice(c)
  PROVE  LET r  == call[c]  s == call'[c]  ks == Before(r.cut)
             ts == {t \in rows : ChunkOf(t) \in ks} IN
         /\ IsCall(r) /\ r.pc \in {"drop", "dropOne", "slice"}
         /\ Drop(c) => r.pc = "drop"
         /\ \/ /\ Kept(r, s, {"pc", "faulted"}) /\ s.pc = FallsTo(r.pc) /\ s.faulted
               /\ \/ Alone(c) /\ Local
                  \/ Loses(c, ks, ts) /\ lag' = lag
            \/ /\ Kept(r, s, {"pc", "n", "progress", "removed"})
               /\ s.progress /\ s.removed = (r.removed \/ ks # {})
               /\ \/ r.pc = "drop" /\ s.pc = "recheck" /\ s.n = r.n
                  \/ Passes(r, s)
               /\ Loses(c, ks, ts) /\ lag' \in {lag, lag + Bytes(size, ks)}
<1> DEFINE r  == call[c]
           ks == Before(r.cut)
           ts == {t \in rows : ChunkOf(t) \in ks}
           failed == To(c, FallsTo(r.pc))
<1>1. IsCall(r) /\ r.pc \in {"drop", "dropOne", "slice"} /\ (Drop(c) => r.pc = "drop")
  BY BusyAt DEF TypeInv, Drop, DropOne, Slice, Pc
<1>2. PICK done \in {[To(c, "recheck") EXCEPT !.progress = TRUE], NextRound(c)} :
        /\ DropChunks(c, done, failed)
        /\ done # NextRound(c) => r.pc = "drop"
  <2>1. CASE Drop(c) BY <2>1 DEF Drop, At, FallsTo
  <2>2. CASE DropOne(c) BY <2>2 DEF DropOne, At, FallsTo
  <2>3. CASE Slice(c) BY <2>3 DEF Slice, At, FallsTo
  <2>4. QED BY <2>1, <2>2, <2>3
<1>3. /\ Kept(r, done, {"pc", "n", "progress"}) /\ done.progress
      /\ \/ r.pc = "drop" /\ done.pc = "recheck" /\ done.n = r.n
         \/ Passes(r, done)
  <2>1. CASE done = NextRound(c)
    <3>1. Kept(r, done, {"pc", "n", "progress"}) BY <1>1, <2>1 DEF NextRound, Kept, IsCall, Fields
    <3>2. Passes(r, done) BY <1>1, <2>1 DEF NextRound, Passes, IsCall, Fields
    <3>3. QED BY <3>1, <3>2 DEF Passes
  <2>2. CASE done # NextRound(c)
    BY <1>1, <1>2, <2>2 DEF To, Kept, IsCall, Fields
  <2>3. QED BY <2>1, <2>2
<1>4. /\ Kept(r, [failed EXCEPT !.faulted = TRUE], {"pc", "faulted"})
      /\ [failed EXCEPT !.faulted = TRUE].pc = FallsTo(r.pc)
      /\ [failed EXCEPT !.faulted = TRUE].faulted
  BY <1>1 DEF To, Kept, IsCall, Fields
<1>5. CASE Fails(c, "drop", failed)
  <2>1. call'[c] = [failed EXCEPT !.faulted = TRUE] /\ Alone(c) /\ Local
    BY <1>5, Single DEF TypeInv, Fails
  <2>2. QED BY <1>1, <1>4, <2>1
<1>6. CASE /\ Fault("ackLost") /\ UNCHANGED lag
           /\ Removes(c, [failed EXCEPT !.faulted = TRUE], ks, ts)
  <2>1. call'[c] = [failed EXCEPT !.faulted = TRUE] /\ Loses(c, ks, ts)
    BY <1>6, Removal DEF TypeInv
  <2>2. QED BY <1>1, <1>4, <1>6, <2>1
<1>7. CASE /\ Removes(c, [done EXCEPT !.removed = @ \/ ks # {}], ks, ts)
           /\ lag' \in {lag, lag + Bytes(size, ks)}
  <2> DEFINE s == [done EXCEPT !.removed = @ \/ ks # {}]
  <2>1. call'[c] = s /\ Loses(c, ks, ts) BY <1>7, Removal DEF TypeInv
  <2>2. Kept(r, s, {"pc", "n", "progress", "removed"}) BY <1>1, <1>3 DEF Kept, IsCall, Fields
  <2>3. s.removed = (r.removed \/ ks # {}) BY <1>1, <1>3 DEF Kept, IsCall, Fields
  <2>4. s.progress = done.progress /\ s.pc = done.pc /\ s.n = done.n
    BY <1>3 DEF Kept, Fields
  <2>5. QED BY <1>1, <1>3, <1>7, <2>1, <2>2, <2>3, <2>4 DEF Passes
<1>8. QED BY <1>2, <1>5, <1>6, <1>7 DEF DropChunks

\* A drop of the oldest chunk stops short of the second one.
LEMMA OldestMoves ==
  ASSUME TypeInv, NEW c \in Caller, Oldest(c)
  PROVE  LET r == call[c]  s == call'[c]
             later == {FirstTime(k) : k \in DOMAIN size \ {Min(DOMAIN size)}} IN
         /\ IsCall(r) /\ r.pc = "oldest" /\ Alone(c) /\ Local
         /\ \/ Kept(r, s, {"pc", "faulted"}) /\ s.pc = "span" /\ s.faulted
            \/ Kept(r, s, {"pc"}) /\ s.pc = "span" /\ later = {}
            \/ /\ Kept(r, s, {"pc", "cut"}) /\ s.pc = "dropOne"
               /\ later # {} /\ s.cut = Min(later)
<1> DEFINE later == {FirstTime(k) : k \in DOMAIN size \ {Min(DOMAIN size)}}
<1>1. IsCall(call[c]) /\ call[c].pc = "oldest" BY BusyAt DEF TypeInv, Oldest, Pc
<1>2. CASE Fails(c, "list", To(c, "span"))
  <2>1. call'[c] = [To(c, "span") EXCEPT !.faulted = TRUE] /\ Alone(c) /\ Local
    BY <1>2, Single DEF TypeInv, Fails
  <2>2. QED BY <1>1, <2>1 DEF To, Kept, IsCall, Fields
<1>3. CASE later = {} /\ Goes(c, To(c, "span"))
  <2>1. call'[c] = To(c, "span") /\ Alone(c) /\ Local BY <1>3, Single DEF TypeInv, Goes
  <2>2. QED BY <1>1, <1>3, <2>1 DEF To, Kept, IsCall, Fields
<1>4. CASE later # {} /\ Goes(c, [To(c, "dropOne") EXCEPT !.cut = Min(later)])
  <2>1. call'[c] = [To(c, "dropOne") EXCEPT !.cut = Min(later)] /\ Alone(c) /\ Local
    BY <1>4, Single DEF TypeInv, Goes
  <2> HIDE DEF later
  <2>2. Kept(call[c], call'[c], {"pc", "cut"}) BY <1>1, <2>1 DEF To, Kept, IsCall, Fields
  <2>3. call'[c].pc = "dropOne" /\ call'[c].cut = Min(later)
    BY <1>1, <2>1 DEF To, IsCall, Fields
  <2>4. QED BY <1>1, <1>4, <2>1, <2>2, <2>3 DEF later
<1>5. QED BY <1>2, <1>3, <1>4 DEF Oldest

\* A slice is cut at the oldest row, of two at least.
LEMMA SpanMoves ==
  ASSUME TypeInv, NEW c \in Caller, Span(c)
  PROVE  LET r == call[c]  s == call'[c] IN
         /\ IsCall(r) /\ r.pc = "span" /\ Alone(c) /\ Local
         /\ \/ /\ Kept(r, s, {"pc", "err", "faulted"}) /\ s.pc = "recheck" /\ s.err
               /\ s.faulted \in BOOLEAN /\ (r.faulted => s.faulted)
               /\ s.faulted \/ Cardinality(rows) < 2
            \/ /\ Kept(r, s, {"pc", "cut"}) /\ s.pc = "slice"
               /\ Cardinality(rows) >= 2 /\ s.cut = Min(rows)
<1>1. IsCall(call[c]) /\ call[c].pc = "span" BY BusyAt DEF TypeInv, Span, Pc
<1>2. CASE Fails(c, "list", [To(c, "recheck") EXCEPT !.err = TRUE])
  <2>1. /\ call'[c] = [[To(c, "recheck") EXCEPT !.err = TRUE] EXCEPT !.faulted = TRUE]
        /\ Alone(c) /\ Local
    BY <1>2, Single DEF TypeInv, Fails
  <2>2. QED BY <1>1, <2>1 DEF To, Kept, IsCall, Fields
<1>3. CASE Cardinality(rows) < 2 /\ Goes(c, [To(c, "recheck") EXCEPT !.err = TRUE])
  <2>1. call'[c] = [To(c, "recheck") EXCEPT !.err = TRUE] /\ Alone(c) /\ Local
    BY <1>3, Single DEF TypeInv, Goes
  <2>2. QED BY <1>1, <1>3, <2>1 DEF To, Kept, IsCall, Fields
<1>4. CASE Cardinality(rows) >= 2 /\ Goes(c, [To(c, "slice") EXCEPT !.cut = Min(rows)])
  <2>1. call'[c] = [To(c, "slice") EXCEPT !.cut = Min(rows)] /\ Alone(c) /\ Local
    BY <1>4, Single DEF TypeInv, Goes
  <2>2. QED BY <1>1, <1>4, <2>1 DEF To, Kept, IsCall, Fields
<1>5. QED BY <1>2, <1>3, <1>4 DEF Span

\* The DELETE takes rows up to the cut, or the trim gives up.
LEMMA DeleteMoves ==
  ASSUME TypeInv, NEW c \in Caller, Delete(c)
  PROVE  LET r == call[c]  s == call'[c] IN
         /\ IsCall(r) /\ r.pc = "delete"
         /\ \/ Kept(r, s, {"pc", "err"}) /\ s.pc = "recheck" /\ s.err /\ Alone(c) /\ Local
            \/ /\ Kept(r, s, {"pc", "n", "progress", "removed"})
               /\ Passes(r, s) /\ s.removed /\ lag' = lag
               /\ Loses(c, {}, {t \in rows : t <= r.cut})
<1> DEFINE old == {t \in rows : t <= call[c].cut}
<1>1. IsCall(call[c]) /\ call[c].pc = "delete" BY BusyAt DEF TypeInv, Delete, Pc
<1>2. CASE Goes(c, [To(c, "recheck") EXCEPT !.err = TRUE])
  <2>1. call'[c] = [To(c, "recheck") EXCEPT !.err = TRUE] /\ Alone(c) /\ Local
    BY <1>2, Single DEF TypeInv, Goes
  <2>2. QED BY <1>1, <2>1 DEF To, Kept, IsCall, Fields
<1>3. CASE Removes(c, [NextRound(c) EXCEPT !.removed = TRUE], {}, old) /\ lag' = lag
  <2> DEFINE s == [NextRound(c) EXCEPT !.removed = TRUE]
  <2>1. call'[c] = s /\ Loses(c, {}, old) BY <1>3, Removal DEF TypeInv
  <2>2. Kept(call[c], s, {"pc", "n", "progress", "removed"})
    BY <1>1 DEF NextRound, Kept, IsCall, Fields
  <2>3. Passes(call[c], s) /\ s.removed BY <1>1 DEF NextRound, Passes, IsCall, Fields
  <2>4. QED BY <1>1, <1>3, <2>1, <2>2, <2>3
<1>4. QED BY <1>2, <1>3 DEF Delete

\* The verdict, by the size read now or else by the first one.
LEMMA RecheckMoves ==
  ASSUME TypeInv, NEW c \in Caller, Recheck(c)
  PROVE  LET r == call[c]  s == call'[c]  limit == LimitOf(r.percent) IN
         /\ IsCall(r) /\ r.pc = "recheck" /\ Alone(c) /\ Local
         /\ \/ /\ Kept(r, s, {"pc", "blind", "faulted"}) /\ s.blind /\ s.faulted
               /\ \/ s.pc = "insert"
                  \/ s.pc = "busy" /\ r.first >= limit
                  \/ s.pc = "halt" /\ r.first >= limit /\ ~ r.progress
            \/ /\ Kept(r, s, {"pc", "seen"}) /\ s.seen = Used
               /\ \/ s.pc = "insert" /\ Used < limit
                  \/ s.pc = "halt" /\ Used >= limit /\ ~ r.progress /\ r.err
                  \/ s.pc = "busy" /\ Used >= limit
<1> DEFINE r == call[c]
           limit == LimitOf(r.percent)
           blindly == [r EXCEPT !.blind = TRUE,
                                !.pc = CASE r.first < limit -> "insert"
                                         [] r.first >= limit /\ r.progress -> "busy"
                                         [] OTHER -> "halt"]
<1>1. IsCall(r) /\ r.pc = "recheck" BY BusyAt DEF TypeInv, Recheck, Pc
<1>2. Used \in Nat /\ limit \in Nat \ {0} /\ r.first \in Nat
  BY <1>1, UsedType, Limits DEF TypeInv, IsCall
<1>3. CASE Fails(c, "size", blindly)
  <2>1. call'[c] = [blindly EXCEPT !.faulted = TRUE] /\ Alone(c) /\ Local
    BY <1>3, Single DEF TypeInv, Fails
  <2>2. Kept(r, call'[c], {"pc", "blind", "faulted"}) BY <1>1, <2>1 DEF Kept, IsCall, Fields
  <2>3. /\ call'[c].blind /\ call'[c].faulted
        /\ call'[c].pc = CASE r.first < limit -> "insert"
                           [] r.first >= limit /\ r.progress -> "busy"
                           [] OTHER -> "halt"
    BY <1>1, <2>1 DEF IsCall, Fields
  <2>4. r.progress \in BOOLEAN BY <1>1 DEF IsCall
  <2>5. \/ call'[c].pc = "insert"
        \/ call'[c].pc = "busy" /\ r.first >= limit
        \/ call'[c].pc = "halt" /\ r.first >= limit /\ ~ r.progress
    BY <1>2, <2>3, <2>4
  <2>6. QED BY <1>1, <2>1, <2>2, <2>3, <2>5
<1>4. CASE ~ Fails(c, "size", blindly)
  <2>1. /\ call'[c] = [r EXCEPT !.seen = Used,
                                !.pc = CASE Used < limit -> "insert"
                                         [] Used >= limit /\ r.err /\ ~ r.progress -> "halt"
                                         [] OTHER -> "busy"]
        /\ Alone(c) /\ Local
    BY <1>4, Single DEF TypeInv, Recheck, Goes
  <2>2. Kept(r, call'[c], {"pc", "seen"}) BY <1>1, <2>1 DEF Kept, IsCall, Fields
  <2>3. /\ call'[c].seen = Used
        /\ call'[c].pc = CASE Used < limit -> "insert"
                           [] Used >= limit /\ r.err /\ ~ r.progress -> "halt"
                           [] OTHER -> "busy"
    BY <1>1, <2>1 DEF IsCall, Fields
  <2>4. r.progress \in BOOLEAN /\ r.err \in BOOLEAN BY <1>1 DEF IsCall
  <2>5. \/ call'[c].pc = "insert" /\ Used < limit
        \/ call'[c].pc = "halt" /\ Used >= limit /\ ~ r.progress /\ r.err
        \/ call'[c].pc = "busy" /\ Used >= limit
    BY <1>2, <2>3, <2>4
  <2>6. QED BY <1>1, <2>1, <2>2, <2>3, <2>5
<1>5. QED BY <1>3, <1>4

\* A row is stored, in its chunk.
LEMMA InsertMoves ==
  ASSUME TypeInv, NEW c \in Caller, Insert(c)
  PROVE  /\ IsCall(call[c]) /\ call[c].pc = "insert"
         /\ call'[c] = Idle /\ Disturbs(c) /\ lag' = lag /\ UNCHANGED setVars
         /\ \E t \in 0..MaxTime :
              /\ rows' = rows \cup {t}
              /\ size' = [k \in DOMAIN size \cup {ChunkOf(t)} |->
                            IF k \notin DOMAIN size THEN RowBytes
                            ELSE size[k] + IF k = ChunkOf(t) THEN RowBytes ELSE 0]
<1>1. IsCall(call[c]) /\ call[c].pc = "insert" BY BusyAt DEF TypeInv, Insert, Pc
<1>2. call'[c] = Idle /\ Disturbs(c) BY DEF Insert, Disturbs, TypeInv, CallTypes
<1>3. QED BY <1>1, <1>2 DEF Insert

\* A call ends and leaves everything as it is.
LEMMA ReturnMoves ==
  ASSUME TypeInv, NEW c \in Caller, Return(c)
  PROVE  Busy(c) /\ call'[c] = Idle /\ Alone(c) /\ Local
BY Single DEF TypeInv, Return, Goes, At, Busy

-----------------------------------------------------------------------------
(* Types are kept.                                                         *)

\* The call of one caller changes, the table and the settings do not.
LEMMA AloneTypes ==
  ASSUME TypeInv, NEW c \in Caller, Alone(c), UNCHANGED <<dbVars, setVars>>,
         call'[c].pc = "idle" \/ IsCall(call'[c])
  PROVE  TypeInv'
<1>1. CallTypes' BY DEF TypeInv, CallTypes, Alone, Busy
<1>2. QED BY <1>1 DEF TypeInv, TableTypes, SettingTypes, dbVars, setVars

\* The other calls remain calls when they are disturbed.
LEMMA DisturbTypes ==
  ASSUME TypeInv, NEW c \in Caller, Disturbs(c), call'[c].pc = "idle" \/ IsCall(call'[c])
  PROVE  CallTypes'
<1>1. ASSUME NEW g \in Caller, Busy(g)', g # c PROVE IsCall(call'[g])
  <2>1. CASE Busy(g)
    <3>1. IsCall(call[g]) BY <2>1 DEF TypeInv, CallTypes
    <3>2. call'[g] = [call[g] EXCEPT !.raced = TRUE] BY <1>1, <2>1 DEF Disturbs
    <3>3. QED BY <3>1, <3>2 DEF IsCall, Fields
  <2>2. CASE ~ Busy(g)
    BY <1>1, <2>2 DEF Disturbs, Busy
  <2>3. QED BY <2>1, <2>2
<1>2. QED BY <1>1 DEF CallTypes, Disturbs, Busy

\* Rows go, and of the chunks only such that hold no other row.
LEMMA LosesTypes ==
  ASSUME TypeInv, NEW c \in Caller, NEW ks \in SUBSET DOMAIN size, NEW ts,
         Loses(c, ks, ts), \A t \in rows : ChunkOf(t) \in ks => t \in ts,
         lag' \in {lag, lag + Bytes(size, ks)}, IsCall(call'[c])
  PROVE  TypeInv'
<1>1. CallTypes' BY DisturbTypes DEF Loses
<1>2. Bytes(size, ks) \in Nat BY UsedType DEF TypeInv
<1>3. lag' \in Nat BY <1>2 DEF TypeInv, TableTypes
<1>4. DOMAIN size' = DOMAIN size \ ks /\ rows' = rows \ ts BY DEF Loses
<1>5. \A t \in rows' : ChunkOf(t) \in DOMAIN size' BY <1>4 DEF TypeInv, TableTypes
<1>6. size' \in [DOMAIN size' -> Nat \ {0}] BY DEF Loses, TypeInv, TableTypes
<1>7. TableTypes' BY <1>3, <1>4, <1>5, <1>6 DEF TypeInv, TableTypes
<1>8. QED BY <1>1, <1>7 DEF TypeInv, SettingTypes, Loses, setVars

\* What remains a call after its step.
LEMMA KeptCall ==
  ASSUME NEW r, NEW s, IsCall(r), r.pc # "policy", s.pc \in Pc \ {"policy"},
         NEW changed \in SUBSET {"pc", "first", "seen", "blind", "n", "cut", "enough",
                                 "listed", "progress", "err", "removed", "faulted"},
         Kept(r, s, changed),
         "first" \in changed => s.first \in Nat, "seen" \in changed => s.seen \in Nat,
         "blind" \in changed => s.blind \in BOOLEAN, "n" \in changed => s.n \in Nat \ {0},
         "cut" \in changed => s.cut \in Nat, "enough" \in changed => s.enough \in BOOLEAN,
         "listed" \in changed => s.listed \in Listing,
         "progress" \in changed => s.progress \in BOOLEAN,
         "err" \in changed => s.err \in BOOLEAN,
         "removed" \in changed => s.removed \in BOOLEAN,
         "faulted" \in changed => s.faulted \in BOOLEAN
  PROVE  IsCall(s)
<1>1. /\ s.percent = r.percent /\ s.policy = r.policy
      /\ s.crossed = r.crossed /\ s.raced = r.raced /\ DOMAIN s = Fields
  BY DEF Kept, Fields
<1>2. /\ s.first \in Nat /\ s.seen \in Nat /\ s.blind \in BOOLEAN /\ s.n \in Nat \ {0}
  BY DEF Kept, Fields, IsCall
<1>3. s.cut \in Nat /\ s.enough \in BOOLEAN /\ s.listed \in Listing
  BY DEF Kept, Fields, IsCall
<1>4. /\ s.progress \in BOOLEAN /\ s.err \in BOOLEAN /\ s.removed \in BOOLEAN
      /\ s.faulted \in BOOLEAN
  BY DEF Kept, Fields, IsCall
<1>5. QED BY <1>1, <1>2, <1>3, <1>4 DEF IsCall

-----------------------------------------------------------------------------
(* The plan of a drop.                                                     *)

\* With more than one chunk, a second oldest one has just one before it.
LEMMA SecondChunk ==
  ASSUME NEW D \in SUBSET Nat, IsFiniteSet(D), Cardinality(D) > 1
  PROVE  \E k \in D : Cardinality({j \in D : j < k}) = 1
<1>1. D # {} BY FS_EmptySet
<1> DEFINE first == Min(D)
           rest  == D \ {first}
<1>2. first \in D /\ \A y \in D : first <= y BY <1>1, MinExists
<1>3. rest # {}
  <2>1. Cardinality({first}) = 1 BY FS_Singleton
  <2>2. rest = {} => D = {first} BY <1>2
  <2>3. QED BY <2>1, <2>2
<1> DEFINE second == Min(rest)
<1>4. second \in rest /\ \A y \in rest : second <= y BY <1>3, MinExists
<1> HIDE DEF first, second
<1>5. {j \in D : j < second} = {first}
  <2>1. first \in Nat /\ second \in Nat /\ first # second /\ first <= second BY <1>2, <1>4
  <2>2. ASSUME NEW j \in D, j < second PROVE j = first
    <3>1. j \in rest => second <= j BY <1>4
    <3>2. j \in Nat OBVIOUS
    <3>3. QED BY <2>1, <2>2, <3>1, <3>2
  <2>3. first < second BY <2>1
  <2>4. QED BY <1>2, <2>2, <2>3
<1>6. QED BY <1>4, <1>5, FS_Singleton

\* The chunk that is kept first is not the oldest, and none before it, but after
\* the oldest, would do.
LEMMA KeptFirst ==
  ASSUME NEW listed \in Listing, Cardinality(DOMAIN listed) > 1, NEW used, NEW need
  PROVE  LET kept == FirstKept(listed, used, need) IN
         /\ kept \in DOMAIN listed /\ Older(listed, kept) # {}
         /\ \A k \in DOMAIN listed : k < kept /\ Older(listed, k) # {} =>
              ~ (Freed(listed, used, k) >= need)
<1> DEFINE D    == DOMAIN listed
           may  == {k \in D : Cardinality(Older(listed, k)) \in 1..MaxDrop}
           good == {k \in may : Freed(listed, used, k) >= need}
           kept == Min(good \cup {Max(may)})
<1>1. D \in SUBSET (0..MaxTime) /\ D \in SUBSET Nat /\ MaxTime \in Nat /\ MaxDrop \in Nat \ {0}
  BY CapacityAssumption DEF Listing
<1>2. IsFiniteSet(D)
  <2>1. 0 \in Int /\ MaxTime \in Int BY <1>1
  <2>2. IsFiniteSet(0..MaxTime) BY <2>1, FS_Interval
  <2>3. QED BY <1>1, <2>2, FS_Subset
<1>3. may # {}
  <2>1. PICK k \in D : Cardinality({j \in D : j < k}) = 1 BY <1>1, <1>2, SecondChunk
  <2>2. k \in may BY <1>1, <2>1 DEF Older
  <2>3. QED BY <2>2
<1>4. Max(may) \in may BY <1>1, <1>3, MaxExists
<1>5. good \cup {Max(may)} \in SUBSET Nat /\ good \cup {Max(may)} # {} BY <1>1, <1>4
<1>6. kept \in good \cup {Max(may)} /\ \A y \in good \cup {Max(may)} : kept <= y
  BY <1>5, MinExists
<1>7. FirstKept(listed, used, need) = kept BY DEF FirstKept
<1>8. kept \in may /\ kept \in Nat BY <1>1, <1>4, <1>6
<1> HIDE DEF kept
<1>9. Older(listed, kept) # {} /\ Cardinality(Older(listed, kept)) \in 1..MaxDrop
  <2>1. Cardinality({}) = 0 BY FS_EmptySet
  <2>2. Cardinality(Older(listed, kept)) \in 1..MaxDrop BY <1>8
  <2>3. QED BY <1>1, <2>1, <2>2
<1>10. ASSUME NEW k \in D, k < kept, Older(listed, k) # {}
       PROVE  ~ (Freed(listed, used, k) >= need)
  <2> HIDE DEF good
  <2>1. Older(listed, k) \subseteq Older(listed, kept)
    <3>1. ASSUME NEW j \in D, j < k PROVE j < kept
      <4>1. j \in Nat /\ k \in Nat BY <1>1
      <4>2. QED BY <1>8, <1>10, <3>1, <4>1
    <3>2. QED BY <3>1 DEF Older
  <2>2. IsFiniteSet(Older(listed, kept)) /\ IsFiniteSet(Older(listed, k))
    BY <1>2, FS_Subset DEF Older
  <2>3. Cardinality(Older(listed, k)) <= Cardinality(Older(listed, kept))
    BY <2>1, <2>2, FS_Subset
  <2>4. Cardinality(Older(listed, k)) \in Nat \ {0}
    BY <1>10, <2>2, FS_CardinalityType, FS_EmptySet
  <2>5. Cardinality(Older(listed, k)) \in 1..MaxDrop BY <1>1, <1>9, <2>3, <2>4
  <2>6. k \in Nat BY <1>1
  <2>7. k \in good => kept <= k BY <1>6
  <2>8. k \notin good BY <1>8, <1>10, <2>6, <2>7
  <2>9. QED BY <2>5, <2>8 DEF good
<1>11. QED BY <1>7, <1>8, <1>9, <1>10

\* What a plan says of the chunks.
PlannedCut(r, s) ==
  /\ s.listed \in Listing
  /\ \E kept \in DOMAIN size :
       /\ s.cut = FirstTime(kept)
       /\ \E k \in DOMAIN size : k < kept
       /\ \A k \in DOMAIN size : k < kept /\ Older(s.listed, k) # {} =>
            ~ (Freed(s.listed, r.seen, k)
                 >= Max({1, r.seen - Target(LimitOf(r.percent))}))

\* A plan has a cut that is the start of a listed chunk that is not the first.
LEMMA PlanKeeps ==
  ASSUME TypeInv, NEW r, NEW s, Plans(r, s)
  PROVE  PlannedCut(r, s)
<1> DEFINE need == Max({1, r.seen - Target(LimitOf(r.percent))})
           kept == FirstKept(s.listed, r.seen, need)
<1>1. s.listed \in Listing
  <2>1. DOMAIN size \in SUBSET (0..MaxTime) BY DEF TypeInv, TableTypes
  <2>2. \A k \in DOMAIN size : s.listed[k] \in Nat BY DEF Plans, TypeInv, TableTypes
  <2>3. s.listed \in [DOMAIN size -> Nat] BY <2>2 DEF Plans
  <2>4. QED BY <2>1, <2>3 DEF Listing
<1>2. DOMAIN s.listed = DOMAIN size /\ Cardinality(DOMAIN s.listed) > 1 /\ s.cut = FirstTime(kept)
  BY DEF Plans
<1> HIDE DEF need
<1>3. /\ kept \in DOMAIN s.listed /\ Older(s.listed, kept) # {}
      /\ \A k \in DOMAIN s.listed : k < kept /\ Older(s.listed, k) # {} =>
              ~ (Freed(s.listed, r.seen, k) >= need)
  BY <1>1, <1>2, KeptFirst
<1>4. \E k \in DOMAIN size : k < kept BY <1>2, <1>3 DEF Older
<1>5. QED BY <1>1, <1>2, <1>3, <1>4 DEF PlannedCut, need

-----------------------------------------------------------------------------
(* Each step keeps the types.                                              *)

\* The two loads keep the types.
LEMMA LoadTypes ==
  ASSUME TypeInv, NEW c \in Caller, LoadPercent(c) \/ LoadPolicy(c)
  PROVE  TypeInv'
<1>1. CASE LoadPercent(c) BY <1>1, LoadPercentMoves, AloneTypes
<1>2. CASE LoadPolicy(c)
  <2>1. IsCall(call'[c]) BY <1>2, LoadPolicyMoves DEF Kept, IsCall, Fields, Pc, TypeInv, SettingTypes
  <2>2. QED BY <1>2, <2>1, LoadPolicyMoves, AloneTypes
<1>3. QED BY <1>1, <1>2

\* The gate keeps the types.
LEMMA GateTypes == ASSUME TypeInv, NEW c \in Caller, Gate(c) PROVE TypeInv'
<1>1. Used \in Nat BY UsedType DEF TypeInv
<1>2. IsCall(call'[c]) BY <1>1, GateMoves, KeptCall DEF Pc
<1>3. QED BY <1>2, GateMoves, AloneTypes DEF Local

\* Reading the size keeps the types.
LEMMA SizeTypes == ASSUME TypeInv, NEW c \in Caller, Size(c) PROVE TypeInv'
<1>1. Used \in Nat BY UsedType DEF TypeInv
<1>2. IsCall(call'[c]) BY <1>1, SizeMoves, KeptCall DEF Pc
<1>3. QED BY <1>2, SizeMoves, AloneTypes DEF Local

\* Choosing a slice keeps the types.
LEMMA SpanTypes == ASSUME TypeInv, NEW c \in Caller, Span(c) PROVE TypeInv'
<1>1. Cardinality(rows) >= 2 => Min(rows) \in Nat
  <2>1. rows \in SUBSET Nat BY DEF TypeInv, TableTypes
  <2>2. Cardinality(rows) >= 2 => rows # {} BY FS_EmptySet
  <2>3. QED BY <2>1, <2>2, MinExists
<1>2. IsCall(call'[c])
  <2>1. CASE /\ Kept(call[c], call'[c], {"pc", "err", "faulted"})
             /\ call'[c].pc = "recheck" /\ call'[c].err /\ call'[c].faulted \in BOOLEAN
    BY <2>1, SpanMoves, KeptCall DEF Pc
  <2>2. CASE /\ Kept(call[c], call'[c], {"pc", "cut"}) /\ call'[c].pc = "slice"
             /\ Cardinality(rows) >= 2 /\ call'[c].cut = Min(rows)
    BY <1>1, <2>2, SpanMoves, KeptCall DEF Pc
  <2>3. QED BY <2>1, <2>2, SpanMoves
<1>3. QED BY <1>2, SpanMoves, AloneTypes DEF Local

\* The verdict keeps the types.
LEMMA RecheckTypes == ASSUME TypeInv, NEW c \in Caller, Recheck(c) PROVE TypeInv'
<1>1. Used \in Nat BY UsedType DEF TypeInv
<1>2. IsCall(call'[c]) BY <1>1, RecheckMoves, KeptCall DEF Pc
<1>3. QED BY <1>2, RecheckMoves, AloneTypes DEF Local

\* The end of a call keeps the types.
LEMMA ReturnTypes == ASSUME TypeInv, NEW c \in Caller, Return(c) PROVE TypeInv'
BY ReturnMoves, AloneTypes DEF Local, Idle

\* The second oldest chunk is one.
LEMMA LaterType ==
  ASSUME TypeInv, NEW later, later = {FirstTime(k) : k \in DOMAIN size \ {Min(DOMAIN size)}},
         later # {}
  PROVE  /\ DOMAIN size # {} /\ Min(DOMAIN size) \in DOMAIN size
         /\ \E k \in DOMAIN size : Min(later) = FirstTime(k) /\ Min(DOMAIN size) < k
<1>1. DOMAIN size \in SUBSET Nat BY DEF TypeInv, TableTypes
<1>2. Min(DOMAIN size) \in DOMAIN size /\ \A k \in DOMAIN size : Min(DOMAIN size) <= k
  BY <1>1, MinExists
<1>3. later \in SUBSET Nat BY <1>1, ChunkOrder
<1>4. Min(later) \in later BY <1>3, MinExists
<1>5. PICK k \in DOMAIN size \ {Min(DOMAIN size)} : Min(later) = FirstTime(k) BY <1>4
<1>6. Min(DOMAIN size) < k BY <1>1, <1>2, <1>5
<1>7. QED BY <1>2, <1>5, <1>6

\* Choosing the oldest chunk keeps the types.
LEMMA OldestTypes == ASSUME TypeInv, NEW c \in Caller, Oldest(c) PROVE TypeInv'
<1> DEFINE later == {FirstTime(k) : k \in DOMAIN size \ {Min(DOMAIN size)}}
<1>1. later # {} => Min(later) \in Nat
  <2>1. \A k \in DOMAIN size : FirstTime(k) \in Nat
    BY ChunkOrder DEF TypeInv, TableTypes
  <2>2. later # {} => \E k \in DOMAIN size : Min(later) = FirstTime(k) BY LaterType
  <2>3. QED BY <2>1, <2>2
<1> HIDE DEF later
<1>2. IsCall(call'[c])
  <2>1. CASE /\ Kept(call[c], call'[c], {"pc", "faulted"}) /\ call'[c].pc = "span"
             /\ call'[c].faulted
    BY <2>1, OldestMoves, KeptCall DEF Pc
  <2>2. CASE Kept(call[c], call'[c], {"pc"}) /\ call'[c].pc = "span"
    BY <2>2, OldestMoves, KeptCall DEF Pc
  <2>3. CASE /\ Kept(call[c], call'[c], {"pc", "cut"}) /\ call'[c].pc = "dropOne"
             /\ later # {} /\ call'[c].cut = Min(later)
    BY <1>1, <2>3, OldestMoves, KeptCall DEF Pc
  <2>4. QED BY <2>1, <2>2, <2>3, OldestMoves DEF later
<1>3. QED BY <1>2, OldestMoves, AloneTypes DEF Local

\* The three drops keep the types.
LEMMA DropTypes ==
  ASSUME TypeInv, NEW c \in Caller, Drop(c) \/ DropOne(c) \/ Slice(c)
  PROVE  TypeInv'
<1> DEFINE ks == Before(call[c].cut)
<1>1. ks \in SUBSET DOMAIN size BY DEF Before
<1>2. IsCall(call'[c])
  <2>1. call[c].n \in Nat \ {0} BY DropMoves DEF IsCall
  <2>2. CASE /\ Kept(call[c], call'[c], {"pc", "faulted"})
             /\ call'[c].pc = FallsTo(call[c].pc) /\ call'[c].faulted
    BY <2>2, DropMoves, KeptCall DEF FallsTo, Pc
  <2>3. CASE /\ Kept(call[c], call'[c], {"pc", "n", "progress", "removed"})
             /\ call'[c].progress /\ call'[c].removed = (call[c].removed \/ ks # {})
             /\ \/ call'[c].pc = "recheck" /\ call'[c].n = call[c].n
                \/ Passes(call[c], call'[c])
    <3>1. call'[c].n \in Nat \ {0} /\ call'[c].pc \in {"recheck", "size"}
      BY <2>1, <2>3 DEF Passes
    <3>2. call'[c].progress \in BOOLEAN /\ call'[c].removed \in BOOLEAN
      BY <2>3
    <3>3. QED BY <2>3, <3>1, <3>2, DropMoves, KeptCall DEF Pc
  <2>4. QED BY <2>2, <2>3, DropMoves
<1>3. CASE Alone(c) /\ Local BY <1>2, <1>3, AloneTypes DEF Local
<1>4. CASE ~ (Alone(c) /\ Local)
  <2>1. /\ Loses(c, ks, {t \in rows : ChunkOf(t) \in ks})
        /\ lag' \in {lag, lag + Bytes(size, ks)}
    BY <1>4, DropMoves
  <2>2. QED BY <1>1, <1>2, <2>1, LosesTypes
<1>5. QED BY <1>3, <1>4

\* The DELETE keeps the types.
LEMMA DeleteTypes == ASSUME TypeInv, NEW c \in Caller, Delete(c) PROVE TypeInv'
<1>1. IsCall(call'[c])
  <2>1. call[c].n \in Nat \ {0} BY DeleteMoves DEF IsCall
  <2>2. CASE /\ Kept(call[c], call'[c], {"pc", "err"})
             /\ call'[c].pc = "recheck" /\ call'[c].err
    BY <2>2, DeleteMoves, KeptCall DEF Pc
  <2>3. CASE /\ Kept(call[c], call'[c], {"pc", "n", "progress", "removed"})
             /\ Passes(call[c], call'[c]) /\ call'[c].removed
    <3>1. call'[c].n \in Nat \ {0} /\ call'[c].pc \in {"recheck", "size"}
      BY <2>1, <2>3 DEF Passes
    <3>2. call'[c].progress \in BOOLEAN /\ call'[c].removed \in BOOLEAN
      BY <2>3 DEF Passes
    <3>3. QED BY <2>3, <3>1, <3>2, DeleteMoves, KeptCall DEF Pc
  <2>4. QED BY <2>2, <2>3, DeleteMoves
<1>2. CASE Alone(c) /\ Local BY <1>1, <1>2, AloneTypes DEF Local
<1>3. CASE ~ (Alone(c) /\ Local)
  <2>1. Loses(c, {}, {t \in rows : t <= call[c].cut}) /\ lag' = lag
    BY <1>3, DeleteMoves
  <2>2. QED BY <1>1, <2>1, LosesTypes
<1>4. QED BY <1>2, <1>3

\* The INSERT keeps the types: the new row has a chunk.
LEMMA InsertTypes == ASSUME TypeInv, NEW c \in Caller, Insert(c) PROVE TypeInv'
<1>1. CallTypes' BY InsertMoves, DisturbTypes DEF Idle
<1>2. PICK t \in 0..MaxTime :
        /\ rows' = rows \cup {t}
        /\ size' = [k \in DOMAIN size \cup {ChunkOf(t)} |->
                      IF k \notin DOMAIN size THEN RowBytes
                      ELSE size[k] + IF k = ChunkOf(t) THEN RowBytes ELSE 0]
  BY InsertMoves
<1>3. MaxTime \in Nat /\ RowBytes \in Nat \ {0} BY CapacityAssumption
<1>4. ChunkOf(t) \in 0..MaxTime BY <1>3, InChunk
<1>5. DOMAIN size' = DOMAIN size \cup {ChunkOf(t)} BY <1>2
<1>6. ASSUME NEW k \in DOMAIN size' PROVE size'[k] \in Nat \ {0}
  BY <1>2, <1>3, <1>5 DEF TypeInv, TableTypes
<1>7. size' \in [DOMAIN size' -> Nat \ {0}] BY <1>2, <1>5, <1>6
<1>8. \A u \in rows' : ChunkOf(u) \in DOMAIN size' BY <1>2, <1>5 DEF TypeInv, TableTypes
<1>9. TableTypes'
  BY <1>2, <1>4, <1>5, <1>7, <1>8, InsertMoves DEF TypeInv, TableTypes
<1>10. QED BY <1>1, <1>9, InsertMoves DEF TypeInv, SettingTypes, setVars

\* The plan keeps the types.
LEMMA ListTypes == ASSUME TypeInv, NEW c \in Caller, List(c) PROVE TypeInv'
<1>1. IsCall(call'[c])
  <2>1. CASE Kept(call[c], call'[c], {"pc", "faulted"}) /\ call'[c].pc = "oldest" /\ call'[c].faulted
    BY <2>1, ListMoves, KeptCall DEF Pc
  <2>2. CASE Kept(call[c], call'[c], {"pc"}) /\ call'[c].pc = "oldest"
    BY <2>2, ListMoves, KeptCall DEF Pc
  <2>3. CASE /\ Kept(call[c], call'[c], {"pc", "cut", "enough", "listed"})
             /\ call'[c].pc = "drop" /\ Plans(call[c], call'[c])
    <3>1. PlannedCut(call[c], call'[c]) BY <2>3, ListMoves, PlanKeeps
    <3>2. call'[c].cut \in Nat /\ call'[c].listed \in Listing
      BY <3>1, ChunkOrder DEF PlannedCut, TypeInv, TableTypes
    <3>3. call'[c].enough \in BOOLEAN BY <2>3 DEF Plans
    <3>4. QED BY <2>3, <3>2, <3>3, ListMoves, KeptCall DEF Pc
  <2>4. QED BY <2>1, <2>2, <2>3, ListMoves
<1>2. QED BY <1>1, ListMoves, AloneTypes DEF Local

\* A change of the policy keeps the types.
LEMMA SettingTypesKept ==
  ASSUME TypeInv, StorePercent \/ StorePolicy
  PROVE  TypeInv'
<1>1. call' = Crossed /\ UNCHANGED dbVars BY DEF StorePercent, StorePolicy
<1>2. CallTypes'
  <2>1. DOMAIN call' = Caller BY <1>1 DEF Crossed
  <2>2. ASSUME NEW c \in Caller, Busy(c)' PROVE IsCall(call'[c])
    <3>1. call'[c] = IF call[c].pc = "policy" THEN [call[c] EXCEPT !.crossed = TRUE] ELSE call[c]
      BY <1>1 DEF Crossed
    <3>2. CASE call[c].pc = "policy"
      <4>1. IsCall(call[c]) BY <3>2 DEF TypeInv, CallTypes, Busy
      <4>2. QED BY <3>1, <3>2, <4>1 DEF IsCall, Fields
    <3>3. CASE call[c].pc # "policy" BY <2>2, <3>1, <3>3 DEF TypeInv, CallTypes, Busy
    <3>4. QED BY <3>2, <3>3
  <2>3. QED BY <2>1, <2>2 DEF CallTypes
<1>3. SettingTypes'
  <2>1. CASE StorePercent
    <3>1. PICK s \in Settings : percent' = s.percent /\ storing' = s.policy /\ applied' = applied \cup {s}
      BY <2>1 DEF StorePercent
    <3>2. s \in [percent : 1..100, policy : Policy] BY CapacityAssumption
    <3>3. policy' = policy BY <2>1 DEF StorePercent
    <3>4. QED BY <3>1, <3>2, <3>3 DEF TypeInv, SettingTypes
  <2>2. CASE StorePolicy BY <2>2 DEF StorePolicy, TypeInv, SettingTypes
  <2>3. QED BY <2>1, <2>2
<1>4. QED BY <1>1, <1>2, <1>3 DEF TypeInv, TableTypes, dbVars

\* The settling of the size keeps the types.
LEMMA SettleTypes == ASSUME TypeInv, Settle PROVE TypeInv'
BY DEF Settle, TypeInv, TableTypes, SettingTypes, CallTypes, Busy, setVars

\* The types hold at first.
LEMMA InitTypes == ASSUME Init PROVE TypeInv
<1>1. rows \subseteq 0..MaxTime /\ MaxTime \in Nat /\ RowBytes \in Nat \ {0}
  BY CapacityAssumption DEF Init
<1>2. \A t \in rows : ChunkOf(t) \in 0..MaxTime
  <2>1. ASSUME NEW t \in rows PROVE ChunkOf(t) \in 0..MaxTime
    <3>1. t \in Nat /\ t <= MaxTime BY <1>1
    <3>2. ChunkOf(t) \in 0..t BY <3>1, InChunk
    <3>3. QED BY <1>1, <3>1, <3>2
  <2>2. QED BY <2>1
<1>3. DOMAIN size = {ChunkOf(t) : t \in rows} BY DEF Init
<1>4. ASSUME NEW k \in DOMAIN size PROVE size[k] \in Nat \ {0}
  <2> DEFINE held == {t \in rows : ChunkOf(t) = k}
  <2>1. held # {} BY <1>3
  <2>2. IsFiniteSet(held)
    <3>1. 0 \in Int /\ MaxTime \in Int BY <1>1
    <3>2. IsFiniteSet(0..MaxTime) BY <3>1, FS_Interval
    <3>3. held \subseteq 0..MaxTime BY <1>1
    <3>4. QED BY <3>2, <3>3, FS_Subset
  <2>3. Cardinality(held) \in Nat \ {0} BY <2>1, <2>2, FS_CardinalityType, FS_EmptySet
  <2>4. size[k] = RowBytes * Cardinality(held) BY DEF Init
  <2> HIDE DEF held
  <2>5. ASSUME NEW x \in Nat \ {0}, NEW y \in Nat \ {0} PROVE x * y \in Nat \ {0} OBVIOUS
  <2>6. QED BY <1>1, <2>3, <2>4, <2>5
<1>5. TableTypes
  <2>1. size \in [DOMAIN size -> Nat \ {0}] BY <1>4 DEF Init
  <2>2. QED BY <1>1, <1>2, <1>3, <2>1 DEF Init, TableTypes
<1>6. SettingTypes
  <2>1. PICK s \in Settings : percent = s.percent /\ policy = s.policy /\ applied = {s} BY DEF Init
  <2>2. s \in [percent : 1..100, policy : Policy] BY CapacityAssumption
  <2>3. QED BY <2>1, <2>2 DEF Init, SettingTypes
<1>7. CallTypes BY DEF Init, CallTypes, Busy, Idle
<1>8. QED BY <1>5, <1>6, <1>7 DEF TypeInv

\* Every step keeps the types.
LEMMA TypeStep == ASSUME TypeInv, [Next]_vars PROVE TypeInv'
<1>1. CASE \E c \in Caller : LoadPercent(c) \/ Step(c)
  <2>1. PICK c \in Caller : LoadPercent(c) \/ Step(c) BY <1>1
  <2>2. CASE LoadPercent(c) \/ LoadPolicy(c) BY <2>2, LoadTypes
  <2>3. CASE Gate(c) \/ Size(c) \/ List(c) BY <2>3, GateTypes, SizeTypes, ListTypes
  <2>4. CASE Drop(c) \/ DropOne(c) \/ Slice(c) BY <2>4, DropTypes
  <2>5. CASE Oldest(c) \/ Span(c) \/ Delete(c) BY <2>5, OldestTypes, SpanTypes, DeleteTypes
  <2>6. CASE Recheck(c) \/ Insert(c) \/ Return(c) BY <2>6, RecheckTypes, InsertTypes, ReturnTypes
  <2>7. QED BY <2>1, <2>2, <2>3, <2>4, <2>5, <2>6 DEF Step
<1>2. CASE StorePercent \/ StorePolicy \/ Settle BY <1>2, SettingTypesKept, SettleTypes
<1>3. CASE UNCHANGED vars
  BY <1>3 DEF vars, dbVars, setVars, TypeInv, TableTypes, SettingTypes, CallTypes, Busy
<1>4. QED BY <1>1, <1>2, <1>3 DEF Next

\* The types hold in every state.
LEMMA Types == Spec => []TypeInv
<1>1. Init => TypeInv BY InitTypes
<1>2. TypeInv /\ [Next]_vars => TypeInv' BY TypeStep
<1>3. QED BY <1>1, <1>2, PTL DEF Spec

-----------------------------------------------------------------------------
(* Every step advances its call.                                           *)

\* The stages of a pass, in their order.
LEMMA Stages ==
  /\ Stage("policy") = 1 /\ Stage("gate") = 2 /\ Stage("size") = 3 /\ Stage("list") = 4
  /\ Stage("drop") = 5 /\ Stage("oldest") = 6 /\ Stage("dropOne") = 7 /\ Stage("span") = 8
  /\ Stage("slice") = 9 /\ Stage("delete") = 10 /\ Stage("recheck") = 11
  /\ Stage("insert") = 12 /\ Stage("busy") = 13 /\ Stage("halt") = 14
<1> DEFINE order == <<"policy", "gate", "size", "list", "drop", "oldest", "dropOne", "span",
                      "slice", "delete", "recheck", "insert", "busy", "halt">>
<1>1. \A i \in 1..14 : \A j \in 1..14 : order[i] = order[j] => i = j OBVIOUS
<1>2. ASSUME NEW i \in 1..14 PROVE Stage(order[i]) = i
  BY <1>1 DEF Stage
<1>3. QED BY <1>2

\* What a step of c comes to.
Advance(c) == \/ At(c, "idle")'
              \/ call[c].n < call'[c].n
              \/ call[c].n = call'[c].n /\ Stage(call[c].pc) < Stage(call'[c].pc)

\* Every step of a call brings it on.
LEMMA StepAdvances ==
  ASSUME TypeInv, NEW c \in Caller, Step(c)
  PROVE  Advance(c)
<1> DEFINE r == call[c]
           s == call'[c]
<1>1. CASE LoadPolicy(c)
  BY <1>1, LoadPolicyMoves, Stages DEF Kept, Fields, Advance
<1>2. CASE Gate(c)
  BY <1>2, GateMoves, Stages DEF Kept, Fields, Advance
<1>3. CASE Size(c)
  BY <1>3, SizeMoves, Stages DEF Kept, Fields, Advance
<1>4. CASE List(c)
  BY <1>4, ListMoves, Stages DEF Kept, Fields, Advance
<1>5. CASE Drop(c) \/ DropOne(c) \/ Slice(c)
  <2>1. r.n \in Nat BY <1>5, DropMoves DEF IsCall
  <2>2. Passes(r, s) => r.n < s.n BY <2>1 DEF Passes
  <2>3. CASE Kept(r, s, {"pc", "faulted"}) /\ s.pc = FallsTo(r.pc)
    <3>1. s.n = r.n BY <2>3 DEF Kept, Fields
    <3>2. r.pc \in {"drop", "dropOne", "slice"} BY <1>5, DropMoves
    <3>3. /\ r.pc = "drop" => s.pc = "oldest"
          /\ r.pc = "dropOne" => s.pc = "span"
          /\ r.pc = "slice" => s.pc = "delete"
      BY <2>3 DEF FallsTo
    <3>4. Stage(r.pc) < Stage(s.pc) BY <3>2, <3>3, Stages
    <3>5. QED BY <3>1, <3>4 DEF Advance
  <2>4. CASE Passes(r, s) BY <2>2, <2>4 DEF Advance
  <2>5. CASE r.pc = "drop" /\ s.pc = "recheck" /\ s.n = r.n BY <2>5, Stages DEF Advance
  <2>6. QED BY <1>5, <2>3, <2>4, <2>5, DropMoves
<1>6. CASE Oldest(c)
  <2>1. r.pc = "oldest" /\ s.pc \in {"span", "dropOne"} BY <1>6, OldestMoves
  <2>2. s.n = r.n BY <1>6, OldestMoves DEF Kept, Fields
  <2>3. QED BY <2>1, <2>2, Stages DEF Advance
<1>7. CASE Span(c)
  BY <1>7, SpanMoves, Stages DEF Kept, Fields, Advance
<1>8. CASE Delete(c)
  <2>1. r.n \in Nat BY <1>8, DeleteMoves DEF IsCall
  <2>2. Passes(r, s) => r.n < s.n BY <2>1 DEF Passes
  <2>3. CASE Kept(r, s, {"pc", "err"}) /\ s.pc = "recheck"
    <3>1. s.n = r.n BY <2>3 DEF Kept, Fields
    <3>2. r.pc = "delete" BY <1>8, DeleteMoves
    <3>3. QED BY <2>3, <3>1, <3>2, Stages DEF Advance
  <2>4. CASE Passes(r, s) BY <2>2, <2>4 DEF Advance
  <2>5. QED BY <1>8, <2>3, <2>4, DeleteMoves
<1>9. CASE Recheck(c)
  BY <1>9, RecheckMoves, Stages DEF Kept, Fields, Advance
<1>10. CASE Insert(c) \/ Return(c)
  BY <1>10, InsertMoves, ReturnMoves DEF Idle, At, Advance
<1>11. QED
  BY <1>1, <1>2, <1>3, <1>4, <1>5, <1>6, <1>7, <1>8, <1>9, <1>10 DEF Step

\* Every step of a call ends it, gets on within its pass or begins the next pass,
\* for any number of callers and whatever fails.
THEOREM CallsAlwaysAdvance == Spec => CallsAdvance
<1>1. TypeInv /\ [Next]_vars =>
        [\A c \in Caller : Step(c) =>
           \/ At(c, "idle")'
           \/ call[c].n < call'[c].n
           \/ call[c].n = call'[c].n /\ Stage(call[c].pc) < Stage(call'[c].pc)]_vars
  BY StepAdvances DEF Advance
<1>2. QED BY <1>1, Types, PTL DEF Spec, CallsAdvance

-----------------------------------------------------------------------------
(* A trim works with what was configured.                                  *)

\* What the settings are, or will be once the policy is stored, was configured.
\* A call between its two loads has the percentage of the settings, unless it was
\* crossed; one that has both has a configured pair, unless it was crossed.
ConfiguredInv ==
  /\ [percent |-> percent, policy |-> IF storing = None THEN policy ELSE storing] \in applied
  /\ \A c \in Caller : Busy(c) =>
       \/ call[c].crossed
       \/ call[c].pc = "policy" /\ storing = None /\ call[c].percent = percent
       \/ /\ call[c].pc # "policy"
          /\ [percent |-> call[c].percent, policy |-> call[c].policy] \in applied

\* The steps after the loads change neither what was loaded nor the settings.
Carries(g) == Busy(g)' => /\ Busy(g)
                          /\ call'[g].percent = call[g].percent
                          /\ call'[g].policy = call[g].policy
                          /\ call'[g].crossed = call[g].crossed
                          /\ (call'[g].pc = "policy") <=> (call[g].pc = "policy")

\* A step that changes one call only carries every call, if it carries that one.
LEMMA AloneCarries ==
  ASSUME NEW c \in Caller, Alone(c), Carries(c)
  PROVE  \A g \in Caller : Carries(g)
BY DEF Alone, Carries, Busy

\* So does a step that marks the others as raced.
LEMMA DisturbCarries ==
  ASSUME TypeInv, NEW c \in Caller, Disturbs(c), Carries(c)
  PROVE  \A g \in Caller : Carries(g)
<1>1. ASSUME NEW g \in Caller \ {c}, Busy(g)' PROVE Carries(g)
  <2>1. Busy(g) BY <1>1 DEF Disturbs, Busy
  <2>2. IsCall(call[g]) BY <2>1 DEF TypeInv, CallTypes
  <2>3. call'[g] = [call[g] EXCEPT !.raced = TRUE] BY <2>1 DEF Disturbs
  <2>4. QED BY <2>1, <2>2, <2>3 DEF Carries, IsCall, Fields
<1>2. QED BY <1>1 DEF Carries

\* A step that keeps the fields of the settings.
LEMMA KeptCarries ==
  ASSUME NEW c \in Caller, Busy(c),
         NEW changed \in SUBSET (Fields \ {"percent", "policy", "crossed"}),
         Kept(call[c], call'[c], changed), call[c].pc # "policy", call'[c].pc # "policy"
  PROVE  Carries(c)
BY DEF Kept, Fields, Carries

\* After its loads no call changes the pair it works with.
LEMMA StepCarries ==
  ASSUME TypeInv, NEW c \in Caller, Step(c), ~ LoadPolicy(c)
  PROVE  UNCHANGED setVars /\ \A g \in Caller : Carries(g)
<1> DEFINE r == call[c]
           s == call'[c]
<1>1. CASE Gate(c)
  <2>1. Carries(c) BY <1>1, GateMoves, KeptCarries DEF Fields, Busy
  <2>2. QED BY <1>1, <2>1, GateMoves, AloneCarries DEF Local
<1>2. CASE Size(c)
  <2>1. Carries(c) BY <1>2, SizeMoves, KeptCarries DEF Fields, Busy
  <2>2. QED BY <1>2, <2>1, SizeMoves, AloneCarries DEF Local
<1>3. CASE List(c)
  <2>1. Carries(c) BY <1>3, ListMoves, KeptCarries DEF Fields, Busy
  <2>2. QED BY <1>3, <2>1, ListMoves, AloneCarries DEF Local
<1>4. CASE Drop(c) \/ DropOne(c) \/ Slice(c)
  <2>1. r.pc # "policy" /\ Busy(c) BY <1>4, DropMoves DEF Busy
  <2>2. s.pc # "policy"
    <3>1. \/ s.pc = FallsTo(r.pc) \/ s.pc = "recheck" \/ Passes(r, s) BY <1>4, DropMoves
    <3>2. QED BY <3>1 DEF Passes, FallsTo
  <2>3. Carries(c)
    <3>1. Kept(r, s, {"pc", "faulted"}) \/ Kept(r, s, {"pc", "n", "progress", "removed"})
      BY <1>4, DropMoves
    <3>2. QED
      BY <2>1, <2>2, <3>1, KeptCarries DEF Fields
  <2>4. (Alone(c) /\ Local) \/ (Disturbs(c) /\ UNCHANGED setVars)
    <3> DEFINE ks == Before(r.cut)
    <3>1. (Alone(c) /\ Local) \/ Loses(c, ks, {t \in rows : ChunkOf(t) \in ks}) BY <1>4, DropMoves
    <3>2. QED BY <3>1 DEF Loses
  <2>5. QED BY <2>3, <2>4, AloneCarries, DisturbCarries DEF Local
<1>5. CASE Oldest(c)
  <2>1. r.pc = "oldest" /\ s.pc \in {"span", "dropOne"} /\ Alone(c) /\ Local
    BY <1>5, OldestMoves
  <2>2. Kept(r, s, {"pc", "faulted"}) \/ Kept(r, s, {"pc"}) \/ Kept(r, s, {"pc", "cut"})
    BY <1>5, OldestMoves
  <2>3. Carries(c) BY <2>1, <2>2, KeptCarries DEF Fields, Busy
  <2>4. QED BY <2>1, <2>3, AloneCarries DEF Local
<1>6. CASE Span(c)
  <2>1. Carries(c) BY <1>6, SpanMoves, KeptCarries DEF Fields, Busy
  <2>2. QED BY <1>6, <2>1, SpanMoves, AloneCarries DEF Local
<1>7. CASE Delete(c)
  <2>1. r.pc # "policy" /\ Busy(c) BY <1>7, DeleteMoves DEF Busy
  <2>2. s.pc # "policy"
    <3>1. s.pc = "recheck" \/ Passes(r, s) BY <1>7, DeleteMoves
    <3>2. QED BY <3>1 DEF Passes
  <2>3. Carries(c)
    <3>1. Kept(r, s, {"pc", "err"}) \/ Kept(r, s, {"pc", "n", "progress", "removed"})
      BY <1>7, DeleteMoves
    <3>2. QED
      BY <2>1, <2>2, <3>1, KeptCarries DEF Fields
  <2>4. (Alone(c) /\ Local) \/ (Disturbs(c) /\ UNCHANGED setVars)
    <3>1. (Alone(c) /\ Local) \/ Loses(c, {}, {t \in rows : t <= r.cut}) BY <1>7, DeleteMoves
    <3>2. QED BY <3>1 DEF Loses
  <2>5. QED BY <2>3, <2>4, AloneCarries, DisturbCarries DEF Local
<1>8. CASE Recheck(c)
  <2>1. Carries(c) BY <1>8, RecheckMoves, KeptCarries DEF Fields, Busy
  <2>2. QED BY <1>8, <2>1, RecheckMoves, AloneCarries DEF Local
<1>9. CASE Insert(c)
  <2>1. Carries(c) BY <1>9, InsertMoves DEF Carries, Busy, Idle
  <2>2. QED BY <1>9, <2>1, InsertMoves, DisturbCarries
<1>10. CASE Return(c)
  <2>1. Carries(c) BY <1>10, ReturnMoves DEF Carries, Busy, Idle
  <2>2. QED BY <1>10, <2>1, ReturnMoves, AloneCarries DEF Local
<1>11. QED
  BY <1>1, <1>2, <1>3, <1>4, <1>5, <1>6, <1>7, <1>8, <1>9, <1>10 DEF Step

\* Every step keeps ConfiguredInv.
LEMMA ConfiguredStep ==
  ASSUME TypeInv, ConfiguredInv, [Next]_vars
  PROVE  ConfiguredInv'
<1>1. ASSUME NEW c \in Caller, Step(c), ~ LoadPolicy(c) PROVE ConfiguredInv'
  BY <1>1, StepCarries DEF ConfiguredInv, Carries, setVars
<1>2. ASSUME NEW c \in Caller, LoadPolicy(c) PROVE ConfiguredInv'
  <2>1. /\ call'[c].percent = call[c].percent /\ call'[c].crossed = call[c].crossed
        /\ call'[c].pc = "gate" /\ call'[c].policy = policy /\ call[c].pc = "policy"
    BY <1>2, LoadPolicyMoves DEF Kept, Fields
  <2>2. Alone(c) /\ UNCHANGED setVars /\ Busy(c) BY <1>2, <2>1, LoadPolicyMoves DEF Busy
  <2>3. ASSUME NEW g \in Caller \ {c} PROVE call'[g] = call[g] BY <2>2 DEF Alone
  <2>4. \/ call'[c].crossed
        \/ [percent |-> call'[c].percent, policy |-> call'[c].policy] \in applied
    BY <2>1, <2>2 DEF ConfiguredInv
  <2>5. QED BY <2>1, <2>2, <2>3, <2>4 DEF ConfiguredInv, Busy, setVars
<1>3. ASSUME NEW c \in Caller, LoadPercent(c) PROVE ConfiguredInv'
  <2>1. /\ call'[c].pc = "policy" /\ call'[c].percent = percent
        /\ call'[c].crossed = (storing # None)
        /\ Alone(c) /\ UNCHANGED setVars
    BY <1>3, LoadPercentMoves
  <2>2. ASSUME NEW g \in Caller \ {c} PROVE call'[g] = call[g] BY <2>1 DEF Alone
  <2>3. QED BY <2>1, <2>2 DEF ConfiguredInv, Busy, setVars
<1>4. CASE StorePercent \/ StorePolicy
  <2>1. ASSUME NEW c \in Caller, Busy(c)'
        PROVE  \/ call[c].pc = "policy" /\ call'[c].crossed
               \/ call[c].pc # "policy" /\ Busy(c) /\ call'[c] = call[c]
    <3>1. call' = Crossed BY <1>4 DEF StorePercent, StorePolicy
    <3>2. call'[c] = IF call[c].pc = "policy" THEN [call[c] EXCEPT !.crossed = TRUE] ELSE call[c]
      BY <3>1 DEF Crossed
    <3>3. CASE call[c].pc = "policy"
      <4>1. IsCall(call[c]) BY <3>3 DEF TypeInv, CallTypes, Busy
      <4>2. QED BY <3>2, <3>3, <4>1 DEF IsCall, Fields
    <3>4. QED BY <2>1, <3>2, <3>3 DEF Busy
  <2>2. applied \subseteq applied'
        /\ [percent |-> percent', policy |-> IF storing' = None THEN policy' ELSE storing'] \in applied'
    <3>1. CASE StorePercent
      <4>1. PICK s \in Settings : percent' = s.percent /\ storing' = s.policy /\ applied' = applied \cup {s}
        BY <3>1 DEF StorePercent
      <4>2. s \in [percent : 1..100, policy : Policy] /\ None \notin Policy
        BY CapacityAssumption
      <4>3. s = [percent |-> s.percent, policy |-> s.policy] /\ s.policy # None BY <4>2
      <4>4. QED BY <4>1, <4>3
    <3>2. CASE StorePolicy BY <3>2 DEF StorePolicy, ConfiguredInv
    <3>3. QED BY <1>4, <3>1, <3>2
  <2>3. QED BY <2>1, <2>2 DEF ConfiguredInv
<1>5. CASE Settle \/ UNCHANGED vars
  BY <1>5 DEF Settle, vars, setVars, ConfiguredInv, Busy
<1>6. QED BY <1>1, <1>2, <1>3, <1>4, <1>5 DEF Next

\* A trim works with a percentage and a policy that were configured together,
\* unless a store fell between its loads or its loads between two stores.
THEOREM TrimsConfigured == Spec => []TrimsAsConfigured
<1>1. Init => ConfiguredInv
  <2>1. SUFFICES ASSUME Init PROVE ConfiguredInv OBVIOUS
  <2>2. PICK s \in Settings : percent = s.percent /\ policy = s.policy /\ applied = {s} BY <2>1 DEF Init
  <2>3. s \in [percent : 1..100, policy : Policy] BY CapacityAssumption
  <2>4. s = [percent |-> s.percent, policy |-> s.policy] BY <2>3
  <2>5. QED BY <2>1, <2>2, <2>4 DEF Init, ConfiguredInv, Busy, Idle
<1>2. TypeInv /\ ConfiguredInv /\ [Next]_vars => ConfiguredInv' BY ConfiguredStep
<1>3. ConfiguredInv => TrimsAsConfigured BY DEF ConfiguredInv, TrimsAsConfigured
<1>4. QED BY <1>1, <1>2, <1>3, Types, PTL DEF Spec

-----------------------------------------------------------------------------
(* The latest sample is kept.                                              *)

\* What a call will drop ends at or before a row that is there; what it will
\* delete ends before one.
Spares(r, ts) ==
  /\ r.pc \in {"drop", "dropOne"} => \E t \in ts : r.cut <= t
  /\ r.pc \in {"slice", "delete"} => \E t \in ts : r.cut < t
  /\ r.cut <= MaxTime

\* And no chunk begins after all rows.
SparingInv == /\ \A k \in DOMAIN size : \E t \in rows : FirstTime(k) <= t
              /\ \A c \in Caller : Busy(c) => Spares(call[c], rows)

NewestKept == rows # {} => Max(rows) \in rows'

\* The newest row is one of the rows.
LEMMA NewestRow ==
  ASSUME TypeInv, rows # {}
  PROVE  /\ Max(rows) \in rows /\ Max(rows) \in Nat
         /\ \A t \in rows : t <= Max(rows)
<1>1. rows \in SUBSET (0..MaxTime) /\ MaxTime \in Nat
  BY CapacityAssumption DEF TypeInv, TableTypes
<1> DEFINE m == Max(rows)
<1>2. m \in rows /\ \A t \in rows : t <= m BY <1>1, MaxExists
<1> HIDE DEF m
<1>3. m \in Nat BY <1>1, <1>2
<1>4. QED BY <1>2, <1>3 DEF m

\* What a row exceeds, the newest row does, as long as it is there.
LEMMA NewestExceeds ==
  ASSUME TypeInv, NewestKept, NEW x \in Nat
  PROVE  /\ (\E t \in rows : x <= t) => \E t \in rows' : x <= t
         /\ (\E t \in rows : x < t) => \E t \in rows' : x < t
<1> DEFINE m == Max(rows)
<1>1. ASSUME NEW t \in rows PROVE t \in Nat /\ m \in rows' /\ m \in Nat /\ t <= m
  BY NewestRow DEF NewestKept, TypeInv, TableTypes
<1> HIDE DEF m
<1>2. ASSUME NEW t \in rows, x <= t PROVE \E u \in rows' : x <= u
  <2>1. x <= m BY <1>1, <1>2
  <2>2. QED BY <1>1, <2>1
<1>3. ASSUME NEW t \in rows, x < t PROVE \E u \in rows' : x < u
  <2>1. x < m BY <1>1, <1>3
  <2>2. QED BY <1>1, <2>1
<1>4. QED BY <1>2, <1>3

\* The chunk of the newest row does not end at or before another row.
LEMMA NewestUndropped ==
  ASSUME TypeInv, NEW cut \in Nat, \E t \in rows : cut <= t
  PROVE  rows # {} /\ ChunkOf(Max(rows)) \notin Before(cut)
<1> DEFINE m == Max(rows)
<1>1. PICK t \in rows : cut <= t OBVIOUS
<1>2. m \in Nat /\ m \in rows /\ t <= m /\ t \in Nat BY NewestRow DEF TypeInv, TableTypes
<1> HIDE DEF m
<1>3. m < FirstTime(ChunkOf(m) + 1) BY <1>2, InChunk
<1>4. ChunkOf(m) + 1 \in Nat BY <1>2, InChunk
<1>5. FirstTime(ChunkOf(m) + 1) \in Nat BY <1>4, ChunkOrder
<1>6. ~ (FirstTime(ChunkOf(m) + 1) <= cut) BY <1>1, <1>2, <1>3, <1>5
<1>7. QED BY <1>1, <1>6 DEF Before, m

\* No step takes the newest row.
LEMMA NewestStep ==
  ASSUME TypeInv, SparingInv, [Next]_vars
  PROVE  NewestKept
<1> SUFFICES ASSUME rows # {} PROVE Max(rows) \in rows' BY DEF NewestKept
<1>1. Max(rows) \in rows BY NewestRow
<1>2. ASSUME NEW c \in Caller, Drop(c) \/ DropOne(c) \/ Slice(c)
      PROVE  Max(rows) \in rows'
  <2>1. call[c].pc \in {"drop", "dropOne", "slice"} /\ IsCall(call[c]) BY <1>2, DropMoves
  <2>2. call[c].cut \in Nat /\ Spares(call[c], rows) BY <2>1 DEF IsCall, SparingInv, Busy
  <2>3. \E t \in rows : call[c].cut <= t
    <3>1. \A t \in rows : t \in Nat BY DEF TypeInv, TableTypes
    <3>2. QED BY <2>1, <2>2, <3>1 DEF Spares
  <2>4. ChunkOf(Max(rows)) \notin Before(call[c].cut) BY <2>2, <2>3, NewestUndropped
  <2> DEFINE ks == Before(call[c].cut)
  <2>5. (Alone(c) /\ Local) \/ Loses(c, ks, {t \in rows : ChunkOf(t) \in ks})
    BY <1>2, DropMoves
  <2>6. QED BY <1>1, <2>4, <2>5 DEF Loses, Local, dbVars
<1>3. ASSUME NEW c \in Caller, Delete(c) PROVE Max(rows) \in rows'
  <2>1. call[c].pc = "delete" /\ IsCall(call[c]) BY <1>3, DeleteMoves
  <2>2. call[c].cut \in Nat /\ Spares(call[c], rows) BY <2>1 DEF IsCall, SparingInv, Busy
  <2>3. PICK t \in rows : call[c].cut < t BY <2>1, <2>2 DEF Spares
  <2>4. t \in Nat /\ Max(rows) \in Nat /\ t <= Max(rows)
    BY NewestRow DEF TypeInv, TableTypes
  <2>5. ~ (Max(rows) <= call[c].cut) BY <2>2, <2>3, <2>4
  <2>6. (Alone(c) /\ Local) \/ Loses(c, {}, {u \in rows : u <= call[c].cut})
    BY <1>3, DeleteMoves
  <2>7. QED BY <1>1, <2>5, <2>6 DEF Loses, Local, dbVars
<1>4. ASSUME NEW c \in Caller, Insert(c) PROVE Max(rows) \in rows'
  BY <1>1, <1>4, InsertMoves
<1>5. ASSUME NEW c \in Caller,
             \/ LoadPercent(c) \/ LoadPolicy(c) \/ Gate(c) \/ Size(c) \/ List(c)
             \/ Oldest(c) \/ Span(c) \/ Recheck(c) \/ Return(c)
      PROVE  rows' = rows
  BY <1>5, LoadPercentMoves, LoadPolicyMoves, GateMoves, SizeMoves, ListMoves, OldestMoves,
     SpanMoves, RecheckMoves, ReturnMoves DEF Local, dbVars
<1>6. CASE StorePercent \/ StorePolicy \/ Settle \/ UNCHANGED vars
  BY <1>1, <1>6 DEF StorePercent, StorePolicy, Settle, vars, dbVars
<1>7. QED BY <1>1, <1>2, <1>3, <1>4, <1>5, <1>6 DEF Next, Step

\* A call that another one does not leave alone is only marked.
LEMMA OthersKept ==
  ASSUME TypeInv, NEW c \in Caller, Alone(c) \/ Disturbs(c),
         NEW g \in Caller \ {c}, Busy(g)'
  PROVE  /\ Busy(g) /\ IsCall(call[g]) /\ Kept(call[g], call'[g], {"raced"})
         /\ Disturbs(c) => call'[g].raced = TRUE
         /\ call'[g].raced = call[g].raced \/ call'[g].raced = TRUE
<1>1. call'[g] = call[g] \/ call'[g] = [call[g] EXCEPT !.raced = TRUE]
  BY DEF Alone, Disturbs
<1>2. Busy(g)
  <2>1. CASE Alone(c) BY <2>1 DEF Alone, Busy
  <2>2. CASE Disturbs(c) BY <2>2 DEF Disturbs, Busy
  <2>3. QED BY <2>1, <2>2
<1>3. IsCall(call[g]) BY <1>2 DEF TypeInv, CallTypes
<1>4. Kept(call[g], call'[g], {"raced"}) BY <1>1, <1>3 DEF Kept, IsCall, Fields
<1>5. Disturbs(c) => call'[g] = [call[g] EXCEPT !.raced = TRUE] BY <1>2 DEF Disturbs
<1>6. [call[g] EXCEPT !.raced = TRUE].raced = TRUE BY <1>3 DEF IsCall, Fields
<1>7. QED BY <1>1, <1>2, <1>3, <1>4, <1>5, <1>6

\* What a call spares it goes on to spare.
LEMMA SparesCarried ==
  ASSUME TypeInv, NewestKept, NEW r, NEW s, Spares(r, rows), r.cut \in Nat,
         s.cut = r.cut,
         s.pc \in {"drop", "dropOne"} => r.pc \in {"drop", "dropOne"},
         s.pc \in {"slice", "delete"} => r.pc \in {"slice", "delete"}
  PROVE  Spares(s, rows')
BY NewestExceeds DEF Spares

\* A call that is sparing after its step.
LEMMA OwnSpares ==
  ASSUME TypeInv, SparingInv, NewestKept, NEW c \in Caller,
         LoadPercent(c) \/ Step(c), Busy(c)'
  PROVE  Spares(call'[c], rows')
<1> DEFINE r == call[c]
           s == call'[c]
<1>0. Busy(c) => IsCall(r) /\ r.cut \in Nat /\ Spares(r, rows)
  BY DEF TypeInv, CallTypes, IsCall, SparingInv
<1>1. CASE LoadPercent(c)
  <2>1. s.pc = "policy" /\ s.cut = 0 BY <1>1, LoadPercentMoves
  <2>2. QED BY <2>1, CapacityAssumption DEF Spares
<1>2. CASE LoadPolicy(c) \/ Gate(c) \/ Size(c) \/ Recheck(c)
  <2>1. s.cut = r.cut /\ r.pc \in Pc /\ Busy(c)
    BY <1>2, LoadPolicyMoves, GateMoves, SizeMoves, RecheckMoves DEF Kept, Fields, Busy, Pc
  <2>2. s.pc \notin {"drop", "dropOne", "slice", "delete"}
    BY <1>2, LoadPolicyMoves, GateMoves, SizeMoves, RecheckMoves
  <2>3. QED BY <1>0, <2>1, <2>2, SparesCarried
<1>3. CASE List(c)
  <2>1. IsCall(r) /\ r.pc = "list" /\ rows' = rows /\ Busy(c) BY <1>3, ListMoves DEF Local, dbVars, Busy
  <2>2. CASE s.pc = "oldest" /\ s.cut = r.cut BY <1>0, <2>1, <2>2, SparesCarried
  <2>3. CASE s.pc = "drop" /\ Plans(r, s)
    <3>0. PlannedCut(r, s) BY <2>3, PlanKeeps
    <3> HIDE DEF r, s
    <3>1. PICK kept \in DOMAIN size : s.cut = FirstTime(kept) BY <3>0 DEF PlannedCut
    <3>2. PICK t \in rows : s.cut <= t BY <3>1 DEF SparingInv
    <3>3. t \in 0..MaxTime /\ MaxTime \in Nat /\ s.cut \in Nat
      BY <3>1, CapacityAssumption, ChunkOrder DEF TypeInv, TableTypes
    <3>4. s.cut <= MaxTime BY <3>2, <3>3
    <3>5. Spares(s, rows') BY <2>1, <2>3, <3>2, <3>4 DEF Spares
    <3>6. QED BY <3>5 DEF s
  <2>4. s.cut = r.cut \/ s.pc = "drop" BY <1>3, ListMoves DEF Kept, Fields
  <2>5. QED BY <1>3, <2>2, <2>3, <2>4, ListMoves
<1>4. CASE Drop(c) \/ DropOne(c) \/ Slice(c)
  <2>1. IsCall(r) /\ Busy(c) /\ r.pc \in {"drop", "dropOne", "slice"} BY <1>4, DropMoves DEF Busy
  <2>2. Kept(r, s, {"pc", "faulted"}) \/ Kept(r, s, {"pc", "n", "progress", "removed"})
    BY <1>4, DropMoves
  <2>3. s.cut = r.cut BY <2>2 DEF Kept, Fields
  <2>4. s.pc = FallsTo(r.pc) \/ s.pc = "recheck" \/ Passes(r, s) BY <1>4, DropMoves
  <2>5. s.pc \in {"oldest", "span", "recheck", "size"} \/ (s.pc = "delete" /\ r.pc = "slice")
    BY <2>1, <2>4 DEF FallsTo, Passes
  <2>6. QED BY <1>0, <2>1, <2>3, <2>5, SparesCarried
<1>5. CASE Oldest(c)
  <2> DEFINE later == {FirstTime(k) : k \in DOMAIN size \ {Min(DOMAIN size)}}
  <2>1. IsCall(r) /\ r.pc = "oldest" /\ rows' = rows /\ Busy(c) BY <1>5, OldestMoves DEF Local, dbVars, Busy
  <2>2. CASE s.pc = "span" /\ s.cut = r.cut BY <1>0, <2>1, <2>2, SparesCarried
  <2>3. CASE s.pc = "dropOne" /\ later # {} /\ s.cut = Min(later)
    <3>1. PICK k \in DOMAIN size : s.cut = FirstTime(k) BY <2>3, LaterType
    <3>2. PICK t \in rows : s.cut <= t BY <3>1 DEF SparingInv
    <3>3. t \in 0..MaxTime /\ MaxTime \in Nat /\ s.cut \in Nat
      BY <3>1, CapacityAssumption, ChunkOrder DEF TypeInv, TableTypes
    <3>4. s.cut <= MaxTime BY <3>2, <3>3
    <3>5. QED BY <2>1, <2>3, <3>2, <3>4 DEF Spares
  <2> HIDE DEF later
  <2>4. \/ s.pc = "span" /\ (Kept(r, s, {"pc", "faulted"}) \/ Kept(r, s, {"pc"}))
        \/ s.pc = "dropOne" /\ later # {} /\ s.cut = Min(later)
    BY <1>5, OldestMoves DEF later
  <2>5. s.pc = "span" => s.cut = r.cut BY <2>4 DEF Kept, Fields
  <2>6. QED BY <2>2, <2>3, <2>4, <2>5
<1>6. CASE Span(c)
  <2>1. IsCall(r) /\ r.pc = "span" /\ rows' = rows /\ Busy(c) BY <1>6, SpanMoves DEF Local, dbVars, Busy
  <2>2. CASE s.pc = "recheck" /\ s.cut = r.cut BY <1>0, <2>1, <2>2, SparesCarried
  <2>3. CASE s.pc = "slice" /\ Cardinality(rows) >= 2 /\ s.cut = Min(rows)
    <3>1. rows \in SUBSET (0..MaxTime) /\ rows \in SUBSET Nat /\ MaxTime \in Nat
      BY CapacityAssumption DEF TypeInv, TableTypes
    <3>2. rows # {} BY <2>3, FS_EmptySet
    <3>3. Min(rows) \in rows /\ \A t \in rows : Min(rows) <= t BY <3>1, <3>2, MinExists
    <3>4. PICK t \in rows : t # Min(rows)
      <4>1. Cardinality({Min(rows)}) = 1 BY FS_Singleton
      <4>2. rows # {Min(rows)} BY <2>3, <4>1
      <4>3. QED BY <3>3, <4>2
    <3>5. Min(rows) < t
      <4>1. Min(rows) \in Nat /\ t \in Nat /\ Min(rows) <= t BY <3>1, <3>3
      <4>2. QED BY <3>4, <4>1
    <3>6. Min(rows) <= MaxTime
      <4>1. Min(rows) \in 0..MaxTime BY <3>1, <3>3
      <4>2. QED BY <3>1, <4>1
    <3>7. s.cut <= MaxTime BY <2>3, <3>6
    <3>8. QED BY <2>1, <2>3, <3>5, <3>7 DEF Spares
  <2>4. s.pc = "recheck" => s.cut = r.cut BY <1>6, SpanMoves DEF Kept, Fields
  <2>5. QED BY <1>6, <2>2, <2>3, <2>4, SpanMoves
<1>7. CASE Delete(c)
  <2>1. IsCall(r) /\ Busy(c) BY <1>7, DeleteMoves DEF Busy
  <2>2. Kept(r, s, {"pc", "err"}) \/ Kept(r, s, {"pc", "n", "progress", "removed"})
    BY <1>7, DeleteMoves
  <2>3. s.cut = r.cut BY <2>2 DEF Kept, Fields
  <2>4. s.pc = "recheck" \/ Passes(r, s) BY <1>7, DeleteMoves
  <2>5. s.pc \in {"recheck", "size"} BY <2>4 DEF Passes
  <2>6. QED BY <1>0, <2>1, <2>3, <2>5, SparesCarried
<1>8. CASE Insert(c) \/ Return(c)
  BY <1>8, InsertMoves, ReturnMoves DEF Busy, Idle
<1>9. QED BY <1>1, <1>2, <1>3, <1>4, <1>5, <1>6, <1>7, <1>8 DEF Step

\* After every step each chunk has a row at or after its beginning.
LEMMA ChunksSpared ==
  ASSUME TypeInv, SparingInv, NewestKept, [Next]_vars
  PROVE  (\A k \in DOMAIN size : \E t \in rows : FirstTime(k) <= t)'
<1>1. ASSUME DOMAIN size' \subseteq DOMAIN size
      PROVE  (\A k \in DOMAIN size : \E t \in rows : FirstTime(k) <= t)'
  <2>1. \A k \in DOMAIN size : FirstTime(k) \in Nat BY ChunkOrder DEF TypeInv, TableTypes
  <2>2. QED BY <1>1, <2>1, NewestExceeds DEF SparingInv
<1>2. ASSUME NEW c \in Caller, Insert(c)
      PROVE  (\A k \in DOMAIN size : \E t \in rows : FirstTime(k) <= t)'
  <2>1. PICK u \in 0..MaxTime : rows' = rows \cup {u} /\ DOMAIN size' = DOMAIN size \cup {ChunkOf(u)}
    BY <1>2, InsertMoves
  <2>2. FirstTime(ChunkOf(u)) <= u BY InChunk
  <2>3. QED BY <2>1, <2>2 DEF SparingInv
<1>3. ASSUME NEW c \in Caller, Drop(c) \/ DropOne(c) \/ Slice(c) \/ Delete(c)
      PROVE  DOMAIN size' \subseteq DOMAIN size
  <2> DEFINE ks == Before(call[c].cut)
  <2>1. \/ UNCHANGED size
        \/ Loses(c, ks, {t \in rows : ChunkOf(t) \in ks})
        \/ Loses(c, {}, {t \in rows : t <= call[c].cut})
    BY <1>3, DropMoves, DeleteMoves DEF Local, dbVars
  <2> HIDE DEF ks
  <2>2. QED BY <2>1 DEF Loses
<1>4. ASSUME NEW c \in Caller,
             \/ LoadPercent(c) \/ LoadPolicy(c) \/ Gate(c) \/ Size(c) \/ List(c)
             \/ Oldest(c) \/ Span(c) \/ Recheck(c) \/ Return(c)
      PROVE  size' = size
  BY <1>4, LoadPercentMoves, LoadPolicyMoves, GateMoves, SizeMoves, ListMoves, OldestMoves,
     SpanMoves, RecheckMoves, ReturnMoves DEF Local, dbVars
<1>5. CASE StorePercent \/ StorePolicy \/ Settle \/ UNCHANGED vars
  <2>1. size' = size BY <1>5 DEF StorePercent, StorePolicy, Settle, vars, dbVars
  <2>2. QED BY <1>1, <2>1
<1>6. QED BY <1>1, <1>2, <1>3, <1>4, <1>5 DEF Next, Step

\* Which of the calls a step of c leaves alone.
LEMMA StepOthers ==
  ASSUME TypeInv, NEW c \in Caller, LoadPercent(c) \/ Step(c)
  PROVE  Alone(c) \/ Disturbs(c)
<1>1. CASE \/ LoadPercent(c) \/ LoadPolicy(c) \/ Gate(c) \/ Size(c) \/ List(c)
           \/ Oldest(c) \/ Span(c) \/ Recheck(c) \/ Return(c)
  BY <1>1, LoadPercentMoves, LoadPolicyMoves, GateMoves, SizeMoves, ListMoves, OldestMoves,
     SpanMoves, RecheckMoves, ReturnMoves
<1>2. CASE Drop(c) \/ DropOne(c) \/ Slice(c) BY <1>2, DropMoves DEF Loses
<1>3. CASE Delete(c) \/ Insert(c) BY <1>3, DeleteMoves, InsertMoves DEF Loses
<1>4. QED BY <1>1, <1>2, <1>3 DEF Step

\* A change of the settings only crosses the calls.
LEMMA CrossedKept ==
  ASSUME TypeInv, StorePercent \/ StorePolicy, NEW g \in Caller, Busy(g)'
  PROVE  Busy(g) /\ IsCall(call[g]) /\ Kept(call[g], call'[g], {"crossed"})
<1>1. call' = Crossed BY DEF StorePercent, StorePolicy
<1>2. call'[g] = IF call[g].pc = "policy" THEN [call[g] EXCEPT !.crossed = TRUE] ELSE call[g]
  BY <1>1 DEF Crossed
<1>3. Busy(g) BY <1>2 DEF Busy
<1>4. IsCall(call[g]) BY <1>3 DEF TypeInv, CallTypes
<1>5. QED BY <1>2, <1>3, <1>4 DEF Kept, IsCall, Fields

\* Every step keeps SparingInv.
LEMMA SparingStep ==
  ASSUME TypeInv, SparingInv, [Next]_vars
  PROVE  SparingInv'
<1>1. NewestKept BY NewestStep
<1>2. ASSUME NEW g \in Caller, Busy(g), IsCall(call[g]),
             Kept(call[g], call'[g], {"raced"}) \/ Kept(call[g], call'[g], {"crossed"})
      PROVE  Spares(call'[g], rows')
  <2>1. call'[g].pc = call[g].pc /\ call'[g].cut = call[g].cut BY <1>2 DEF Kept, Fields
  <2>2. call[g].cut \in Nat /\ Spares(call[g], rows) BY <1>2 DEF IsCall, SparingInv
  <2>3. QED BY <1>1, <2>1, <2>2, SparesCarried
<1>3. ASSUME NEW g \in Caller, Busy(g)' PROVE Spares(call'[g], rows')
  <2>1. ASSUME NEW c \in Caller, LoadPercent(c) \/ Step(c) PROVE Spares(call'[g], rows')
    <3>1. CASE g = c BY <1>1, <1>3, <2>1, <3>1, OwnSpares
    <3>2. CASE g # c BY <1>2, <1>3, <2>1, <3>2, StepOthers, OthersKept
    <3>3. QED BY <3>1, <3>2
  <2>2. CASE StorePercent \/ StorePolicy BY <1>2, <1>3, <2>2, CrossedKept
  <2>3. CASE Settle \/ UNCHANGED vars
    BY <1>3, <2>3 DEF Settle, vars, dbVars, SparingInv, Busy
  <2>4. QED BY <2>1, <2>2, <2>3 DEF Next
<1>4. QED BY <1>1, <1>3, ChunksSpared DEF SparingInv

\* SparingInv holds at first.
LEMMA InitSparing == ASSUME Init PROVE SparingInv
<1>1. DOMAIN size = {ChunkOf(t) : t \in rows} /\ rows \subseteq 0..MaxTime
  BY CapacityAssumption DEF Init
<1>2. ASSUME NEW t \in rows PROVE FirstTime(ChunkOf(t)) <= t
  <2>1. t \in Nat BY <1>1
  <2>2. QED BY <2>1, InChunk
<1>3. \A c \in Caller : ~ Busy(c) BY DEF Init, Busy, Idle
<1>4. QED BY <1>1, <1>2, <1>3 DEF SparingInv

\* No chunk begins after all rows, and no call will drop the newest one.
LEMMA Sparing == Spec => []SparingInv
<1>1. Init => SparingInv BY InitSparing
<1>2. TypeInv /\ SparingInv /\ [Next]_vars => SparingInv' BY SparingStep
<1>3. QED BY <1>1, <1>2, Types, PTL DEF Spec

\* The latest sample survives every trim of every caller, whatever the others have
\* dropped or stored since it was planned.
THEOREM LatestAlwaysKept == Spec => LatestSampleKept
<1>1. TypeInv /\ SparingInv /\ [Next]_vars => [rows # {} => Max(rows) \in rows']_rows
  BY NewestStep DEF NewestKept
<1>2. QED BY <1>1, Types, Sparing, PTL DEF Spec, LatestSampleKept

-----------------------------------------------------------------------------
(* Passes are bounded.                                                     *)

\* A call in the middle of a pass has not used up its passes.
Trimming == {"size", "list", "drop", "oldest", "dropOne", "span", "slice", "delete"}
Within(r) == /\ r.n <= MaxPasses + MaxRounds + 1
             /\ r.pc \in {"policy", "gate"} => r.n = 1
             /\ r.pc \in Trimming => r.n <= MaxPasses + MaxRounds

RoundsInv == \A c \in Caller : Busy(c) => Within(call[c])

\* A call within its passes stays so while it goes on in a pass, and ends with it.
LEMMA WithinCarried ==
  ASSUME NEW r, NEW s, Within(r), r.n \in Nat \ {0}, s.n = r.n,
         s.pc \in {"policy", "gate"} => r.pc \in {"policy", "gate"},
         s.pc \in Trimming => r.pc \in Trimming \cup {"gate"}
  PROVE  Within(s)
<1>1. MaxPasses \in Nat \ {0} /\ MaxRounds \in Nat \ {0} BY CapacityAssumption
<1>2. r.pc \in Trimming \cup {"gate"} => r.n <= MaxPasses + MaxRounds BY <1>1 DEF Within
<1>3. QED BY <1>2 DEF Within

\* And when it begins the next one.
LEMMA WithinNext ==
  ASSUME NEW r, NEW s, Within(r), r.n \in Nat \ {0}, r.pc \in Trimming, Passes(r, s)
  PROVE  Within(s)
<1>1. MaxPasses \in Nat \ {0} /\ MaxRounds \in Nat \ {0} BY CapacityAssumption
<1>2. r.n <= MaxPasses + MaxRounds BY DEF Within
<1>3. CASE r.n = MaxPasses + MaxRounds
  <2>1. s.pc = "recheck" /\ s.n = r.n + 1 BY <1>3 DEF Passes
  <2>2. QED BY <1>1, <1>3, <2>1 DEF Within, Trimming
<1>4. CASE r.n # MaxPasses + MaxRounds
  <2>1. s.pc = "size" /\ s.n = r.n + 1 BY <1>4 DEF Passes
  <2>2. s.n <= MaxPasses + MaxRounds BY <1>1, <1>2, <1>4, <2>1
  <2>3. QED BY <1>1, <2>1, <2>2 DEF Within, Trimming
<1>5. QED BY <1>3, <1>4

\* A call is within its passes after its own step.
LEMMA OwnWithin ==
  ASSUME TypeInv, RoundsInv, NEW c \in Caller, LoadPercent(c) \/ Step(c), Busy(c)'
  PROVE  Within(call'[c])
<1> DEFINE r == call[c]
           s == call'[c]
<1>0. Busy(c) => r.n \in Nat \ {0} /\ Within(r)
  BY DEF TypeInv, CallTypes, IsCall, RoundsInv
<1>1. CASE LoadPercent(c)
  <2>1. s.pc = "policy" /\ s.n = 1 BY <1>1, LoadPercentMoves
  <2>2. QED BY <2>1, CapacityAssumption DEF Within, Trimming
<1>2. CASE LoadPolicy(c)
  <2>1. s.n = r.n /\ s.pc = "gate" /\ r.pc = "policy" BY <1>2, LoadPolicyMoves DEF Kept, Fields
  <2>2. QED BY <1>0, <2>1, WithinCarried DEF Busy, Trimming
<1>3. CASE Gate(c)
  <2>1. s.n = r.n /\ r.pc = "gate" BY <1>3, GateMoves DEF Kept, Fields
  <2>2. s.pc \in {"insert", "size", "halt"} BY <1>3, GateMoves
  <2>3. QED BY <1>0, <2>1, <2>2, WithinCarried DEF Busy
<1>4. CASE Size(c)
  <2>1. s.n = r.n /\ r.pc = "size" BY <1>4, SizeMoves DEF Kept, Fields
  <2>2. s.pc \in {"recheck", "list", "oldest"} BY <1>4, SizeMoves
  <2>3. QED BY <1>0, <2>1, <2>2, WithinCarried DEF Busy, Trimming
<1>5. CASE List(c)
  <2>1. s.n = r.n /\ r.pc = "list" BY <1>5, ListMoves DEF Kept, Fields
  <2>2. s.pc \in {"oldest", "drop"} BY <1>5, ListMoves
  <2>3. QED BY <1>0, <2>1, <2>2, WithinCarried DEF Busy, Trimming
<1>6. CASE Oldest(c)
  <2>1. s.n = r.n /\ r.pc = "oldest" BY <1>6, OldestMoves DEF Kept, Fields
  <2>2. s.pc \in {"span", "dropOne"} BY <1>6, OldestMoves
  <2>3. QED BY <1>0, <2>1, <2>2, WithinCarried DEF Busy, Trimming
<1>7. CASE Span(c)
  <2>1. s.n = r.n /\ r.pc = "span" BY <1>7, SpanMoves DEF Kept, Fields
  <2>2. s.pc \in {"recheck", "slice"} BY <1>7, SpanMoves
  <2>3. QED BY <1>0, <2>1, <2>2, WithinCarried DEF Busy, Trimming
<1>8. CASE Drop(c) \/ DropOne(c) \/ Slice(c)
  <2>1. Busy(c) /\ r.pc \in {"drop", "dropOne", "slice"} BY <1>8, DropMoves DEF Busy
  <2>2. \/ Kept(r, s, {"pc", "faulted"}) /\ s.pc = FallsTo(r.pc)
        \/ s.pc = "recheck" /\ s.n = r.n
        \/ Passes(r, s)
    BY <1>8, DropMoves
  <2>3. \/ s.n = r.n /\ s.pc \in {"oldest", "span", "delete", "recheck"}
        \/ Passes(r, s)
    BY <2>1, <2>2 DEF Kept, Fields, FallsTo
  <2>4. QED BY <1>0, <2>1, <2>3, WithinCarried, WithinNext DEF Trimming
<1>9. CASE Delete(c)
  <2>1. Busy(c) /\ r.pc = "delete" BY <1>9, DeleteMoves DEF Busy
  <2>2. (Kept(r, s, {"pc", "err"}) /\ s.pc = "recheck") \/ Passes(r, s) BY <1>9, DeleteMoves
  <2>3. (s.n = r.n /\ s.pc = "recheck") \/ Passes(r, s) BY <2>2 DEF Kept, Fields
  <2>4. QED BY <1>0, <2>1, <2>3, WithinCarried, WithinNext DEF Trimming
<1>10. CASE Recheck(c)
  <2>1. s.n = r.n /\ r.pc = "recheck" BY <1>10, RecheckMoves DEF Kept, Fields
  <2>2. s.pc \in {"insert", "busy", "halt"} BY <1>10, RecheckMoves
  <2>3. QED BY <1>0, <2>1, <2>2, WithinCarried DEF Busy, Trimming
<1>11. CASE Insert(c) \/ Return(c)
  BY <1>11, InsertMoves, ReturnMoves DEF Busy, Idle
<1>12. QED
  BY <1>1, <1>2, <1>3, <1>4, <1>5, <1>6, <1>7, <1>8, <1>9, <1>10, <1>11 DEF Step

\* The step of one call, and the settings, leave the others where they are.
LEMMA RoundsStep ==
  ASSUME TypeInv, RoundsInv, [Next]_vars
  PROVE  RoundsInv'
<1>1. ASSUME NEW g \in Caller, Busy(g),
             Kept(call[g], call'[g], {"raced"}) \/ Kept(call[g], call'[g], {"crossed"})
      PROVE  Within(call'[g])
  <2>1. call'[g].pc = call[g].pc /\ call'[g].n = call[g].n BY <1>1 DEF Kept, Fields
  <2>2. QED BY <1>1, <2>1 DEF RoundsInv, Within
<1>2. ASSUME NEW g \in Caller, Busy(g)' PROVE Within(call'[g])
  <2>1. ASSUME NEW c \in Caller, LoadPercent(c) \/ Step(c) PROVE Within(call'[g])
    <3>1. CASE g = c BY <1>2, <2>1, <3>1, OwnWithin
    <3>2. CASE g # c BY <1>1, <1>2, <2>1, <3>2, StepOthers, OthersKept
    <3>3. QED BY <3>1, <3>2
  <2>2. CASE StorePercent \/ StorePolicy BY <1>1, <1>2, <2>2, CrossedKept
  <2>3. CASE Settle \/ UNCHANGED vars
    BY <1>2, <2>3 DEF Settle, vars, RoundsInv, Busy
  <2>4. QED BY <2>1, <2>2, <2>3 DEF Next
<1>3. QED BY <1>2 DEF RoundsInv

\* Every variable has its type, each row lies in a chunk, a call makes no more passes
\* than its limits allow and cuts within the times of the table.
THEOREM TypesHold == Spec => []TypeOK
<1>1. Init => RoundsInv BY DEF Init, RoundsInv, Busy, Idle
<1>2. TypeInv /\ RoundsInv /\ [Next]_vars => RoundsInv' BY RoundsStep
<1>3. TypeInv /\ RoundsInv /\ SparingInv => TypeOK
  <2>1. SUFFICES ASSUME TypeInv, RoundsInv, SparingInv PROVE TypeOK OBVIOUS
  <2>2. /\ rows \subseteq 0..MaxTime /\ \A t \in rows : ChunkOf(t) \in DOMAIN size
        /\ \A k \in DOMAIN size : size[k] \in Nat \ {0}
        /\ lag \in Nat
    BY <2>1 DEF TypeInv, TableTypes
  <2>3. ASSUME NEW c \in Caller, Busy(c)
        PROVE  /\ call[c].n \in 1..(MaxPasses + MaxRounds + 1)
               /\ call[c].cut \in 0..(MaxTime + Width)
    <3>1. IsCall(call[c]) /\ Within(call[c]) /\ Spares(call[c], rows)
      BY <2>1, <2>3 DEF TypeInv, CallTypes, RoundsInv, SparingInv
    <3>2. call[c].n \in Nat \ {0} /\ call[c].cut \in Nat BY <3>1 DEF IsCall
    <3>3. call[c].n <= MaxPasses + MaxRounds + 1 /\ call[c].cut <= MaxTime
      BY <3>1 DEF Within, Spares
    <3>4. QED BY <3>2, <3>3, CapacityAssumption
  <2>4. QED BY <2>2, <2>3 DEF TypeOK
<1>4. QED BY <1>1, <1>2, <1>3, Types, Sparing, PTL DEF Spec

-----------------------------------------------------------------------------
(* What a call ends with.                                                  *)

\* How a call ends fits the size it has read last; and what it has removed is
\* credited to it as progress.
Fits(r) ==
  /\ r.pc \notin {"insert", "halt", "busy"} => ~ r.blind
  /\ r.pc = "insert" /\ ~ r.blind => r.seen < LimitOf(r.percent)
  /\ r.pc \in {"halt", "busy"} /\ r.blind => r.first >= LimitOf(r.percent)
  /\ r.pc \in {"halt", "busy"} /\ ~ r.blind => r.seen >= LimitOf(r.percent)
  /\ r.removed => r.progress
  /\ r.pc \in {"policy", "gate", "halt"} => ~ r.removed

\* As long as nothing has hindered it, nor has it removed anything, a call in a table
\* of several chunks has some to drop, and it ends its trim below the limit.
Hindered(r) == r.removed \/ r.raced \/ r.faulted
Several == Cardinality(DOMAIN size) > 1
Effective(c) ==
  ~ Hindered(call[c]) /\ Several =>
    /\ call[c].pc \notin {"span", "slice", "delete", "busy"}
    /\ call[c].pc = "halt" => call[c].policy # "drop_oldest"
    /\ call[c].pc \in {"drop", "dropOne"} => Before(call[c].cut) # {}
    /\ call[c].pc = "recheck" => Used < LimitOf(call[c].percent)

\* What makes it give up: a query that failed, or a last row.
Spent(c) ==
  /\ call[c].pc = "delete" => call[c].faulted
  /\ ~ Hindered(call[c]) =>
       /\ call[c].err => Cardinality(rows) < 2
       /\ call[c].pc = "halt" /\ call[c].policy = "drop_oldest" => Cardinality(rows) < 2

FitInv == \A c \in Caller : Busy(c) => Fits(call[c]) /\ Effective(c) /\ Spent(c)

\* A call that goes on with its trim.
LEMMA FitsOn ==
  ASSUME NEW r, NEW s, Fits(r), r.pc \notin {"insert", "halt", "busy"},
         s.pc \notin {"policy", "gate", "insert", "halt", "busy"},
         s.blind = r.blind, s.removed => s.progress
  PROVE  Fits(s)
BY DEF Fits

\* A step of a call leaves it with a verdict that fits what it has read.
LEMMA OwnFits ==
  ASSUME TypeInv, FitInv, NEW c \in Caller, LoadPercent(c) \/ Step(c), Busy(c)'
  PROVE  Fits(call'[c])
<1> DEFINE r == call[c]
           s == call'[c]
<1>0. Busy(c) => Fits(r) BY DEF FitInv
<1>1. CASE LoadPercent(c)
  <2>1. s.pc = "policy" /\ ~ s.blind /\ ~ s.removed BY <1>1, LoadPercentMoves
  <2>2. QED BY <2>1 DEF Fits
<1>2. CASE LoadPolicy(c)
  <2>1. /\ s.blind = r.blind /\ s.removed = r.removed /\ s.progress = r.progress
        /\ s.pc = "gate" /\ r.pc = "policy"
    BY <1>2, LoadPolicyMoves DEF Kept, Fields
  <2>2. QED BY <1>0, <2>1 DEF Busy, Fits
<1>3. CASE Gate(c)
  <2> DEFINE limit == LimitOf(r.percent)
  <2>1. r.pc = "gate" /\ Fits(r) BY <1>0, <1>3, GateMoves DEF Busy
  <2>2. s.percent = r.percent /\ s.removed = r.removed /\ s.progress = r.progress
    BY <1>3, GateMoves DEF Kept, Fields
  <2>3. \/ s.pc = "insert" /\ s.blind
        \/ /\ s.blind = r.blind /\ s.seen = Used
           /\ \/ s.pc = "insert" /\ Used < limit
              \/ s.pc = "size"
              \/ s.pc = "halt" /\ Used >= limit
    BY <1>3, GateMoves DEF Kept, Fields
  <2>4. QED BY <2>1, <2>2, <2>3 DEF Fits
<1>4. CASE Size(c) \/ List(c) \/ Oldest(c) \/ Span(c)
  <2>1. r.pc \in {"size", "list", "oldest", "span"}
    BY <1>4, SizeMoves, ListMoves, OldestMoves, SpanMoves
  <2>2. s.pc \in {"recheck", "list", "oldest", "drop", "span", "dropOne", "slice"}
    BY <1>4, SizeMoves, ListMoves, OldestMoves, SpanMoves
  <2>3. s.blind = r.blind /\ s.removed = r.removed /\ s.progress = r.progress
    <3>1. CASE Size(c) BY <3>1, SizeMoves DEF Kept, Fields
    <3>2. CASE List(c) BY <3>2, ListMoves DEF Kept, Fields
    <3>3. CASE Oldest(c)
      <4>1. \/ Kept(r, s, {"pc", "faulted"}) \/ Kept(r, s, {"pc"}) \/ Kept(r, s, {"pc", "cut"})
        BY <3>3, OldestMoves
      <4>2. QED BY <4>1 DEF Kept, Fields
    <3>4. CASE Span(c) BY <3>4, SpanMoves DEF Kept, Fields
    <3>5. QED BY <1>4, <3>1, <3>2, <3>3, <3>4
  <2>4. Fits(r) BY <1>0, <2>1 DEF Busy
  <2>5. s.removed => s.progress BY <2>3, <2>4 DEF Fits
  <2>6. QED BY <2>1, <2>2, <2>3, <2>4, <2>5, FitsOn
<1>5. CASE Drop(c) \/ DropOne(c) \/ Slice(c) \/ Delete(c)
  <2>1. r.pc \in {"drop", "dropOne", "slice", "delete"} BY <1>5, DropMoves, DeleteMoves
  <2>2. Fits(r) BY <1>0, <2>1 DEF Busy
  <2>3. s.pc = FallsTo(r.pc) \/ s.pc = "recheck" \/ Passes(r, s)
    BY <1>5, DropMoves, DeleteMoves
  <2>4. s.pc \in {"oldest", "span", "delete", "recheck", "size"}
    BY <2>1, <2>3 DEF FallsTo, Passes
  <2>5. /\ s.blind = r.blind
        /\ (s.removed = r.removed /\ s.progress = r.progress) \/ s.progress
    <3>1. CASE Delete(c)
      <4>1. Kept(r, s, {"pc", "err"}) \/ (Kept(r, s, {"pc", "n", "progress", "removed"}) /\ s.progress)
        BY <3>1, DeleteMoves DEF Passes
      <4>2. QED BY <4>1 DEF Kept, Fields
    <3>2. CASE Drop(c) \/ DropOne(c) \/ Slice(c)
      <4>1. Kept(r, s, {"pc", "faulted"}) \/ (Kept(r, s, {"pc", "n", "progress", "removed"}) /\ s.progress)
        BY <3>2, DropMoves
      <4>2. QED BY <4>1 DEF Kept, Fields
    <3>3. QED BY <1>5, <3>1, <3>2
  <2>6. s.removed => s.progress BY <2>2, <2>5 DEF Fits
  <2>7. QED BY <2>1, <2>2, <2>4, <2>5, <2>6, FitsOn
<1>6. CASE Recheck(c)
  <2> DEFINE limit == LimitOf(r.percent)
  <2>1. r.pc = "recheck" /\ Fits(r) BY <1>0, <1>6, RecheckMoves DEF Busy
  <2>2. /\ s.percent = r.percent /\ s.removed = r.removed /\ s.progress = r.progress
        /\ s.first = r.first
    BY <1>6, RecheckMoves DEF Kept, Fields
  <2>3. \/ /\ s.blind
           /\ \/ s.pc = "insert"
              \/ s.pc = "busy" /\ r.first >= limit
              \/ s.pc = "halt" /\ r.first >= limit /\ ~ r.progress
        \/ /\ s.blind = r.blind /\ s.seen = Used
           /\ \/ s.pc = "insert" /\ Used < limit
              \/ s.pc = "halt" /\ Used >= limit /\ ~ r.progress
              \/ s.pc = "busy" /\ Used >= limit
    BY <1>6, RecheckMoves DEF Kept, Fields
  <2>4. QED BY <2>1, <2>2, <2>3 DEF Fits
<1>7. CASE Insert(c) \/ Return(c)
  BY <1>7, InsertMoves, ReturnMoves DEF Busy, Idle
<1>8. QED BY <1>1, <1>2, <1>3, <1>4, <1>5, <1>6, <1>7 DEF Step

\* Where a chunk begins, an older one has ended.
LEMMA OlderEnds ==
  ASSUME TypeInv, NEW j \in DOMAIN size, NEW k \in DOMAIN size, j < k
  PROVE  Before(FirstTime(k)) # {}
<1>1. j \in Nat /\ k \in Nat BY DEF TypeInv, TableTypes
<1>2. FirstTime(j + 1) <= FirstTime(k) BY <1>1, ChunkOrder
<1>3. j \in Before(FirstTime(k)) BY <1>2 DEF Before
<1>4. QED BY <1>3

\* Chunks that go do not make several of one.
LEMMA SeveralBefore ==
  ASSUME TypeInv, DOMAIN size' \subseteq DOMAIN size, Several'
  PROVE  Several
<1>1. IsFiniteSet(DOMAIN size) BY UsedType DEF TypeInv
<1>2. IsFiniteSet(DOMAIN size') /\ Cardinality(DOMAIN size') <= Cardinality(DOMAIN size)
  BY <1>1, FS_Subset
<1>3. Cardinality(DOMAIN size') \in Nat /\ Cardinality(DOMAIN size) \in Nat
  BY <1>1, <1>2, FS_CardinalityType
<1>4. QED BY <1>2, <1>3 DEF Several

\* Before the oldest of several chunks but the first there is the first.
LEMMA LaterEnds ==
  ASSUME TypeInv, NEW cut
  PROVE  LET later == {FirstTime(k) : k \in DOMAIN size \ {Min(DOMAIN size)}} IN
         /\ later = {} => ~ Several
         /\ later # {} /\ cut = Min(later) => Before(cut) # {}
<1> DEFINE later == {FirstTime(k) : k \in DOMAIN size \ {Min(DOMAIN size)}}
           first == Min(DOMAIN size)
<1>1. DOMAIN size \in SUBSET Nat BY CapacityAssumption DEF TypeInv, TableTypes
<1>2. later \in SUBSET Nat BY <1>1, ChunkOrder
<1>3. ASSUME later = {} PROVE ~ Several
  <2>1. DOMAIN size \subseteq {first} BY <1>3
  <2> HIDE DEF first
  <2>2. Cardinality({first}) = 1 /\ IsFiniteSet({first}) BY FS_Singleton
  <2>3. IsFiniteSet(DOMAIN size) /\ Cardinality(DOMAIN size) <= 1 BY <2>1, <2>2, FS_Subset
  <2>4. Cardinality(DOMAIN size) \in Nat BY <2>3, FS_CardinalityType
  <2>5. QED BY <2>3, <2>4 DEF Several
<1>4. ASSUME later # {}, cut = Min(later) PROVE Before(cut) # {}
  <2>1. cut \in later BY <1>2, <1>4, MinExists
  <2>2. PICK k \in DOMAIN size \ {first} : cut = FirstTime(k) BY <2>1
  <2>3. first \in DOMAIN size /\ \A y \in DOMAIN size : first <= y BY <1>1, <2>2, MinExists
  <2> HIDE DEF first, later
  <2>4. first < k
    <3>1. first \in Nat /\ k \in Nat /\ first <= k /\ first # k BY <1>1, <2>2, <2>3
    <3>2. QED BY <3>1
  <2>5. QED BY <2>2, <2>3, <2>4, OlderEnds
<1>5. QED BY <1>3, <1>4

\* A table that stays as it is.
LEMMA SameTable ==
  ASSUME UNCHANGED dbVars
  PROVE  (Several' <=> Several) /\ Used' = Used
BY DEF dbVars, Several, Used

\* Its own step leaves a call effective, as long as nothing has hindered it.
LEMMA OwnEffective ==
  ASSUME TypeInv, FitInv, NEW c \in Caller, LoadPercent(c) \/ Step(c), Busy(c)'
  PROVE  Effective(c)'
<1> DEFINE r == call[c]
           s == call'[c]
           limit == LimitOf(r.percent)
<1> SUFFICES ASSUME ~ Hindered(s), Several'
             PROVE  /\ s.pc \notin {"span", "slice", "delete", "busy"}
                    /\ s.pc = "halt" => s.policy # "drop_oldest"
                    /\ s.pc \in {"drop", "dropOne"} => (Before(call[c].cut) # {})'
                    /\ s.pc = "recheck" => Used' < LimitOf(s.percent)
  BY DEF Effective
<1>0. ASSUME Busy(c), ~ Hindered(r), Several
      PROVE  /\ r.pc \notin {"span", "slice", "delete", "busy"}
             /\ r.pc \in {"drop", "dropOne"} => Before(r.cut) # {}
             /\ r.pc = "recheck" => Used < limit
  BY <1>0 DEF FitInv, Effective
<1>1. CASE LoadPercent(c) \/ LoadPolicy(c) \/ Gate(c)
  <2>1. s.pc = "halt" => s.policy # "drop_oldest"
    <3>1. CASE Gate(c)
      <4>1. Kept(r, s, {"pc", "first", "seen"}) \/ s.pc = "insert" BY <3>1, GateMoves
      <4>2. s.pc = "halt" => r.policy # "drop_oldest" BY <3>1, GateMoves
      <4>3. QED BY <4>1, <4>2 DEF Kept, Fields
    <3>2. QED BY <1>1, <3>1, LoadPercentMoves, LoadPolicyMoves
  <2>2. QED BY <1>1, <2>1, LoadPercentMoves, LoadPolicyMoves, GateMoves
<1>2. CASE Size(c)
  <2>1. IsCall(r) /\ s.percent = r.percent /\ UNCHANGED dbVars
    BY <1>2, SizeMoves DEF Kept, Fields, Local
  <2>2. Target(limit) \in 1..limit /\ limit \in Nat BY <2>1, Limits, Targets DEF IsCall
  <2>3. Used \in Nat /\ Used' = Used BY <2>1, UsedType, SameTable DEF TypeInv
  <2>4. \/ s.faulted
        \/ s.pc = "recheck" /\ Used < Target(limit)
        \/ s.pc \in {"list", "oldest"}
    BY <1>2, SizeMoves
  <2>5. s.pc = "recheck" => Used < limit BY <2>2, <2>3, <2>4 DEF Hindered
  <2>6. QED BY <2>1, <2>3, <2>4, <2>5 DEF Hindered
<1>3. CASE List(c)
  <2>1. UNCHANGED dbVars /\ Several BY <1>3, ListMoves, SameTable DEF Local
  <2>2. IsFiniteSet(DOMAIN size) BY UsedType DEF TypeInv
  <2>3. Cardinality(DOMAIN size) \in Nat BY <2>2, FS_CardinalityType
  <2>4. (s.pc = "drop" /\ Plans(r, s)) \/ s.pc = "oldest"
    BY <1>3, ListMoves
  <2>5. Plans(r, s) => Before(s.cut) # {}
    <3>1. ASSUME Plans(r, s) PROVE Before(s.cut) # {}
      <4>1. PlannedCut(r, s) BY <3>1, PlanKeeps
      <4> HIDE DEF r, s
      <4>2. PICK kept \in DOMAIN size : s.cut = FirstTime(kept) /\ \E k \in DOMAIN size : k < kept
        BY <4>1 DEF PlannedCut
      <4>3. QED BY <4>2, OlderEnds
    <3>2. QED BY <3>1
  <2>6. (Before(call[c].cut))' = Before(s.cut) BY <2>1 DEF Before, dbVars
  <2>7. QED BY <2>4, <2>5, <2>6
<1>4. CASE Oldest(c)
  <2> DEFINE later == {FirstTime(k) : k \in DOMAIN size \ {Min(DOMAIN size)}}
  <2>1. UNCHANGED dbVars /\ Several BY <1>4, OldestMoves, SameTable DEF Local
  <2>2. (later = {} => ~ Several) /\ (later # {} /\ s.cut = Min(later) => Before(s.cut) # {})
    BY LaterEnds
  <2>3. \/ s.pc = "span" /\ (s.faulted \/ later = {})
        \/ s.pc = "dropOne" /\ later # {} /\ s.cut = Min(later)
    BY <1>4, OldestMoves
  <2> HIDE DEF later
  <2>4. s.pc = "dropOne" /\ Before(s.cut) # {} BY <2>1, <2>2, <2>3 DEF Hindered
  <2>5. (Before(call[c].cut))' = Before(s.cut) BY <2>1 DEF Before, dbVars
  <2>6. QED BY <2>4, <2>5
<1>5. CASE Span(c)
  <2>1. r.pc = "span" /\ UNCHANGED dbVars /\ Several /\ Busy(c)
    BY <1>5, SpanMoves, SameTable DEF Local, Busy
  <2>2. \/ Kept(r, s, {"pc", "err", "faulted"}) /\ (r.faulted => s.faulted)
        \/ Kept(r, s, {"pc", "cut"})
    BY <1>5, SpanMoves
  <2>3. ~ Hindered(r) BY <2>2 DEF Hindered, Kept, Fields
  <2>4. QED BY <1>0, <2>1, <2>3
<1>6. CASE Drop(c) \/ DropOne(c) \/ Slice(c)
  <2>1. IsCall(r) /\ r.pc \in {"drop", "dropOne", "slice"} /\ Busy(c)
    BY <1>6, DropMoves DEF Busy
  <2>2. /\ Kept(r, s, {"pc", "n", "progress", "removed"})
        /\ s.removed = (r.removed \/ Before(r.cut) # {})
        /\ Loses(c, Before(r.cut), {t \in rows : ChunkOf(t) \in Before(r.cut)})
    BY <1>6, DropMoves DEF Hindered
  <2>3. ~ r.removed /\ Before(r.cut) = {} BY <2>1, <2>2 DEF Hindered, IsCall
  <2>4. ~ Hindered(r) BY <2>2, <2>3 DEF Hindered, Kept, Fields
  <2>5. DOMAIN size' = DOMAIN size BY <2>2, <2>3 DEF Loses
  <2>6. Several BY <2>5, SeveralBefore
  <2>7. FALSE BY <1>0, <2>1, <2>3, <2>4, <2>6
  <2>8. QED BY <2>7
<1>7. CASE Delete(c)
  <2>1. r.pc = "delete" /\ Busy(c) /\ IsCall(r) BY <1>7, DeleteMoves DEF Busy
  <2>2. Kept(r, s, {"pc", "err"}) /\ UNCHANGED dbVars
    BY <1>7, DeleteMoves DEF Hindered, Local
  <2>3. ~ Hindered(r) BY <2>2 DEF Hindered, Kept, Fields
  <2>4. Several BY <2>2, SameTable
  <2>5. QED BY <1>0, <2>1, <2>3, <2>4
<1>8. CASE Recheck(c)
  <2>1. r.pc = "recheck" /\ Busy(c) /\ IsCall(r) /\ UNCHANGED dbVars
    BY <1>8, RecheckMoves DEF Busy, Local
  <2>2. /\ Kept(r, s, {"pc", "seen"})
        /\ \/ s.pc = "insert"
           \/ Used >= limit /\ s.pc \in {"halt", "busy"}
    BY <1>8, RecheckMoves DEF Hindered
  <2>3. ~ Hindered(r) /\ Several BY <2>1, <2>2, SameTable DEF Hindered, Kept, Fields
  <2>4. Used < limit BY <1>0, <2>1, <2>3
  <2>5. Used \in Nat /\ limit \in Nat BY <2>1, UsedType, Limits DEF TypeInv, IsCall
  <2>6. s.pc = "insert" BY <2>2, <2>4, <2>5
  <2>7. QED BY <2>6
<1>9. CASE Insert(c) \/ Return(c)
  BY <1>9, InsertMoves, ReturnMoves DEF Busy, Idle
<1>10. QED BY <1>1, <1>2, <1>3, <1>4, <1>5, <1>6, <1>7, <1>8, <1>9 DEF Step

\* What a call of another, or a store of the settings, leaves of a call.
LEMMA OtherFits ==
  ASSUME NEW r, NEW s, Fits(r), Kept(r, s, {"raced"}) \/ Kept(r, s, {"crossed"})
  PROVE  Fits(s)
<1>1. /\ s.pc = r.pc /\ s.percent = r.percent /\ s.blind = r.blind /\ s.first = r.first
      /\ s.seen = r.seen /\ s.removed = r.removed /\ s.progress = r.progress
  BY DEF Kept, Fields
<1>2. QED BY <1>1 DEF Fits

\* A call stays effective while the table is the same and the call too; if another has
\* changed the table, the call is hindered.
LEMMA OtherEffective ==
  ASSUME TypeInv, NEW g \in Caller, Busy(g), Effective(g),
         \/ call'[g].raced
         \/ /\ Kept(call[g], call'[g], {"raced"}) \/ Kept(call[g], call'[g], {"crossed"})
            /\ call[g].raced => call'[g].raced
            /\ UNCHANGED <<rows, size>> /\ lag' \in {lag, 0}
  PROVE  Effective(g)'
<1>1. CASE call'[g].raced BY <1>1 DEF Effective, Hindered
<1>2. CASE /\ Kept(call[g], call'[g], {"raced"}) \/ Kept(call[g], call'[g], {"crossed"})
           /\ call[g].raced => call'[g].raced
           /\ UNCHANGED <<rows, size>> /\ lag' \in {lag, 0}
  <2>1. /\ call'[g].pc = call[g].pc /\ call'[g].cut = call[g].cut
        /\ call'[g].percent = call[g].percent /\ call'[g].policy = call[g].policy
        /\ Hindered(call[g]) => Hindered(call'[g])
    BY <1>2 DEF Kept, Fields, Hindered
  <2>2. (Several' <=> Several) /\ (Before(call[g].cut))' = Before(call[g].cut)
    BY <1>2, <2>1 DEF Several, Before
  <2>3. ASSUME Used < LimitOf(call[g].percent) PROVE Used' < LimitOf(call[g].percent)
    <3>1. /\ Used = Base + lag + Bytes(size, DOMAIN size)
          /\ Used' = Base + lag' + Bytes(size, DOMAIN size)
      BY <1>2 DEF Used
    <3>2. Bytes(size, DOMAIN size) \in Nat /\ lag \in Nat /\ Base \in Nat
      BY UsedType, CapacityAssumption DEF TypeInv, TableTypes
    <3>3. LimitOf(call[g].percent) \in Nat BY Limits DEF TypeInv, CallTypes, IsCall
    <3>4. QED BY <1>2, <2>3, <3>1, <3>2, <3>3
  <2>4. QED BY <2>1, <2>2, <2>3 DEF Effective
<1>3. QED BY <1>1, <1>2

\* Its own step leaves a call that gives up, as long as nothing has hindered it, with
\* one row at most.
LEMMA OwnSpent ==
  ASSUME TypeInv, FitInv, NEW c \in Caller, LoadPercent(c) \/ Step(c), Busy(c)'
  PROVE  Spent(c)'
<1> DEFINE r == call[c]
           s == call'[c]
<1>0. Busy(c) => Spent(c) BY DEF FitInv
<1>1. CASE LoadPercent(c)
  <2>1. s.pc = "policy" /\ ~ s.err BY <1>1, LoadPercentMoves
  <2>2. QED BY <2>1 DEF Spent
<1>2. CASE LoadPolicy(c) \/ Gate(c)
  <2>1. r.pc \in {"policy", "gate"} /\ UNCHANGED rows
    BY <1>2, LoadPolicyMoves, GateMoves DEF Local, dbVars
  <2>2. \/ Kept(r, s, {"pc", "policy"}) \/ Kept(r, s, {"pc", "first", "seen"})
        \/ s.faulted /\ s.pc = "insert"
    BY <1>2, LoadPolicyMoves, GateMoves
  <2>3. s.pc \in {"gate", "insert", "size", "halt"} BY <1>2, LoadPolicyMoves, GateMoves
  <2>4. s.pc = "halt" => r.policy # "drop_oldest" /\ Kept(r, s, {"pc", "first", "seen"})
    BY <1>2, LoadPolicyMoves, GateMoves
  <2>5. s.pc = "halt" => s.policy # "drop_oldest" BY <2>4 DEF Kept, Fields
  <2>6. ~ Hindered(s) => ~ Hindered(r) /\ s.err = r.err BY <2>2 DEF Hindered, Kept, Fields
  <2>7. Spent(c) BY <1>0, <2>1 DEF Busy
  <2>8. QED BY <2>1, <2>3, <2>5, <2>6, <2>7 DEF Spent
<1>3. CASE Size(c) \/ List(c) \/ Oldest(c)
  <2>1. r.pc \in {"size", "list", "oldest"} /\ UNCHANGED rows
    BY <1>3, SizeMoves, ListMoves, OldestMoves DEF Local, dbVars
  <2>2. s.pc \in {"recheck", "list", "oldest", "drop", "span", "dropOne"}
    BY <1>3, SizeMoves, ListMoves, OldestMoves
  <2>3. ~ Hindered(s) => ~ Hindered(r) /\ s.err = r.err
    <3>1. CASE Size(c) BY <3>1, SizeMoves DEF Hindered, Kept, Fields
    <3>2. CASE List(c)
      <4>1. s.faulted \/ Kept(r, s, {"pc"}) \/ Kept(r, s, {"pc", "cut", "enough", "listed"})
        BY <3>2, ListMoves
      <4>2. QED BY <4>1 DEF Hindered, Kept, Fields
    <3>3. CASE Oldest(c)
      <4>1. s.faulted \/ Kept(r, s, {"pc"}) \/ Kept(r, s, {"pc", "cut"})
        BY <3>3, OldestMoves
      <4>2. QED BY <4>1 DEF Hindered, Kept, Fields
    <3>4. QED BY <1>3, <3>1, <3>2, <3>3
  <2>4. Spent(c) BY <1>0, <2>1 DEF Busy
  <2>5. QED BY <2>1, <2>2, <2>3, <2>4 DEF Spent
<1>4. CASE Span(c)
  <2>1. r.pc = "span" /\ UNCHANGED rows BY <1>4, SpanMoves DEF Local, dbVars
  <2>2. \/ /\ Kept(r, s, {"pc", "err", "faulted"}) /\ s.pc = "recheck"
           /\ s.faulted \/ Cardinality(rows) < 2
        \/ Kept(r, s, {"pc", "cut"}) /\ s.pc = "slice"
    BY <1>4, SpanMoves
  <2>3. Spent(c) BY <1>0, <2>1 DEF Busy
  <2>4. CASE s.pc = "recheck" BY <2>1, <2>2, <2>4 DEF Spent, Hindered
  <2>5. CASE Kept(r, s, {"pc", "cut"}) /\ s.pc = "slice"
    <3>1. s.err = r.err /\ (Hindered(s) <=> Hindered(r)) BY <2>5 DEF Hindered, Kept, Fields
    <3>2. QED BY <2>1, <2>3, <2>5, <3>1 DEF Spent
  <2>6. QED BY <2>2, <2>4, <2>5
<1>5. CASE Drop(c) \/ DropOne(c) \/ Slice(c)
  <2> DEFINE ks == Before(r.cut)
             ts == {t \in rows : ChunkOf(t) \in ks}
  <2>1. r.pc \in {"drop", "dropOne", "slice"} /\ IsCall(r) BY <1>5, DropMoves
  <2>2. \/ s.faulted /\ s.pc = FallsTo(r.pc)
        \/ /\ Kept(r, s, {"pc", "n", "progress", "removed"})
           /\ s.removed = (r.removed \/ ks # {})
           /\ s.pc \in {"recheck", "size"} /\ Loses(c, ks, ts)
    BY <1>5, DropMoves DEF Passes
  <2>3. Spent(c) BY <1>0, <2>1 DEF Busy
  <2>4. CASE s.faulted /\ s.pc = FallsTo(r.pc) BY <2>1, <2>4 DEF Spent, Hindered, FallsTo
  <2>5. CASE /\ Kept(r, s, {"pc", "n", "progress", "removed"})
             /\ s.removed = (r.removed \/ ks # {})
             /\ s.pc \in {"recheck", "size"} /\ Loses(c, ks, ts)
    <3>1. CASE s.removed BY <2>5, <3>1 DEF Spent, Hindered
    <3>2. CASE ~ s.removed
      <4>1. ks = {} /\ ~ r.removed BY <2>1, <2>5, <3>2 DEF IsCall
      <4>2. rows' = rows BY <2>5, <4>1 DEF Loses
      <4>3. s.err = r.err /\ s.raced = r.raced /\ s.faulted = r.faulted
        BY <2>5 DEF Kept, Fields
      <4>4. QED BY <2>3, <2>5, <3>2, <4>1, <4>2, <4>3 DEF Spent, Hindered
    <3>3. QED BY <3>1, <3>2
  <2>6. QED BY <2>2, <2>4, <2>5
<1>6. CASE Delete(c)
  <2>1. r.pc = "delete" BY <1>6, DeleteMoves
  <2>2. r.faulted BY <1>0, <2>1 DEF Busy, Spent
  <2>3. Kept(r, s, {"pc", "err"}) \/ Kept(r, s, {"pc", "n", "progress", "removed"})
    BY <1>6, DeleteMoves
  <2>4. s.faulted BY <2>2, <2>3 DEF Kept, Fields
  <2>5. QED BY <2>4 DEF Spent, Hindered
<1>7. CASE Recheck(c)
  <2>1. r.pc = "recheck" /\ UNCHANGED rows BY <1>7, RecheckMoves DEF Local, dbVars
  <2>2. \/ s.faulted
        \/ /\ Kept(r, s, {"pc", "seen"}) /\ s.pc \in {"insert", "busy", "halt"}
           /\ s.pc = "halt" => r.err
    BY <1>7, RecheckMoves
  <2>3. Spent(c) BY <1>0, <2>1 DEF Busy
  <2>4. CASE s.faulted BY <2>4 DEF Spent, Hindered
  <2>5. CASE /\ Kept(r, s, {"pc", "seen"}) /\ s.pc \in {"insert", "busy", "halt"}
             /\ s.pc = "halt" => r.err
    <3>1. s.err = r.err /\ (Hindered(s) <=> Hindered(r)) BY <2>5 DEF Hindered, Kept, Fields
    <3>2. QED BY <2>1, <2>3, <2>5, <3>1 DEF Spent
  <2>6. QED BY <2>2, <2>4, <2>5
<1>8. CASE Insert(c) \/ Return(c)
  BY <1>8, InsertMoves, ReturnMoves DEF Busy, Idle
<1>9. QED BY <1>1, <1>2, <1>3, <1>4, <1>5, <1>6, <1>7, <1>8 DEF Step

\* And what others do, and the settings, leave it so.
LEMMA OtherSpent ==
  ASSUME NEW g \in Caller, Spent(g),
         Kept(call[g], call'[g], {"raced"}) \/ Kept(call[g], call'[g], {"crossed"}),
         \/ call'[g].raced
         \/ (call[g].raced => call'[g].raced) /\ UNCHANGED rows
  PROVE  Spent(g)'
<1>1. /\ call'[g].pc = call[g].pc /\ call'[g].policy = call[g].policy
      /\ call'[g].err = call[g].err /\ call'[g].faulted = call[g].faulted
      /\ call'[g].removed = call[g].removed
  BY DEF Kept, Fields
<1>2. CASE call'[g].raced BY <1>1, <1>2 DEF Spent, Hindered
<1>3. CASE (call[g].raced => call'[g].raced) /\ UNCHANGED rows
  BY <1>1, <1>3 DEF Spent, Hindered
<1>4. QED BY <1>2, <1>3

\* A step of one call that leaves the others alone leaves the table too.
LEMMA AloneTable ==
  ASSUME TypeInv, NEW c \in Caller, LoadPercent(c) \/ Step(c)
  PROVE  (Alone(c) /\ UNCHANGED dbVars) \/ Disturbs(c)
<1>1. CASE \/ LoadPercent(c) \/ LoadPolicy(c) \/ Gate(c) \/ Size(c) \/ List(c)
           \/ Oldest(c) \/ Span(c) \/ Recheck(c) \/ Return(c)
  BY <1>1, LoadPercentMoves, LoadPolicyMoves, GateMoves, SizeMoves, ListMoves, OldestMoves,
     SpanMoves, RecheckMoves, ReturnMoves DEF Local
<1>2. CASE Drop(c) \/ DropOne(c) \/ Slice(c) BY <1>2, DropMoves DEF Loses, Local
<1>3. CASE Delete(c) \/ Insert(c) BY <1>3, DeleteMoves, InsertMoves DEF Loses, Local
<1>4. QED BY <1>1, <1>2, <1>3 DEF Step

\* FitInv is inductive.
LEMMA FitStep ==
  ASSUME TypeInv, FitInv, [Next]_vars
  PROVE  FitInv'
<1>1. ASSUME NEW g \in Caller, NEW c \in Caller, LoadPercent(c) \/ Step(c), Busy(g)', g # c
      PROVE  Fits(call'[g]) /\ Effective(g)' /\ Spent(g)'
  <2>1. (Alone(c) /\ UNCHANGED dbVars) \/ Disturbs(c) BY <1>1, AloneTable
  <2>2. /\ Busy(g) /\ Kept(call[g], call'[g], {"raced"})
        /\ Disturbs(c) => call'[g].raced = TRUE
        /\ call'[g].raced = call[g].raced \/ call'[g].raced = TRUE
    BY <1>1, <2>1, OthersKept
  <2>3. Fits(call[g]) /\ Effective(g) /\ Spent(g) BY <2>2 DEF FitInv
  <2>4. \/ call'[g].raced
        \/ (call[g].raced => call'[g].raced) /\ UNCHANGED <<rows, size>> /\ lag' \in {lag, 0}
    BY <2>1, <2>2 DEF dbVars
  <2>5. QED BY <2>2, <2>3, <2>4, OtherFits, OtherEffective, OtherSpent
<1>2. ASSUME NEW g \in Caller, StorePercent \/ StorePolicy, Busy(g)'
      PROVE  Fits(call'[g]) /\ Effective(g)' /\ Spent(g)'
  <2>1. Busy(g) /\ Kept(call[g], call'[g], {"crossed"}) BY <1>2, CrossedKept
  <2>2. Fits(call[g]) /\ Effective(g) /\ Spent(g) BY <2>1 DEF FitInv
  <2>3. call'[g].raced = call[g].raced BY <2>1 DEF Kept, Fields
  <2>4. UNCHANGED <<rows, size>> /\ lag' = lag
    BY <1>2 DEF StorePercent, StorePolicy, dbVars
  <2>5. QED BY <2>1, <2>2, <2>3, <2>4, OtherFits, OtherEffective, OtherSpent
<1>3. ASSUME NEW g \in Caller, Settle \/ UNCHANGED vars, Busy(g)'
      PROVE  Fits(call'[g]) /\ Effective(g)' /\ Spent(g)'
  <2>1. call' = call /\ UNCHANGED <<rows, size>> /\ lag' \in {lag, 0}
    BY <1>3 DEF Settle, vars, dbVars
  <2>2. Busy(g) BY <1>3, <2>1 DEF Busy
  <2>3. Fits(call[g]) /\ Effective(g) /\ Spent(g) /\ IsCall(call[g])
    BY <2>2 DEF FitInv, TypeInv, CallTypes
  <2>4. Kept(call[g], call'[g], {"raced"}) BY <2>1, <2>3 DEF Kept, IsCall
  <2>5. QED BY <2>1, <2>2, <2>3, <2>4, OtherEffective, OtherSpent
<1>4. ASSUME NEW g \in Caller, Busy(g)' PROVE Fits(call'[g]) /\ Effective(g)' /\ Spent(g)'
  <2>1. ASSUME NEW c \in Caller, LoadPercent(c) \/ Step(c)
        PROVE  Fits(call'[g]) /\ Effective(g)' /\ Spent(g)'
    BY <1>1, <1>4, <2>1, OwnFits, OwnEffective, OwnSpent
  <2>2. QED BY <1>2, <1>3, <1>4, <2>1 DEF Next
<1>5. QED BY <1>4 DEF FitInv

\* What a call ends with fits what the capacity page would show; it halts only if no
\* drop of its is known to have removed anything, and under drop_oldest only with one
\* chunk and one row left, after a query that failed or beside another call; and in a
\* table of several chunks it is busy for nothing only if a query failed or another
\* call came in between.
THEOREM EndsFit == Spec => []RefusalsFit
<1>1. Init => FitInv BY DEF Init, FitInv, Busy, Idle
<1>2. TypeInv /\ FitInv /\ [Next]_vars => FitInv' BY FitStep
<1>3. TypeInv /\ FitInv => RefusalsFit
  <2>1. SUFFICES ASSUME TypeInv, FitInv, NEW c \in Caller,
                        At(c, "insert") \/ At(c, "halt") \/ At(c, "busy")
                 PROVE  LET k == call[c] IN
                   /\ At(c, "insert") /\ ~k.blind => ~Reported(k.seen, k.percent).over
                   /\ At(c, "halt") \/ At(c, "busy") =>
                        Reported(IF k.blind THEN k.first ELSE k.seen, k.percent).over
                   /\ At(c, "halt") => ~k.removed
                   /\ At(c, "halt") /\ k.policy = "drop_oldest" =>
                        NothingLeft \/ k.raced \/ k.faulted
                   /\ At(c, "busy") => k.removed \/ k.raced \/ k.faulted
                                       \/ Cardinality(DOMAIN size) <= 1
    BY DEF RefusalsFit
  <2> DEFINE k == call[c]
             limit == LimitOf(k.percent)
  <2>2. Busy(c) BY <2>1 DEF At, Busy
  <2>3. IsCall(k) /\ Fits(k) /\ Effective(c) /\ Spent(c) BY <2>1, <2>2 DEF FitInv, TypeInv, CallTypes
  <2>4. /\ limit \in Nat /\ k.seen \in Nat /\ k.first \in Nat
        /\ \A used \in Int : Reported(used, k.percent).over <=> used >= limit
    BY <2>3, Limits DEF IsCall
  <2>5. At(c, "insert") /\ ~k.blind => ~Reported(k.seen, k.percent).over
    BY <2>3, <2>4 DEF Fits, At
  <2>6. At(c, "halt") \/ At(c, "busy") =>
          Reported(IF k.blind THEN k.first ELSE k.seen, k.percent).over
    BY <2>3, <2>4 DEF Fits, At
  <2>7. At(c, "halt") => ~k.removed BY <2>3 DEF Fits, At
  <2>8. /\ At(c, "busy") => Hindered(k) \/ Cardinality(DOMAIN size) <= 1
        /\ At(c, "halt") /\ k.policy = "drop_oldest" => Hindered(k) \/ NothingLeft
    <3>1. IsFiniteSet(DOMAIN size) BY <2>1, UsedType DEF TypeInv
    <3>2. Cardinality(DOMAIN size) \in Nat BY <3>1, FS_CardinalityType
    <3>3. Several \/ Cardinality(DOMAIN size) <= 1 BY <3>2 DEF Several
    <3>4. At(c, "busy") => Hindered(k) \/ Cardinality(DOMAIN size) <= 1
      BY <2>3, <3>3 DEF Effective, At
    <3>5. At(c, "halt") /\ k.policy = "drop_oldest" => Hindered(k) \/ NothingLeft
      BY <2>3, <3>3 DEF Effective, Spent, At, NothingLeft
    <3>6. QED BY <3>4, <3>5
  <2>9. QED BY <2>5, <2>6, <2>7, <2>8 DEF Hindered
<1>4. QED BY <1>1, <1>2, <1>3, Types, PTL DEF Spec

-----------------------------------------------------------------------------
(* A trim is no larger than needed.                                        *)

\* No chunk, no bytes.
LEMMA NoBytes ==
  ASSUME NEW f PROVE Bytes(f, {}) = 0
<1> DEFINE g == CHOOSE g : SumsUp(g, f, {})
<1>1. IsFiniteSet({}) BY FS_EmptySet
<1>2. SumsUp(g, f, {}) BY <1>1, SumExists
<1> HIDE DEF g
<1>3. g[{}] = 0 BY <1>2 DEF SumsUp
<1>4. QED BY <1>3, BytesBySum DEF g

\* A call that plans has seen the target exceeded; and if the sizes of all chunks were
\* known, then the chunks before any one that goes would not have been enough.
Tight(r) ==
  LET target == Target(LimitOf(r.percent)) IN
  /\ r.pc \in {"list", "drop"} => r.seen >= target
  /\ r.pc = "drop" /\ (\A k \in DOMAIN r.listed : r.listed[k] > 0) =>
       \A k \in DOMAIN r.listed :
         FirstTime(k) < r.cut /\ Older(r.listed, k) # {} =>
           r.seen - Bytes(r.listed, Older(r.listed, k)) >= target

TightInv == \A c \in Caller : Busy(c) => Tight(call[c])

\* With all sizes known, what a plan counts on is what the chunks hold.
LEMMA FreedKnown ==
  ASSUME NEW listed \in Listing, \A k \in DOMAIN listed : listed[k] > 0,
         NEW used, NEW k
  PROVE  /\ Freed(listed, used, k) = Bytes(listed, Older(listed, k))
         /\ Bytes(listed, Older(listed, k)) \in Nat
<1>1. listed = [j \in DOMAIN listed |-> listed[j]] /\ DOMAIN listed \subseteq 0..MaxTime
      /\ \A j \in DOMAIN listed : listed[j] \in Nat
  BY DEF Listing
<1>2. [j \in DOMAIN listed |-> Estimate(listed, used, j)] = [j \in DOMAIN listed |-> listed[j]]
  <2>1. ASSUME NEW j \in DOMAIN listed PROVE Estimate(listed, used, j) = listed[j]
    BY DEF Estimate
  <2>2. QED BY <2>1
<1>3. Freed(listed, used, k) = Bytes(listed, Older(listed, k)) BY <1>1, <1>2 DEF Freed
<1>4. IsFiniteSet(Older(listed, k))
  <2>1. 0 \in Int /\ MaxTime \in Int BY CapacityAssumption
  <2>2. IsFiniteSet(0..MaxTime) BY <2>1, FS_Interval
  <2>3. Older(listed, k) \subseteq 0..MaxTime BY <1>1 DEF Older
  <2>4. QED BY <2>2, <2>3, FS_Subset
<1>5. \A j \in Older(listed, k) : listed[j] \in Nat BY <1>1 DEF Older
<1>6. QED BY <1>3, <1>4, <1>5, BytesType

\* A plan is tight.
LEMMA PlanTight ==
  ASSUME TypeInv, NEW r, NEW s, Plans(r, s), r.percent \in 1..100, r.seen \in Nat,
         r.seen >= Target(LimitOf(r.percent)), s.percent = r.percent, s.seen = r.seen
  PROVE  Tight(s)
<1> DEFINE target == Target(LimitOf(r.percent))
<1>1. target \in Nat
  <2>1. LimitOf(r.percent) \in Nat \ {0} BY Limits
  <2>2. Target(LimitOf(r.percent)) \in 1..LimitOf(r.percent) BY <2>1, Targets
  <2>3. QED BY <2>1, <2>2
<1>2. PlannedCut(r, s) BY PlanKeeps
<1> HIDE DEF target
<1>3. PICK kept \in DOMAIN size :
        /\ s.cut = FirstTime(kept)
        /\ \A k \in DOMAIN size : k < kept /\ Older(s.listed, k) # {} =>
             ~ (Freed(s.listed, r.seen, k) >= Max({1, r.seen - target}))
  BY <1>2 DEF PlannedCut, target
<1>4. s.listed \in Listing /\ DOMAIN s.listed = DOMAIN size BY <1>2 DEF PlannedCut, Plans
<1>5. ASSUME \A k \in DOMAIN s.listed : s.listed[k] > 0,
             NEW k \in DOMAIN s.listed, FirstTime(k) < s.cut, Older(s.listed, k) # {}
      PROVE  s.seen - Bytes(s.listed, Older(s.listed, k)) >= target
  <2> DEFINE freed == Bytes(s.listed, Older(s.listed, k))
  <2>1. freed \in Nat /\ Freed(s.listed, r.seen, k) = freed BY <1>4, <1>5, FreedKnown
  <2> HIDE DEF freed
  <2>2. k < kept
    <3>1. k \in Nat /\ kept \in Nat BY <1>4 DEF TypeInv, TableTypes
    <3>2. FirstTime(k) \in Nat /\ FirstTime(kept) \in Nat
          /\ (kept < k => FirstTime(kept) < FirstTime(k))
      BY <3>1, ChunkOrder
    <3>3. QED BY <1>3, <1>5, <3>1, <3>2
  <2>3. ~ (freed >= Max({1, r.seen - target})) BY <1>3, <1>4, <1>5, <2>1, <2>2
  <2>4. Max({1, r.seen - target}) = IF 1 >= r.seen - target THEN 1 ELSE r.seen - target
    BY <1>1, MaxOfTwo
  <2>5. r.seen - freed >= target BY <1>1, <2>1, <2>3, <2>4 DEF target
  <2>6. QED BY <2>5 DEF freed
<1>6. QED BY <1>5 DEF Tight, target

\* A call is tight after its own step.
LEMMA OwnTight ==
  ASSUME TypeInv, TightInv, NEW c \in Caller, LoadPercent(c) \/ Step(c), Busy(c)'
  PROVE  Tight(call'[c])
<1> DEFINE r == call[c]
           s == call'[c]
<1>1. CASE Size(c)
  <2>1. s.percent = r.percent BY <1>1, SizeMoves DEF Kept, Fields
  <2>2. \/ s.pc \in {"recheck", "oldest"}
        \/ s.pc = "list" /\ s.seen = Used /\ Used >= Target(LimitOf(r.percent))
    BY <1>1, SizeMoves
  <2>3. QED BY <2>1, <2>2 DEF Tight
<1>2. CASE List(c)
  <2>1. IsCall(r) /\ r.pc = "list" BY <1>2, ListMoves
  <2>2. Tight(r) BY <2>1 DEF TightInv, Busy
  <2>3. r.seen >= Target(LimitOf(r.percent)) BY <2>1, <2>2 DEF Tight
  <2>4. s.percent = r.percent /\ s.seen = r.seen BY <1>2, ListMoves DEF Kept, Fields
  <2>5. s.pc = "oldest" \/ Plans(r, s) BY <1>2, ListMoves
  <2>6. s.pc = "oldest" => Tight(s) BY DEF Tight
  <2>7. r.percent \in 1..100 /\ r.seen \in Nat BY <2>1 DEF IsCall
  <2> HIDE DEF r, s
  <2>8. Plans(r, s) => Tight(s) BY <2>3, <2>4, <2>7, PlanTight
  <2>9. Tight(s) BY <2>5, <2>6, <2>8
  <2>10. QED BY <2>9 DEF s
<1>3. CASE ~ Size(c) /\ ~ List(c)
  <2>1. s.pc \notin {"list", "drop"}
    <3>1. CASE LoadPercent(c) \/ LoadPolicy(c) \/ Gate(c) \/ Oldest(c) \/ Span(c) \/ Recheck(c)
      BY <3>1, LoadPercentMoves, LoadPolicyMoves, GateMoves, OldestMoves, SpanMoves, RecheckMoves
    <3>2. CASE Drop(c) \/ DropOne(c) \/ Slice(c) \/ Delete(c)
      <4>1. s.pc = FallsTo(r.pc) \/ s.pc = "recheck" \/ Passes(r, s)
        BY <3>2, DropMoves, DeleteMoves
      <4>2. QED BY <4>1 DEF FallsTo, Passes
    <3>3. CASE Insert(c) \/ Return(c) BY <3>3, InsertMoves, ReturnMoves DEF Idle
    <3>4. QED BY <1>3, <3>1, <3>2, <3>3 DEF Step
  <2>2. QED BY <2>1 DEF Tight
<1>4. QED BY <1>1, <1>2, <1>3

\* TightInv is inductive.
LEMMA TightStep ==
  ASSUME TypeInv, TightInv, [Next]_vars
  PROVE  TightInv'
<1>1. ASSUME NEW g \in Caller, Busy(g),
             Kept(call[g], call'[g], {"raced"}) \/ Kept(call[g], call'[g], {"crossed"})
      PROVE  Tight(call'[g])
  <2>1. /\ call'[g].pc = call[g].pc /\ call'[g].percent = call[g].percent
        /\ call'[g].seen = call[g].seen /\ call'[g].cut = call[g].cut
        /\ call'[g].listed = call[g].listed
    BY <1>1 DEF Kept, Fields
  <2>2. Tight(call[g]) BY <1>1 DEF TightInv
  <2>3. QED BY <2>1, <2>2 DEF Tight
<1>2. ASSUME NEW g \in Caller, Busy(g)' PROVE Tight(call'[g])
  <2>1. ASSUME NEW c \in Caller, LoadPercent(c) \/ Step(c) PROVE Tight(call'[g])
    <3>1. CASE g = c BY <1>2, <2>1, <3>1, OwnTight
    <3>2. CASE g # c BY <1>1, <1>2, <2>1, <3>2, StepOthers, OthersKept
    <3>3. QED BY <3>1, <3>2
  <2>2. CASE StorePercent \/ StorePolicy BY <1>1, <1>2, <2>2, CrossedKept
  <2>3. CASE Settle \/ UNCHANGED vars
    BY <1>2, <2>3 DEF Settle, vars, TightInv, Busy
  <2>4. QED BY <2>1, <2>2, <2>3 DEF Next
<1>3. QED BY <1>2 DEF TightInv

\* Of the chunks that go, the last one has all the others before it.
LEMMA LastGoes ==
  ASSUME TypeInv, NEW cut \in Nat, Before(cut) # {}
  PROVE  LET m == Max(Before(cut)) IN
         /\ m \in DOMAIN size /\ FirstTime(m) < cut
         /\ Before(cut) \ {m} = Older(size, m)
<1> DEFINE ks == Before(cut)
           m  == Max(ks)
<1>1. ks \in SUBSET (0..MaxTime) /\ ks # {} /\ MaxTime \in Nat
  BY CapacityAssumption DEF Before, TypeInv, TableTypes
<1>2. m \in ks /\ \A j \in ks : j <= m BY <1>1, MaxExists
<1>3. DOMAIN size \in SUBSET Nat BY CapacityAssumption DEF TypeInv, TableTypes
<1> HIDE DEF m
<1>4. m \in DOMAIN size /\ FirstTime(m + 1) <= cut /\ m \in Nat BY <1>1, <1>2 DEF Before
<1>5. FirstTime(m) < FirstTime(m + 1) /\ FirstTime(m) \in Nat /\ FirstTime(m + 1) \in Nat
  BY <1>4, ChunkOrder
<1>6. FirstTime(m) < cut BY <1>4, <1>5
<1>7. ASSUME NEW j \in DOMAIN size PROVE j \in ks \ {m} <=> j < m
  <2>1. j \in Nat /\ j + 1 \in Nat BY <1>3
  <2>2. j \in ks \ {m} => j < m BY <1>2, <1>4, <2>1
  <2>3. FirstTime(j + 1) \in Nat /\ (j < m => FirstTime(j + 1) <= FirstTime(m))
    BY <1>4, <2>1, ChunkOrder
  <2>4. j < m => j \in ks \ {m} BY <1>4, <1>5, <1>6, <2>1, <2>3 DEF Before
  <2>5. QED BY <2>2, <2>4
<1>8. ks \ {m} = Older(size, m) BY <1>7 DEF Before, Older
<1>9. QED BY <1>4, <1>6, <1>8 DEF m

\* A planned drop that finds the chunks as they were listed goes no further than
\* needed: without its last chunk the target would not be reached.
THEOREM TrimsTightly == Spec => TrimIsTight
<1>1. Init => TightInv BY DEF Init, TightInv, Busy, Idle
<1>2. TypeInv /\ TightInv /\ [Next]_vars => TightInv' BY TightStep
<1> DEFINE TightDrop(c) ==
      Drop(c) /\ call[c].listed = size /\ DOMAIN size' # DOMAIN size =>
        LET ks == DOMAIN size \ DOMAIN size'
        IN call[c].seen - Bytes(size, ks \ {Max(ks)}) >= Target(LimitOf(call[c].percent))
<1>3. TypeInv /\ TightInv => \A c \in Caller : TightDrop(c)
  <2>1. SUFFICES ASSUME TypeInv, TightInv, NEW c \in Caller, Drop(c),
                        call[c].listed = size, DOMAIN size' # DOMAIN size
                 PROVE  LET ks == DOMAIN size \ DOMAIN size' IN
                        call[c].seen - Bytes(size, ks \ {Max(ks)})
                          >= Target(LimitOf(call[c].percent))
    OBVIOUS
  <2> DEFINE r  == call[c]
             ks == Before(r.cut)
             m  == Max(ks)
  <2>2. IsCall(r) /\ r.pc = "drop" BY <2>1, DropMoves
  <2>3. Tight(r) /\ r.cut \in Nat /\ r.seen \in Nat
    BY <2>1, <2>2 DEF TightInv, Busy, IsCall
  <2>4. size' = [k \in DOMAIN size \ ks |-> size[k]]
    <3>1. (Alone(c) /\ Local) \/ Loses(c, ks, {t \in rows : ChunkOf(t) \in ks})
      BY <2>1, DropMoves
    <3>2. QED BY <2>1, <3>1 DEF Loses, Local, dbVars
  <2>5. DOMAIN size \ DOMAIN size' = ks /\ ks # {}
    <3>1. ks \subseteq DOMAIN size BY DEF Before
    <3>2. QED BY <2>1, <2>4, <3>1
  <2>6. /\ m \in DOMAIN size /\ FirstTime(m) < r.cut
        /\ ks \ {m} = Older(size, m)
    BY <2>1, <2>3, <2>5, LastGoes
  <2>7. \A k \in DOMAIN size : size[k] > 0 BY <2>1 DEF TypeInv, TableTypes
  <2> HIDE DEF m, ks
  <2>8. r.seen - Bytes(size, ks \ {m}) >= Target(LimitOf(r.percent))
    <3>1. CASE ks \ {m} = {}
      <4>1. r.seen - 0 = r.seen BY <2>3
      <4>2. QED BY <2>2, <2>3, <3>1, <4>1, NoBytes DEF Tight
    <3>2. CASE ks \ {m} # {} BY <2>1, <2>2, <2>3, <2>6, <2>7, <3>2 DEF Tight
    <3>3. QED BY <3>1, <3>2
  <2>9. QED BY <2>5, <2>8 DEF m
<1>4. TypeInv /\ TightInv => [\A c \in Caller : TightDrop(c)]_vars BY <1>3
<1>5. QED BY <1>1, <1>2, <1>4, Types, PTL DEF Spec, TrimIsTight
=============================================================================
