----------------------------- MODULE RulesProofs -----------------------------
(***************************************************************************)
(* Proofs about the judge's rules: the verdict of any number of cases, the *)
(* cache of compiled binaries for any keys and any size, which cases are   *)
(* graded, for any layout of a problem, and what the sandbox's policy of   *)
(* files allows, on any tree and with any rules.                           *)
(***************************************************************************)
EXTENDS MCRules, VerdictLemmas, FiniteSetTheorems, WellFoundedInduction

TypeOK == cases \in Seq(Case)

LEMMA TypeCorrect == Spec => []TypeOK
<1>1. Init => TypeOK
  BY DEF Init, TypeOK
<1>2. TypeOK /\ [Next]_cases => TypeOK'
  BY DEF TypeOK, Next, Accumulate
<1>3. QED
  BY <1>1, <1>2, PTL DEF Spec

\* What the three theorems need of the typed cases.
LEMMA Masks ==
    ASSUME TypeOK
    PROVE  /\ \A n \in DOMAIN cases : cases[n].flags \in SUBSET Flags
           /\ WorstStatus(cases) \in SUBSET Flags
           /\ \A s : s \in WorstStatus(cases) <=> \E n \in DOMAIN cases : s \in cases[n].flags
<1>1. \A n \in DOMAIN cases : cases[n] \in Case
  BY DEF TypeOK
<1>2. \A n \in DOMAIN cases : cases[n].flags \in SUBSET Flags
  BY <1>1 DEF Case
<1>3. QED
  BY <1>2 DEF WorstStatus

\* The bridge's table and the judge's display order name every case alike.
THEOREM NamesAlwaysAgree == Spec => []NamesAgree
<1>1. TypeOK => NamesAgree
  BY Masks, NameOfMask DEF NamesAgree
<1>2. QED
  BY <1>1, TypeCorrect, PTL

\* finalizeResult accepts a submission exactly when all its cases passed.
THEOREM AcceptedOnlyClean == Spec => []AcceptedIffClean
<1>1. TypeOK => AcceptedIffClean
  <2> SUFFICES ASSUME TypeOK PROVE AcceptedIffClean
    OBVIOUS
  <2>1. Verdict = "AC" <=> WorstStatus(cases) = {}
    BY Masks, NameOfMask DEF Verdict
  <2>2. WorstStatus(cases) = {} <=> \A n \in DOMAIN cases : cases[n].flags = {}
    BY Masks
  <2>3. QED
    BY <2>1, <2>2 DEF AcceptedIffClean
<1>2. QED
  BY <1>1, TypeCorrect, PTL

\* The name of the or of the masks is the name of one of the masks.
THEOREM VerdictIsOfSomeCase == Spec => []VerdictOfSomeCase
<1>1. TypeOK => VerdictOfSomeCase
  <2> SUFFICES ASSUME TypeOK, Verdict # "AC"
               PROVE  \E k \in DOMAIN cases : MainCode(cases[k].flags) = Verdict
    BY DEF VerdictOfSomeCase
  <2>1. WorstStatus(cases) # {} /\ Verdict = FirstOf(BridgeOrder, WorstStatus(cases))
    BY Masks, NameOfMask DEF Verdict
  <2>2. PICK n \in 1..8 :
           /\ Verdict = BridgeOrder[n]
           /\ BridgeOrder[n] \in WorstStatus(cases)
           /\ \A j \in 1..8 : BridgeOrder[j] \in WorstStatus(cases) => n <= j
    BY <2>1, Masks, FirstFlag
  <2>3. PICK k \in DOMAIN cases : BridgeOrder[n] \in cases[k].flags
    BY <2>2, Masks
  <2>4. cases[k].flags \in SUBSET Flags /\ cases[k].flags # {}
    BY <2>3, Masks
  <2>5. PICK m \in 1..8 :
           /\ FirstOf(BridgeOrder, cases[k].flags) = BridgeOrder[m]
           /\ BridgeOrder[m] \in cases[k].flags
           /\ \A j \in 1..8 : BridgeOrder[j] \in cases[k].flags => m <= j
    BY <2>4, FirstFlag
  <2>6. m <= n /\ n <= m
    BY <2>2, <2>3, <2>5, Masks
  <2>7. BridgeOrder[m] = BridgeOrder[n]
    BY <2>6
  <2>8. MainCode(cases[k].flags) = Verdict
    BY <2>2, <2>4, <2>5, <2>7, NameOfMask
  <2>9. QED
    BY <2>8
<1>2. QED
  BY <1>1, TypeCorrect, PTL

\* The place of the bridge's n-th flag is n.
LEMMA PlaceOf == \A n \in 1..8 : Place(BridgeOrder[n]) = n
BY Orders DEF Place

\* A non-empty mask's name has the place of its first flag.
LEMMA PlaceOfName ==
    ASSUME NEW f \in SUBSET Flags, f # {}
    PROVE  /\ Place(StatusName(f)) \in 1..8
           /\ BridgeOrder[Place(StatusName(f))] \in f
           /\ \A j \in 1..8 : BridgeOrder[j] \in f => Place(StatusName(f)) <= j
<1>1. PICK n \in 1..8 :
         /\ FirstOf(BridgeOrder, f) = BridgeOrder[n]
         /\ BridgeOrder[n] \in f
         /\ \A j \in 1..8 : BridgeOrder[j] \in f => n <= j
  BY FirstFlag
<1>2. Place(StatusName(f)) = n
  BY <1>1, PlaceOf, NameOfMask
<1>3. QED
  BY <1>1, <1>2

\* The verdict of a submission, for any number of cases, is faithful to the
\* judge's names of its cases.
THEOREM VerdictAlwaysFaithful == Spec => []VerdictFaithful
BY NamesAlwaysAgree, AcceptedOnlyClean, VerdictIsOfSomeCase, PTL DEF VerdictFaithful

\* accumulateCase only ever makes the verdict to come more severe.
THEOREM VerdictsOnlyWorsen == Spec => NeverMilder
<1>1. TypeOK /\ TypeOK' /\ [Next]_cases =>
        [Verdict # "AC" => Verdict' # "AC" /\ Place(Verdict') <= Place(Verdict)]_cases
  <2> SUFFICES ASSUME TypeOK, TypeOK', NEW x \in Case, Accumulate(x), Verdict # "AC"
               PROVE  Verdict' # "AC" /\ Place(Verdict') <= Place(Verdict)
    BY DEF Next
  <2> DEFINE old == WorstStatus(cases)
             new == WorstStatus(cases')
  <2>1. old \in SUBSET Flags /\ new \in SUBSET Flags /\ old \subseteq new
    <3>1. /\ DOMAIN cases \subseteq DOMAIN cases'
          /\ \A n \in DOMAIN cases : cases'[n] = cases[n]
      BY DEF TypeOK, Accumulate
    <3>2. new \in SUBSET Flags
      <4>1. \A n \in DOMAIN cases' : cases'[n] \in Case
        BY DEF TypeOK
      <4>2. QED
        BY <4>1 DEF Case, WorstStatus
    <3>3. QED
      BY <3>1, <3>2, Masks DEF WorstStatus
  <2>2. old # {} /\ new # {}
    BY <2>1, NameOfMask DEF Verdict
  <2>3. Verdict' = StatusName(new)
    BY DEF Verdict
  <2>4. Verdict' # "AC"
    BY <2>1, <2>2, <2>3, NameOfMask
  <2>5. Place(Verdict) \in 1..8 /\ BridgeOrder[Place(Verdict)] \in old
    BY <2>1, <2>2, PlaceOfName DEF Verdict
  <2>6. Place(StatusName(new)) <= Place(Verdict)
    BY <2>1, <2>2, <2>5, PlaceOfName
  <2>7. QED
    BY <2>3, <2>4, <2>6
<1>2. QED
  BY <1>1, TypeCorrect, PTL DEF Spec, NeverMilder

-------------------------------------------------------------------------------
(* The cache of compiled binaries *)

Keyed(s, K) == \A a, b \in DOMAIN s : K[s[a]] = K[s[b]] => a = b

\* A sequence without its place j.
LEMMA Removed ==
    ASSUME NEW S, NEW s \in Seq(S), NEW j \in DOMAIN s, NEW K, Keyed(s, K)
    PROVE  /\ Binary!RemoveAt(s, j) \in Seq(S)
           /\ Len(Binary!RemoveAt(s, j)) = Len(s) - 1
           /\ Binary!ToSet(Binary!RemoveAt(s, j)) = {s[a] : a \in DOMAIN s \ {j}}
           /\ Keyed(Binary!RemoveAt(s, j), K)
<1> DEFINE r == Binary!RemoveAt(s, j)
           low == SubSeq(s, 1, j - 1)
           high == SubSeq(s, j + 1, Len(s))
           From(a) == IF a < j THEN a ELSE a + 1
<1>1. j \in 1 .. Len(s) /\ Len(s) \in Nat /\ DOMAIN s = 1 .. Len(s)
  OBVIOUS
<1>2. /\ low \in Seq(S) /\ Len(low) = j - 1 /\ \A a \in 1 .. j - 1 : low[a] = s[a]
      /\ high \in Seq(S) /\ Len(high) = Len(s) - j /\ \A a \in 1 .. Len(s) - j : high[a] = s[j + a]
  BY <1>1, SMTT(40)
<1>3. /\ r \in Seq(S) /\ Len(r) = Len(s) - 1 /\ DOMAIN r = 1 .. Len(s) - 1
      /\ \A a \in 1 .. Len(s) - 1 : r[a] = IF a <= j - 1 THEN low[a] ELSE high[a - (j - 1)]
  <2>1. r = low \o high
    BY DEF Binary!RemoveAt
  <2>2. Len(low) + Len(high) = Len(s) - 1
    BY <1>1, <1>2
  <2> HIDE DEF r, low, high
  <2>3. QED
    BY <1>2, <2>1, <2>2, SMTT(40)
<1>4. ASSUME NEW a \in DOMAIN r PROVE r[a] = s[From(a)] /\ From(a) \in DOMAIN s \ {j}
  <2>1. a \in 1 .. Len(s) - 1
    BY <1>3
  <2>2. CASE a < j
    <3>1. a <= j - 1 /\ a \in 1 .. j - 1
      BY <1>1, <2>1, <2>2
    <3>2. r[a] = low[a] /\ low[a] = s[a]
      BY <1>2, <1>3, <2>1, <3>1
    <3>3. QED
      BY <1>1, <2>1, <2>2, <3>2
  <2>3. CASE ~(a < j)
    <3>1. ~(a <= j - 1) /\ a - (j - 1) \in 1 .. Len(s) - j /\ j + (a - (j - 1)) = a + 1
      BY <1>1, <2>1, <2>3
    <3>2. r[a] = high[a - (j - 1)] /\ high[a - (j - 1)] = s[j + (a - (j - 1))]
      BY <1>2, <1>3, <2>1, <3>1
    <3>3. QED
      BY <1>1, <2>1, <2>3, <3>1, <3>2
  <2>4. QED
    BY <2>2, <2>3
<1>5. \A b \in DOMAIN s \ {j} : \E a \in DOMAIN r : From(a) = b
  <2> TAKE b \in DOMAIN s \ {j}
  <2>1. CASE b < j
    BY <1>1, <1>3, <2>1
  <2>2. CASE b > j
    <3>1. b - 1 \in DOMAIN r /\ From(b - 1) = b
      BY <1>1, <1>3, <2>2
    <3>2. QED
      BY <3>1
  <2>3. QED
    BY <1>1, <2>1, <2>2
<1>6. \A a, b \in DOMAIN r : From(a) = From(b) => a = b
  BY <1>1, <1>3
<1> HIDE DEF From, r
<1>7. Keyed(r, K)
  BY <1>4, <1>6 DEF Keyed
<1>8. Binary!ToSet(r) = {s[a] : a \in DOMAIN s \ {j}}
  BY <1>4, <1>5 DEF Binary!ToSet
<1>9. QED
  BY <1>3, <1>7, <1>8 DEF r

\* A sequence with a new element in front.
LEMMA Fronted ==
    ASSUME NEW S, NEW s \in Seq(S), NEW x \in S, NEW K, Keyed(s, K),
           \A y \in Binary!ToSet(s) : K[y] # K[x]
    PROVE  /\ <<x>> \o s \in Seq(S)
           /\ Len(<<x>> \o s) = Len(s) + 1
           /\ Binary!ToSet(<<x>> \o s) = {x} \cup Binary!ToSet(s)
           /\ Keyed(<<x>> \o s, K)
<1> DEFINE t == <<x>> \o s
<1>1. /\ t \in Seq(S) /\ Len(t) = Len(s) + 1 /\ t[1] = x
      /\ DOMAIN t = 1 .. Len(s) + 1 /\ DOMAIN s = 1 .. Len(s) /\ Len(s) \in Nat
      /\ \A a \in 1 .. Len(s) : t[a + 1] = s[a]
  OBVIOUS
<1>2. \A a \in DOMAIN t : a = 1 \/ (a - 1 \in DOMAIN s /\ t[a] = s[a - 1])
  BY <1>1
<1> HIDE DEF t
<1>3. Binary!ToSet(t) = {x} \cup Binary!ToSet(s)
  <2>1. \A y \in Binary!ToSet(t) : y \in {x} \cup Binary!ToSet(s)
    BY <1>1, <1>2 DEF Binary!ToSet
  <2>2. 1 \in DOMAIN t /\ \A a \in DOMAIN s : a + 1 \in DOMAIN t
    BY <1>1
  <2>3. \A y \in {x} \cup Binary!ToSet(s) : y \in Binary!ToSet(t)
    BY <1>1, <2>2 DEF Binary!ToSet
  <2>4. QED
    BY <2>1, <2>3
<1>4. Keyed(t, K)
  <2> SUFFICES ASSUME NEW a \in DOMAIN t, NEW b \in DOMAIN t, K[t[a]] = K[t[b]] PROVE a = b
    BY DEF Keyed
  <2>1. CASE a = 1 /\ b = 1
    BY <2>1
  <2>2. CASE a # 1 /\ b = 1
    BY <1>1, <1>2, <2>2 DEF Binary!ToSet
  <2>3. CASE a = 1 /\ b # 1
    BY <1>1, <1>2, <2>3 DEF Binary!ToSet
  <2>4. CASE a # 1 /\ b # 1
    <3>1. a - 1 \in DOMAIN s /\ b - 1 \in DOMAIN s /\ t[a] = s[a - 1] /\ t[b] = s[b - 1]
      BY <1>2, <2>4
    <3>2. a - 1 = b - 1
      BY <3>1 DEF Keyed
    <3>3. QED
      BY <1>1, <3>2
  <2>5. QED
    BY <2>1, <2>2, <2>3, <2>4
<1>5. QED
  BY <1>1, <1>3, <1>4 DEF t

Entries == Binary!ToSet(cache)

CacheTypes ==
    /\ made \in Nat
    /\ key \in Seq(Keys) /\ Len(key) = made
    /\ dir \in Seq(Nat) /\ Len(dir) = made
    /\ cache \in Seq(Nat) /\ Entries \subseteq 1 .. made
    /\ isCached \subseteq 1 .. made /\ held \subseteq 1 .. made

\* Whose directory is whose: an entry's is its own, and an executor that uses
\* another's is marked, so that it deletes nothing when it is collected.
Directories ==
    /\ \A o \in 1 .. made : dir[o] \in 0 .. o
    /\ \A o \in Entries : dir[o] = o
    /\ \A o \in 1 .. made \ isCached : dir[o] \in {0, o}
    /\ \A o \in held : dir[o] # 0
    /\ over => held = {}
    /\ ~over => \A o \in Entries : o \in isCached /\ o \in binaries \cup removed

CacheInv ==
    /\ CacheTypes
    /\ Directories
    /\ Binary!OwnersKeepFiles
    /\ Len(cache) <= CacheSize
    /\ Keyed(cache, key)

\* The constructor: what there was keeps its place.
LEMMA Constructed ==
    ASSUME CacheInv, NEW k, NEW cached, Binary!New(k, cached), k \in Keys,
           NEW d \in Nat, d <= made + 1, dir' = Append(dir, d)
    PROVE  /\ made' = made + 1 /\ made' \in Nat /\ ~over
           /\ key' \in Seq(Keys) /\ Len(key') = made' /\ key'[made'] = k
           /\ dir' \in Seq(Nat) /\ Len(dir') = made' /\ dir'[made'] = d
           /\ \A o \in 1 .. made : key'[o] = key[o] /\ dir'[o] = dir[o] /\ dir[o] \in 0 .. o
           /\ 1 .. made' = 1 .. made \cup {made'} /\ made' \notin 1 .. made
           /\ Keyed(cache, key')
<1>1. /\ made' = made + 1 /\ made \in Nat /\ ~over /\ key' = Append(key, k)
      /\ key \in Seq(Keys) /\ Len(key) = made /\ dir \in Seq(Nat) /\ Len(dir) = made
  BY DEF CacheInv, CacheTypes, Binary!New
<1>2. /\ key' \in Seq(Keys) /\ Len(key') = made' /\ key'[made'] = k
      /\ dir' \in Seq(Nat) /\ Len(dir') = made' /\ dir'[made'] = d
      /\ \A o \in 1 .. made : key'[o] = key[o] /\ dir'[o] = dir[o]
  BY <1>1
<1>3. 1 .. made' = 1 .. made \cup {made'} /\ made' \notin 1 .. made
  BY <1>1
<1>4. \A a \in DOMAIN cache : cache[a] \in 1 .. made
  BY DEF CacheInv, CacheTypes, Entries, Binary!ToSet
<1>5. Keyed(cache, key')
  BY <1>2, <1>4 DEF Keyed, CacheInv
<1>6. QED
  BY <1>1, <1>2, <1>3, <1>5 DEF CacheInv, Directories

\* An entry that is used moves to the front.
LEMMA UsedStays ==
    ASSUME NEW S, cache \in Seq(S), NEW j \in DOMAIN cache, NEW K, Keyed(cache, K)
    PROVE  /\ Binary!Used(j) \in Seq(S)
           /\ Len(Binary!Used(j)) = Len(cache)
           /\ Binary!ToSet(Binary!Used(j)) = Entries
           /\ Keyed(Binary!Used(j), K)
<1> DEFINE r == Binary!RemoveAt(cache, j)
<1>1. /\ r \in Seq(S) /\ Len(r) = Len(cache) - 1 /\ Keyed(r, K)
      /\ Binary!ToSet(r) = {cache[a] : a \in DOMAIN cache \ {j}}
  BY Removed
<1>2. cache[j] \in S /\ Len(cache) \in Nat
  OBVIOUS
<1>3. \A y \in Binary!ToSet(r) : K[y] # K[cache[j]]
  BY <1>1 DEF Keyed
<1>4. Binary!Used(j) = <<cache[j]>> \o r
  BY DEF Binary!Used
<1> HIDE DEF r
<1>5. /\ <<cache[j]>> \o r \in Seq(S) /\ Len(<<cache[j]>> \o r) = Len(r) + 1
      /\ Binary!ToSet(<<cache[j]>> \o r) = {cache[j]} \cup Binary!ToSet(r)
      /\ Keyed(<<cache[j]>> \o r, K)
  BY <1>1, <1>2, <1>3, Fronted
<1>6. {cache[j]} \cup Binary!ToSet(r) = Entries
  BY <1>1 DEF Entries, Binary!ToSet
<1>7. Len(r) + 1 = Len(cache)
  BY <1>1, <1>2
<1>8. QED
  BY <1>4, <1>5, <1>6, <1>7

\* A hit: the new executor shares the entry's directory.
LEMMA HitKeeps ==
    ASSUME CacheInv, NEW k \in Keys, Binary!Hit(k)
    PROVE  CacheInv'
<1>1. PICK j \in DOMAIN cache :
        /\ dir[cache[j]] \in binaries
        /\ Binary!New(k, TRUE)
        /\ dir' = Append(dir, dir[cache[j]])
        /\ isCached' = isCached \cup {made + 1}
        /\ held' = held \cup {made + 1}
        /\ cache' = Binary!Used(j)
        /\ UNCHANGED <<binaries, removed, over>>
  BY DEF Binary!Hit, Binary!EntriesFor
<1> DEFINE e == cache[j]
<1>2. e \in Entries /\ e \in 1 .. made /\ dir[e] = e /\ e \in Nat /\ e <= made + 1
  <2>1. e \in Entries
    BY DEF Entries, Binary!ToSet
  <2> HIDE DEF e
  <2>2. e \in 1 .. made /\ made \in Nat
    BY <2>1 DEF CacheInv, CacheTypes
  <2>3. QED
    BY <2>1, <2>2 DEF CacheInv, Directories
<1> HIDE DEF e
<1>3. /\ made' = made + 1 /\ made' \in Nat /\ ~over
      /\ key' \in Seq(Keys) /\ Len(key') = made' /\ key'[made'] = k
      /\ dir' \in Seq(Nat) /\ Len(dir') = made' /\ dir'[made'] = e
      /\ \A o \in 1 .. made : key'[o] = key[o] /\ dir'[o] = dir[o] /\ dir[o] \in 0 .. o
      /\ 1 .. made' = 1 .. made \cup {made'} /\ made' \notin 1 .. made
      /\ Keyed(cache, key')
  BY <1>1, <1>2, Constructed DEF e
<1>4. /\ cache' \in Seq(Nat) /\ Len(cache') = Len(cache) /\ Entries' = Entries
      /\ Keyed(cache', key')
  BY <1>1, <1>3, UsedStays DEF CacheInv, CacheTypes, Entries
<1>5. /\ isCached' = isCached \cup {made'} /\ held' = held \cup {made'}
      /\ isCached \subseteq 1 .. made /\ held \subseteq 1 .. made /\ Entries \subseteq 1 .. made
      /\ Len(cache) <= CacheSize
  BY <1>1, <1>3 DEF CacheInv, CacheTypes
<1>6. CacheTypes'
  BY <1>3, <1>4, <1>5 DEF CacheTypes
<1>7. Directories'
  <2>1. \A o \in 1 .. made' : dir'[o] \in 0 .. o
    BY <1>2, <1>3
  <2>2. \A o \in Entries' : dir'[o] = o
    BY <1>3, <1>4, <1>5 DEF CacheInv, Directories
  <2>3. \A o \in 1 .. made' \ isCached' : dir'[o] \in {0, o}
    BY <1>3, <1>5 DEF CacheInv, Directories
  <2>4. \A o \in held' : dir'[o] # 0
    BY <1>2, <1>3, <1>5 DEF CacheInv, Directories
  <2>5. \A o \in Entries' : o \in isCached' /\ o \in binaries' \cup removed'
    BY <1>1, <1>3, <1>4, <1>5 DEF CacheInv, Directories
  <2>6. QED
    BY <1>1, <1>3, <2>1, <2>2, <2>3, <2>4, <2>5 DEF Directories
<1>8. Binary!OwnersKeepFiles'
  <2>1. e \in binaries'
    BY <1>1, <1>2 DEF e
  <2>2. QED
    BY <1>1, <1>3, <1>4, <1>5, <2>1 DEF CacheInv, Binary!OwnersKeepFiles, Entries
<1>9. QED
  BY <1>4, <1>5, <1>6, <1>7, <1>8 DEF CacheInv

\* A new executor with a directory of its own, or none: what leaves the cache
\* and is not in use may lose its files.
LEMMA Built ==
    ASSUME CacheInv, NEW k \in Keys, NEW cached, Binary!New(k, cached),
           NEW d \in {0, made + 1}, dir' = Append(dir, d),
           cache' \in Seq(Nat), Len(cache') <= CacheSize, Keyed(cache', key'),
           Entries' \subseteq Entries \cup {made + 1},
           \A o \in Entries' : o \in isCached' /\ (o = made + 1 => d = o /\ o \in binaries'),
           isCached' \subseteq isCached \cup {made + 1}, isCached \ isCached' \subseteq Entries,
           held \subseteq held', held' \subseteq held \cup {made + 1},
           \A o \in held' : o = made + 1 => d = o /\ o \in binaries',
           \A o \in binaries \ binaries' : o \notin Entries' /\ o \notin held,
           UNCHANGED <<removed, over>>
    PROVE  CacheInv'
<1>1. /\ made' = made + 1 /\ made' \in Nat /\ ~over
      /\ key' \in Seq(Keys) /\ Len(key') = made' /\ key'[made'] = k
      /\ dir' \in Seq(Nat) /\ Len(dir') = made' /\ dir'[made'] = d
      /\ \A o \in 1 .. made : key'[o] = key[o] /\ dir'[o] = dir[o] /\ dir[o] \in 0 .. o
      /\ 1 .. made' = 1 .. made \cup {made'} /\ made' \notin 1 .. made
  <2>1. made \in Nat
    BY DEF CacheInv, CacheTypes
  <2>2. d \in Nat /\ d <= made + 1
    BY <2>1
  <2>3. QED
    BY <2>2, Constructed
<1>2. /\ isCached \subseteq 1 .. made /\ held \subseteq 1 .. made /\ Entries \subseteq 1 .. made
  BY DEF CacheInv, CacheTypes
<1>3. CacheTypes'
  BY <1>1, <1>2 DEF CacheTypes
<1>4. Directories'
  <2>1. \A o \in 1 .. made' : dir'[o] \in 0 .. o
    <3>1. dir'[made'] \in 0 .. made'
      BY <1>1
    <3>2. QED
      BY <1>1, <3>1
  <2>2. \A o \in Entries' : dir'[o] = o
    BY <1>1, <1>2 DEF CacheInv, Directories
  <2>3. \A o \in 1 .. made' \ isCached' : dir'[o] \in {0, o}
    <3> TAKE o \in 1 .. made' \ isCached'
    <3>1. CASE o = made'
      BY <1>1, <3>1
    <3>2. CASE o # made' /\ o \in isCached
      BY <1>1, <1>2, <3>2 DEF CacheInv, Directories
    <3>3. CASE o # made' /\ o \notin isCached
      BY <1>1, <3>3 DEF CacheInv, Directories
    <3>4. QED
      BY <3>1, <3>2, <3>3
  <2>4. \A o \in held' : dir'[o] # 0
    BY <1>1, <1>2 DEF CacheInv, Directories
  <2>5. \A o \in Entries' : o \in isCached' /\ o \in binaries' \cup removed'
    BY <1>1, <1>2 DEF CacheInv, Directories
  <2>6. QED
    BY <1>1, <2>1, <2>2, <2>3, <2>4, <2>5 DEF Directories
<1>5. Binary!OwnersKeepFiles'
  <2> SUFFICES ASSUME NEW o \in held'
               PROVE  dir'[o] = o \/ dir'[o] \in Entries' => dir'[o] \in binaries' \cup removed'
    BY DEF Binary!OwnersKeepFiles, Entries
  <2>1. CASE o = made'
    BY <1>1, <2>1
  <2>2. CASE o # made'
    <3>1. o \in held /\ o \in 1 .. made /\ dir'[o] = dir[o] /\ dir[o] # made'
      <4>1. o \in held /\ o \in 1 .. made
        BY <1>1, <1>2, <2>2
      <4>2. dir'[o] = dir[o] /\ dir[o] \in 0 .. o
        BY <1>1, <4>1
      <4>3. dir[o] \in 1 .. made \/ dir[o] = 0
        BY <1>1, <4>1, <4>2, SMTT(40)
      <4>4. QED
        BY <1>1, <4>1, <4>2, <4>3
    <3>2. dir[o] = o \/ dir[o] \in Entries => dir[o] \in binaries \cup removed
      BY <3>1 DEF CacheInv, Binary!OwnersKeepFiles, Entries
    <3>3. QED
      BY <1>1, <3>1, <3>2
  <2>3. QED
    BY <2>1, <2>2
<1>6. QED
  BY <1>3, <1>4, <1>5 DEF CacheInv

\* The new entry: one of its key, and the cache is no larger than it may be.
LEMMA StoredIn ==
    ASSUME CacheInv, NEW k \in Keys, Binary!New(k, TRUE), dir' = Append(dir, made + 1),
           Binary!Store(k, made + 1)
    PROVE  /\ cache' \in Seq(Nat) /\ Len(cache') <= CacheSize /\ Keyed(cache', key')
           /\ Entries' \subseteq Entries \cup {made + 1}
           /\ isCached' \subseteq isCached \cup {made + 1}
           /\ \A o \in Entries' : o \in isCached' /\ (o = made + 1 => o \in binaries')
           /\ isCached \ isCached' \subseteq Entries
           /\ \A o \in binaries \ binaries' : o \notin Entries' /\ o \notin held
           /\ made + 1 \in binaries'
<1> DEFINE old == Binary!EntriesFor(k)
           leaves == IF old = {} /\ Len(cache) = CacheSize THEN {CacheSize} ELSE old
           evicted == {cache[j] : j \in leaves \ old}
           doomed == {dir[p] : p \in evicted \ held}
           rest == IF leaves = {} THEN cache ELSE Binary!RemoveAt(cache, CHOOSE j \in leaves : TRUE)
<1>1. /\ cache' = <<made + 1>> \o rest
      /\ isCached' = (isCached \ evicted) \cup {made + 1}
      /\ binaries' = (binaries \ doomed) \cup {made + 1}
  BY DEF Binary!Store
<1>2. /\ made' = made + 1 /\ made' \in Nat /\ ~over /\ key'[made'] = k
      /\ \A o \in 1 .. made : key'[o] = key[o]
      /\ made' \notin 1 .. made /\ Keyed(cache, key')
  <2>1. made \in Nat
    BY DEF CacheInv, CacheTypes
  <2>2. made + 1 \in Nat /\ made + 1 <= made + 1
    BY <2>1
  <2>3. QED
    BY <2>2, Constructed
<1>3. /\ cache \in Seq(Nat) /\ Entries \subseteq 1 .. made /\ Len(cache) \in Nat
      /\ Len(cache) <= CacheSize /\ DOMAIN cache = 1 .. Len(cache)
      /\ \A j \in DOMAIN cache : cache[j] \in Entries
      /\ \A o \in Entries : dir[o] = o /\ o \in isCached
  BY <1>2 DEF CacheInv, CacheTypes, Directories, Entries, Binary!ToSet
<1>4. old \subseteq DOMAIN cache /\ \A j \in DOMAIN cache : j \in old <=> key'[cache[j]] = k
  BY <1>2, <1>3 DEF Binary!EntriesFor
<1>5. leaves \subseteq DOMAIN cache /\ (leaves = {} => Len(cache) < CacheSize)
  <2>1. CASE old = {} /\ Len(cache) = CacheSize
    <3>1. leaves = {CacheSize}
      BY <2>1
    <3>2. CacheSize \in DOMAIN cache
      BY <1>3, <2>1, CacheAssumption
    <3>3. QED
      BY <3>1, <3>2
  <2>2. CASE ~(old = {} /\ Len(cache) = CacheSize)
    <3>1. leaves = old
      BY <2>2
    <3>2. old = {} => Len(cache) < CacheSize
      <4>1. Len(cache) # CacheSize => Len(cache) < CacheSize
        <5>1. Len(cache) \in Nat /\ CacheSize \in Nat /\ Len(cache) <= CacheSize
          BY <1>3, CacheAssumption
        <5>2. QED
          BY <5>1
      <4>2. QED
        BY <2>2, <4>1
    <3>3. QED
      BY <1>4, <3>1, <3>2
  <2>3. QED
    BY <2>1, <2>2
<1>6. \A n, j \in leaves : n = j
  <2>1. \A n, j \in old : n = j
    BY <1>2, <1>4 DEF Keyed
  <2>2. QED
    BY <2>1
<1>7. evicted \subseteq Entries /\ doomed \subseteq evicted \ held
  BY <1>3, <1>5
<1>8. /\ rest \in Seq(Nat) /\ Len(rest) < CacheSize /\ Keyed(rest, key')
      /\ Binary!ToSet(rest) = {cache[a] : a \in DOMAIN cache \ leaves}
  <2>1. CASE leaves = {}
    BY <1>2, <1>3, <1>5, <2>1 DEF Binary!ToSet
  <2>2. CASE leaves # {}
    <3> DEFINE j == CHOOSE j \in leaves : TRUE
    <3>1. j \in leaves /\ leaves = {j} /\ j \in DOMAIN cache
      BY <1>5, <1>6, <2>2
    <3>2. rest = Binary!RemoveAt(cache, j)
      BY <2>2
    <3> HIDE DEF j, leaves, rest
    <3> DEFINE less == Binary!RemoveAt(cache, j)
    <3>3. /\ less \in Seq(Nat) /\ Len(less) = Len(cache) - 1 /\ Keyed(less, key')
          /\ Binary!ToSet(less) = {cache[a] : a \in DOMAIN cache \ {j}}
      <4>1. cache \in Seq(Nat) /\ j \in DOMAIN cache /\ Keyed(cache, key')
        BY <1>2, <1>3, <3>1
      <4>2. QED
        BY <4>1, Removed
    <3> HIDE DEF less
    <3>4. rest = less
      BY <3>2 DEF less
    <3>5. QED
      BY <1>3, <3>1, <3>3, <3>4, CacheAssumption
  <2>3. QED
    BY <2>1, <2>2
<1> DEFINE left == {cache[a] : a \in DOMAIN cache \ leaves}
<1>9. left \subseteq Entries /\ \A y \in left : key'[y] # key'[made'] /\ y \notin evicted
  <2>1. old \subseteq leaves
    BY <1>5
  <2>2. \A a \in DOMAIN cache \ leaves : key'[cache[a]] # k
    BY <1>4, <2>1
  <2>3. \A a \in DOMAIN cache \ leaves : \A b \in leaves : cache[a] # cache[b]
    BY <1>2, <1>5 DEF Keyed
  <2>4. QED
    BY <1>2, <1>3, <2>2, <2>3
<1> HIDE DEF old, leaves, rest, evicted, doomed
<1>10. /\ <<made'>> \o rest \in Seq(Nat) /\ Len(<<made'>> \o rest) = Len(rest) + 1
       /\ Binary!ToSet(<<made'>> \o rest) = {made'} \cup left
       /\ Keyed(<<made'>> \o rest, key')
  BY <1>2, <1>8, <1>9, Fronted
<1>11. Entries' = {made'} \cup left
  BY <1>1, <1>2, <1>10 DEF Entries
<1>12. Len(rest) + 1 <= CacheSize
  BY <1>8, CacheAssumption
<1> HIDE DEF left
<1>13. \A o \in Entries' : o \in isCached' /\ (o = made + 1 => o \in binaries')
  BY <1>1, <1>2, <1>3, <1>9, <1>11
<1>14. \A o \in binaries \ binaries' : o \notin Entries' /\ o \notin held
  BY <1>1, <1>2, <1>7, <1>9, <1>11
<1>15. QED
  BY <1>1, <1>2, <1>3, <1>7, <1>9, <1>10, <1>11, <1>12, <1>13, <1>14

LEMMA CompileKeeps ==
    ASSUME CacheInv, NEW k \in Keys,
           Binary!Compile(k) \/ Binary!CompileFails(k) \/ Binary!CompileUncached(k)
    PROVE  CacheInv'
<1>1. CASE Binary!Compile(k)
  <2>1. /\ Binary!New(k, TRUE) /\ dir' = Append(dir, made + 1) /\ Binary!Store(k, made + 1)
        /\ held' = held \cup {made + 1} /\ UNCHANGED <<removed, over>>
    BY <1>1 DEF Binary!Compile
  <2>2. QED
    BY <2>1, StoredIn, Built
<1>2. CASE Binary!CompileFails(k)
  <2>1. /\ Binary!New(k, TRUE) /\ dir' = Append(dir, made + 1)
        /\ isCached' = isCached \cup {made + 1}
        /\ UNCHANGED <<held, binaries, removed, over>>
    BY <1>2 DEF Binary!CompileFails
  <2>2. Keyed(cache, key') /\ ~over
    <3>1. made \in Nat
      BY DEF CacheInv, CacheTypes
    <3>2. made + 1 \in Nat /\ made + 1 <= made + 1
      BY <3>1
    <3>3. QED
      BY <2>1, <3>2, Constructed
  <2>3. /\ cache' \in Seq(Nat) /\ Len(cache') = Len(cache) /\ Entries' = Entries
        /\ Keyed(cache', key')
    <3>1. CASE cache' = cache
      BY <2>2, <3>1 DEF CacheInv, CacheTypes, Entries
    <3>2. CASE cache' # cache
      <4>1. PICK j \in DOMAIN cache : cache' = Binary!Used(j)
        BY <1>2, <3>2 DEF Binary!CompileFails, Binary!EntriesFor
      <4>2. cache \in Seq(Nat)
        BY DEF CacheInv, CacheTypes
      <4>3. QED
        BY <2>2, <4>1, <4>2, UsedStays DEF Entries
    <3>3. QED
      BY <3>1, <3>2
  <2>4. made + 1 \notin Entries /\ made + 1 \notin held /\ \A o \in Entries : o \in isCached
    BY <2>2 DEF CacheInv, CacheTypes, Directories
  <2>5. Len(cache') <= CacheSize
    BY <2>3 DEF CacheInv
  <2>6. QED
    BY <2>1, <2>3, <2>4, <2>5, Built
<1>3. CASE Binary!CompileUncached(k)
  <2> DEFINE Own(d) ==
          /\ dir' = Append(dir, d)
          /\ binaries \subseteq binaries'
          /\ held \subseteq held' /\ held' \subseteq held \cup {made + 1}
          /\ made + 1 \in held' => made + 1 \in held \/ (d = made + 1 /\ made + 1 \in binaries')
  <2>0. Binary!New(k, FALSE) /\ UNCHANGED <<isCached, cache, removed, over>>
    BY <1>3 DEF Binary!CompileUncached
  <2>1. PICK d \in {0, made + 1} : Own(d)
    <3>1. CASE /\ dir' = Append(dir, made + 1)
               /\ binaries' = binaries \cup {made + 1} /\ held' = held \cup {made + 1}
      <4>1. Own(made + 1)
        BY <3>1
      <4>2. QED
        BY <4>1
    <3>2. CASE dir' = Append(dir, 0) /\ binaries' = binaries /\ held' = held
      <4>1. held \subseteq held' /\ held' \subseteq held \cup {made + 1} /\ binaries \subseteq binaries'
        BY <3>2
      <4>2. Own(0)
        BY <3>2, <4>1
      <4>3. QED
        BY <4>2
    <3>3. QED
      BY <1>3, <3>1, <3>2 DEF Binary!CompileUncached, Binary!NoFiles
  <2>2. made \in Nat
    BY DEF CacheInv, CacheTypes
  <2>3. d \in Nat /\ d <= made + 1
    BY <2>1, <2>2
  <2>4. Keyed(cache, key') /\ ~over
    BY <2>0, <2>1, <2>3, Constructed
  <2>5. made + 1 \notin Entries /\ made + 1 \notin held /\ \A o \in Entries : o \in isCached
    BY <2>2, <2>4 DEF CacheInv, CacheTypes, Directories
  <2>6. cache' \in Seq(Nat) /\ Len(cache') <= CacheSize /\ Keyed(cache', key') /\ Entries' = Entries
    BY <2>0, <2>4 DEF CacheInv, CacheTypes, Entries
  <2>7. QED
    BY <2>0, <2>1, <2>5, <2>6, Built
<1>4. QED
  BY <1>1, <1>2, <1>3

\* An executor that is collected takes its own files along, and nobody's who
\* may still want them.
LEMMA ReleaseKeeps ==
    ASSUME CacheInv, NEW o \in Binary!Ids, Binary!Release(o)
    PROVE  CacheInv'
<1>1. /\ o \in held /\ held' = held \ {o}
      /\ binaries' = binaries \ {dir[p] : p \in ({o} \ Entries) \ isCached}
      /\ UNCHANGED <<made, key, dir, isCached, cache, removed, over>>
  BY DEF Binary!Release, Binary!Clean, Entries
<1>2. o \in 1 .. made /\ dir[o] # 0 /\ held # {}
  BY <1>1 DEF CacheInv, CacheTypes, Directories
<1>3. binaries' = binaries \/ (o \notin Entries /\ binaries' = binaries \ {o})
  <2>1. CASE o \in Entries \/ o \in isCached
    BY <1>1, <2>1
  <2>2. CASE o \notin Entries /\ o \notin isCached
    <3>1. dir[o] = o
      BY <1>2, <2>2 DEF CacheInv, Directories
    <3>2. QED
      BY <1>1, <2>2, <3>1
  <2>3. QED
    BY <2>1, <2>2
<1>4. CacheTypes' /\ Entries' = Entries
  BY <1>1 DEF CacheInv, CacheTypes, Entries
<1>5. Directories'
  BY <1>1, <1>3, <1>4 DEF CacheInv, Directories
<1>6. Binary!OwnersKeepFiles'
  BY <1>1, <1>3, <1>4 DEF CacheInv, Binary!OwnersKeepFiles, Entries
<1>7. QED
  BY <1>1, <1>4, <1>5, <1>6 DEF CacheInv, Keyed

LEMMA EndKeeps ==
    ASSUME CacheInv, Binary!End
    PROVE  CacheInv'
<1>1. /\ over' = TRUE /\ held' = {} /\ isCached' = isCached \ Entries
      /\ UNCHANGED <<made, key, dir, cache, removed>>
  BY DEF Binary!End, Entries
<1>2. CacheTypes' /\ Entries' = Entries
  BY <1>1 DEF CacheInv, CacheTypes, Entries
<1>3. Directories'
  <2>1. \A p \in 1 .. made \ isCached' : dir[p] \in {0, p}
    BY <1>1 DEF CacheInv, Directories
  <2>2. QED
    BY <1>1, <1>2, <2>1 DEF CacheInv, Directories
<1>4. QED
  BY <1>1, <1>2, <1>3 DEF CacheInv, Keyed, Binary!OwnersKeepFiles

\* Whatever is compiled, served, evicted, collected and taken away: the cache
\* is bounded, has one entry of a key, and no files go that a compiling executor
\* in use or an entry still owns.  What an eviction takes from an executor it was
\* served to is not promised (compiled_executor.py, pylru).
THEOREM CacheAlwaysSound ==
    Binary!CacheInit /\ [][Binary!CacheNext]_executorVars => []CacheSound
<1>1. Binary!CacheInit => CacheInv
  <2> SUFFICES ASSUME Binary!CacheInit PROVE CacheInv
    OBVIOUS
  <2>1. /\ made = 0 /\ key = <<>> /\ dir = <<>> /\ cache = <<>>
        /\ isCached = {} /\ held = {} /\ over = FALSE
    BY DEF Binary!CacheInit
  <2>2. Entries = {} /\ Len(cache) = 0 /\ cache \in Seq(Nat)
    BY <2>1 DEF Entries, Binary!ToSet
  <2>3. CacheTypes
    BY <2>1, <2>2 DEF CacheTypes
  <2>4. Directories
    BY <2>1, <2>2 DEF Directories
  <2>5. Len(cache) <= CacheSize /\ Keyed(cache, key) /\ Binary!OwnersKeepFiles
    BY <2>1, <2>2, CacheAssumption DEF Keyed, Binary!OwnersKeepFiles
  <2>6. QED
    BY <2>3, <2>4, <2>5 DEF CacheInv
<1>2. CacheInv /\ [Binary!CacheNext]_executorVars => CacheInv'
  <2> SUFFICES ASSUME CacheInv, [Binary!CacheNext]_executorVars PROVE CacheInv'
    OBVIOUS
  <2>1. ASSUME NEW o \in Binary!Ids, Binary!TakeFiles(o) PROVE CacheInv'
    <3>1. /\ \A p \in binaries : p \in binaries' \cup removed'
          /\ removed \subseteq removed'
          /\ UNCHANGED <<made, key, dir, isCached, held, cache, over>>
      BY <2>1 DEF Binary!TakeFiles
    <3>2. CacheTypes' /\ Entries' = Entries
      BY <3>1 DEF CacheInv, CacheTypes, Entries
    <3>3. Directories'
      BY <3>1, <3>2 DEF CacheInv, Directories
    <3>4. Binary!OwnersKeepFiles'
      BY <3>1, <3>2 DEF CacheInv, Binary!OwnersKeepFiles, Entries
    <3>5. QED
      BY <3>1, <3>2, <3>3, <3>4 DEF CacheInv, Keyed
  <2>2. CASE UNCHANGED executorVars
    BY <2>2 DEF executorVars, CacheInv, CacheTypes, Directories, Entries, Keyed, Binary!OwnersKeepFiles
  <2>3. QED
    BY <2>1, <2>2, HitKeeps, CompileKeeps, ReleaseKeeps, EndKeeps DEF Binary!CacheNext
<1>3. CacheInv => CacheSound
  <2> SUFFICES ASSUME CacheInv PROVE CacheSound
    OBVIOUS
  <2>1. ~over => \A o \in Binary!ToSet(cache) : o \in isCached /\ dir[o] \in binaries \cup removed
    BY DEF CacheInv, Directories, Entries
  <2>2. \A n, j \in DOMAIN cache : key[cache[n]] = key[cache[j]] => n = j
    BY DEF CacheInv, Keyed
  <2>3. QED
    BY <2>1, <2>2 DEF CacheInv, CacheSound, Binary!CacheSound
<1>4. QED
  BY <1>1, <1>2, <1>3, PTL

-------------------------------------------------------------------------------
(* Which cases are graded: results come in the order of the cases, and what   *)
(* the loop's variables say of a batch is what its cases came to.            *)

CaseTypes == [batch : Nat, no : Nat, points : Int, pretest : BOOLEAN]
GroupMessages ==
    [kind : {"COMPILE_ERROR", "GRADING_BEGIN", "BATCH_BEGIN", "BATCH_END", "GRADING_END",
             "GRADING_ABORTED"}, batch : Nat]
ResultMessages ==
    [kind : {"RESULT"}, batch : Nat, number : Nat, status : {"SC", "passed", "failed"}]

GradeTypes ==
    /\ problem \in [tests : Seq(EntryTypes), pretests : Seq(EntryTypes)]
    /\ pretestsOnly \in BOOLEAN /\ short \in BOOLEAN
    /\ flat \in Seq(CaseTypes)
    /\ sent \in Seq(GroupMessages \cup ResultMessages)
    /\ i \in 1 .. Len(flat) + 1
    /\ batch \in Nat /\ isSC \in BOOLEAN /\ enabled \in BOOLEAN

\* The case n was reported with the status s.
Reported(n, s) == \E m \in Grade!Results : m.number = n /\ m.status = s

NotPassed(n) == \E s \in {"failed", "SC"} : Reported(n, s)

DepsOf(b) == IF b = 0 THEN {} ELSE Grade!Deps(b)

\* What DependenciesNamed says, in the numbers of the worker.
Dependencies ==
    \A m \in Grade!Results : m.batch # 0 /\ m.status # "SC" =>
        \A d \in Grade!Deps(m.batch) :
            /\ \E n \in DOMAIN flat : flat[n].batch = d
            /\ \A n \in DOMAIN flat : flat[n].batch = d =>
                 n < m.number /\ \E x \in Grade!Results : x.number = n /\ x.status = "passed"

\* What Cause says, in the numbers of the worker and of the results alone.
Why(n) ==
    \/ Reported(n, "failed")
    \/ \E d \in DepsOf(flat[n].batch) : \A k \in 1 .. n - 1 :
          flat[k].batch = d => \E j \in 1 .. n - 1 : flat[j].batch = d /\ NotPassed(j)

\* groupby meets a batch once.
Grouped ==
    \A p, q, r \in DOMAIN flat :
       p <= q /\ q <= r /\ flat[p].batch = flat[r].batch /\ flat[p].batch # 0
          => flat[q].batch = flat[p].batch

\* Every case before the one under the loop has one result, and no other has.
ResultsInOrder ==
    /\ \A n \in 1 .. i - 1 : \E m \in Grade!Results : m.number = n
    /\ \A m \in Grade!Results : m.number \in 1 .. i - 1 /\ m.batch = flat[m.number].batch
    /\ \A m, x \in Grade!Results : m.number = x.number => m = x

\* A group begins with a batch that is new, and has a case.
Groups ==
    /\ pc = "group" /\ i <= Len(flat) /\ flat[i].batch # 0 =>
         \A n \in 1 .. i - 1 : flat[n].batch # flat[i].batch
    /\ pc = "case" => Grade!InGroup \/ (i > 1 /\ flat[i - 1].batch = batch)

\* What it takes for a batch to be among the passed ones, or not.
PassedAll ==
    \A d \in passed :
       /\ \E n \in DOMAIN flat : flat[n].batch = d
       /\ \A n \in DOMAIN flat : flat[n].batch = d => n < i /\ Reported(n, "passed")

NotPassedAll ==
    pc \in {"group", "case"} => \A k \in 1 .. i - 1 :
       flat[k].batch \notin passed \cup {0} /\ (pc = "case" => flat[k].batch # batch) =>
          \E n \in 1 .. i - 1 : flat[n].batch = flat[k].batch /\ NotPassed(n)

\* Batches are numbered from 1.
NoneOnZero == \A n \in DOMAIN flat : 0 \notin DepsOf(flat[n].batch)

\* What is_short_circuiting says of the batch under the loop.
ShortCircuit ==
    pc = "case" /\ batch # 0 =>
       /\ ~isSC => /\ DepsOf(batch) \subseteq passed
                   /\ \A m \in Grade!Results : m.batch = batch => m.status = "passed"
       /\ isSC /\ (\E n \in 1 .. i - 1 : flat[n].batch = batch) =>
            \E n \in 1 .. i - 1 : flat[n].batch = batch /\ NotPassed(n)

\* A failure that is to end it all does; and nothing else does.
Enabled ==
    /\ short => enabled
    /\ enabled => short \/ \E n \in 1 .. i - 1 : Reported(n, "failed") /\ flat[n].points = 0
    /\ \A m \in Grade!Results :
         m.status = "failed" /\ (short \/ flat[m.number].points = 0) => isSC /\ enabled

Reason ==
    isSC /\ pc \in {"group", "case"} =>
       \E n \in DOMAIN flat :
          /\ n <= i /\ Why(n)
          /\ enabled \/ (pc = "case" /\ flat[n].batch # 0 /\ flat[n].batch = batch)

SkipsHaveReason ==
    \A m \in Grade!Results : m.status = "SC" =>
        \E n \in 1 .. m.number :
            /\ Why(n)
            /\ \/ flat[n].batch # 0 /\ flat[n].batch = m.batch
               \/ short
               \/ \E k \in 1 .. m.number : Reported(k, "failed") /\ flat[k].points = 0

Begun ==
    pc = "resolve" =>
       /\ i = 1 /\ flat = <<>> /\ passed = {} /\ isSC = FALSE /\ enabled = short
       /\ sent = <<>>

\* The inductive invariant of the grading.
GradeInv ==
    /\ GradeTypes /\ Grouped /\ ResultsInOrder /\ Groups /\ PassedAll /\ NotPassedAll
    /\ NoneOnZero /\ ShortCircuit /\ Enabled /\ Reason /\ Begun
    /\ Dependencies /\ Grade!FailureStops /\ SkipsHaveReason

\* The entries, and so the dependencies, are those of the problem.
LEMMA SettingKept ==
    ASSUME UNCHANGED <<problem, pretestsOnly>>
    PROVE  \A b : DepsOf(b)' = DepsOf(b)
BY DEF DepsOf, Grade!Deps, Grade!Entries, Grade!BatchNumber, Grade!Settled, Grade!CaseList,
       Grade!AsPretest, Grade!Batch, Grade!Single, Grade!Inherited

\* A message that is no result.
LEMMA Announced ==
    ASSUME GradeTypes, NEW m \in GroupMessages, sent' = Append(sent, m)
    PROVE  sent' \in Seq(GroupMessages \cup ResultMessages) /\ Grade!Results' = Grade!Results
<1>1. /\ sent' \in Seq(GroupMessages \cup ResultMessages)
      /\ DOMAIN sent' = DOMAIN sent \cup {Len(sent) + 1}
      /\ \A k \in DOMAIN sent : sent'[k] = sent[k]
      /\ sent'[Len(sent) + 1] = m
  BY DEF GradeTypes
<1>2. m.kind # "RESULT"
  BY DEF GroupMessages
<1>3. QED
  BY <1>1, <1>2 DEF Grade!Results

LEMMA ResultTypes == GradeTypes => Grade!Results \subseteq ResultMessages
BY DEF GradeTypes, Grade!Results, GroupMessages, ResultMessages

\* With the same results of the same cases, what was said of them holds.
LEMMA NothingReported ==
    ASSUME UNCHANGED <<problem, pretestsOnly, short, flat>>, Grade!Results' = Grade!Results
    PROVE  /\ \A n, s : Reported(n, s)' = Reported(n, s)
           /\ \A n : NotPassed(n)' = NotPassed(n)
           /\ \A n : Why(n)' = Why(n)
           /\ SkipsHaveReason => SkipsHaveReason'
           /\ Grade!FailureStops => Grade!FailureStops'
           /\ Dependencies => Dependencies'
           /\ Grouped => Grouped'
           /\ NoneOnZero => NoneOnZero'
<1>1. \A b : DepsOf(b)' = DepsOf(b)
  BY SettingKept
<1>2. \A n, s : Reported(n, s)' = Reported(n, s)
  BY DEF Reported
<1>3. \A n : NotPassed(n)' = NotPassed(n)
  BY <1>2 DEF NotPassed
<1>4. \A n : Why(n)' = Why(n)
  BY <1>1, <1>2, <1>3 DEF Why
<1>5. SkipsHaveReason => SkipsHaveReason'
  BY <1>2, <1>4 DEF SkipsHaveReason
<1>6. Grade!FailureStops => Grade!FailureStops'
  BY DEF Grade!FailureStops
<1>7. Dependencies => Dependencies'
  <2>1. \A b : b # 0 => Grade!Deps(b)' = Grade!Deps(b)
    BY <1>1 DEF DepsOf
  <2>2. QED
    BY <2>1 DEF Dependencies
<1>8. (Grouped => Grouped') /\ (NoneOnZero => NoneOnZero')
  BY <1>1 DEF Grouped, NoneOnZero
<1>9. QED
  BY <1>2, <1>3, <1>4, <1>5, <1>6, <1>7, <1>8

\* The case under the loop has a result.
LEMMA OneReported ==
    ASSUME GradeTypes, ResultsInOrder, Grade!InGroup, NEW s \in {"SC", "passed", "failed"},
           Grade!Report(s), UNCHANGED <<problem, pretestsOnly, short, flat, batch>>
    PROVE  \E m \in ResultMessages :
              /\ m.number = i /\ m.status = s /\ m.batch = batch /\ m.batch = flat[i].batch
              /\ Grade!Results' = Grade!Results \cup {m}
              /\ sent' \in Seq(GroupMessages \cup ResultMessages)
              /\ i' = i + 1 /\ i' \in 1 .. Len(flat) + 1 /\ i \in DOMAIN flat
              /\ ResultsInOrder'
              /\ Reported(m.number, s)'
              /\ \A n, t : Reported(n, t) => Reported(n, t)'
              /\ \A n : NotPassed(n) => NotPassed(n)'
              /\ \A n : Why(n) => Why(n)'
              /\ \A x \in Grade!Results : x.number < i
<1>1. i \in 1 .. Len(flat) /\ i \in Nat /\ Len(flat) \in Nat /\ flat[i].batch = batch
      /\ DOMAIN flat = 1 .. Len(flat)
  BY DEF GradeTypes, Grade!InGroup
<1>2. PICK m \in ResultMessages :
        m = [kind |-> "RESULT", batch |-> batch, number |-> i, status |-> s]
  BY <1>1 DEF GradeTypes, ResultMessages
<1>3. sent' = Append(sent, m) /\ i' = i + 1
  BY <1>2 DEF Grade!Report
<1>4. /\ sent' \in Seq(GroupMessages \cup ResultMessages)
      /\ DOMAIN sent' = DOMAIN sent \cup {Len(sent) + 1}
      /\ \A k \in DOMAIN sent : sent'[k] = sent[k]
      /\ sent'[Len(sent) + 1] = m
  BY <1>3 DEF GradeTypes
<1>5. m.kind = "RESULT" /\ m.number = i /\ m.status = s /\ m.batch = batch
  BY <1>2
<1>6. Grade!Results' = Grade!Results \cup {m}
  BY <1>4, <1>5 DEF Grade!Results
<1>7. \A x \in Grade!Results : x.number \in 1 .. i - 1
  BY DEF ResultsInOrder
<1>8. ResultsInOrder'
  <2>1. ASSUME NEW n \in 1 .. i PROVE \E x \in Grade!Results' : x.number = n
    <3>1. CASE n = i
      BY <1>5, <1>6, <3>1
    <3>2. CASE n # i
      <4>1. n \in 1 .. i - 1
        BY <1>1, <3>2
      <4>2. QED
        BY <1>6, <4>1 DEF ResultsInOrder
    <3>3. QED
      BY <3>1, <3>2
  <2>2. ASSUME NEW x \in Grade!Results'
        PROVE  x.number \in 1 .. i /\ x.batch = flat[x.number].batch
    <3>1. CASE x = m
      BY <1>1, <1>5, <3>1
    <3>2. CASE x \in Grade!Results
      BY <1>1, <1>7, <3>2 DEF ResultsInOrder
    <3>3. QED
      BY <1>6, <3>1, <3>2
  <2>3. ASSUME NEW x \in Grade!Results', NEW y \in Grade!Results', x.number = y.number
        PROVE  x = y
    BY <1>1, <1>5, <1>6, <1>7, <2>3 DEF ResultsInOrder
  <2>4. i' - 1 = i
    BY <1>1, <1>3
  <2>5. QED
    BY <2>1, <2>2, <2>3, <2>4 DEF ResultsInOrder
<1>9. /\ Reported(m.number, s)'
      /\ \A n, t : Reported(n, t) => Reported(n, t)'
  <2>1. Reported(m.number, s)'
    BY <1>5, <1>6 DEF Reported
  <2>2. \A n, t : Reported(n, t) => Reported(n, t)'
    BY <1>6 DEF Reported
  <2>3. QED
    BY <2>1, <2>2
<1>10. \A n : NotPassed(n) => NotPassed(n)'
  BY <1>9 DEF NotPassed
<1>11. \A b : DepsOf(b)' = DepsOf(b)
  BY SettingKept
<1>12. \A n : Why(n) => Why(n)'
  <2> SUFFICES ASSUME NEW n, Why(n) PROVE Why(n)'
    OBVIOUS
  <2>1. CASE Reported(n, "failed")
    BY <1>9, <2>1 DEF Why
  <2>2. CASE \E d \in DepsOf(flat[n].batch) : \A k \in 1 .. n - 1 :
                flat[k].batch = d => \E j \in 1 .. n - 1 : flat[j].batch = d /\ NotPassed(j)
    BY <1>10, <1>11, <2>2 DEF Why
  <2>3. QED
    BY <2>1, <2>2 DEF Why
<1>13. i' \in 1 .. Len(flat) + 1
  BY <1>1, <1>3
<1>14. \A x \in Grade!Results : x.number < i
  BY <1>1, <1>7
<1>15. QED
  BY <1>1, <1>2, <1>3, <1>4, <1>5, <1>6, <1>8, <1>9, <1>10, <1>12, <1>13, <1>14

\* Between the cases nothing is reported: these stay as they are.
LEMMA NothingCounted ==
    ASSUME GradeInv, UNCHANGED <<problem, pretestsOnly, short, flat, i>>,
           Grade!Results' = Grade!Results
    PROVE  /\ Grouped' /\ NoneOnZero' /\ ResultsInOrder'
           /\ Dependencies' /\ Grade!FailureStops' /\ SkipsHaveReason'
BY NothingReported DEF GradeInv, ResultsInOrder

LEMMA GiveUpKeeps ==
    ASSUME GradeInv, Grade!GiveUp
    PROVE  GradeInv'
<1>1. /\ UNCHANGED <<problem, pretestsOnly, short, flat, i, batch, isSC, enabled, passed>>
      /\ pc' \in {"raised", "end"}
  BY DEF Grade!GiveUp, Grade!setting
<1>2. sent' \in Seq(GroupMessages \cup ResultMessages) /\ Grade!Results' = Grade!Results
  <2>1. CASE sent' = sent
    BY <2>1 DEF GradeInv, GradeTypes, Grade!Results
  <2>2. CASE Grade!Send("GRADING_ABORTED")
    <3>1. PICK m \in GroupMessages : m = [kind |-> "GRADING_ABORTED", batch |-> batch]
      BY DEF GradeInv, GradeTypes, GroupMessages
    <3>2. QED
      BY <2>2, <3>1, Announced DEF GradeInv, Grade!Send
  <2>3. QED
    BY <2>1, <2>2 DEF Grade!GiveUp
<1>3. /\ Grouped' /\ NoneOnZero' /\ ResultsInOrder'
      /\ Dependencies' /\ Grade!FailureStops' /\ SkipsHaveReason'
  BY <1>1, <1>2, NothingCounted
<1>4. /\ \A n, s : Reported(n, s)' = Reported(n, s)
      /\ \A n : NotPassed(n)' = NotPassed(n)
  BY <1>1, <1>2, NothingReported
<1>5. GradeTypes'
  BY <1>1, <1>2 DEF GradeInv, GradeTypes
<1>6. Groups' /\ NotPassedAll' /\ ShortCircuit' /\ Reason' /\ Begun'
  BY <1>1 DEF Groups, NotPassedAll, ShortCircuit, Reason, Begun
<1>7. PassedAll' /\ Enabled'
  BY <1>1, <1>2, <1>4 DEF GradeInv, PassedAll, Enabled
<1>8. QED
  BY <1>3, <1>5, <1>6, <1>7 DEF GradeInv

LEMMA GradeEndKeeps ==
    ASSUME GradeInv, Grade!End
    PROVE  GradeInv'
<1>1. /\ UNCHANGED <<problem, pretestsOnly, short, flat, i, batch, isSC, enabled, passed>>
      /\ pc' = "end" /\ sent' = Append(sent, [kind |-> "GRADING_END", batch |-> 0])
  BY DEF Grade!End, Grade!setting
<1>2. sent' \in Seq(GroupMessages \cup ResultMessages) /\ Grade!Results' = Grade!Results
  <2>1. PICK m \in GroupMessages : m = [kind |-> "GRADING_END", batch |-> 0]
    BY DEF GroupMessages
  <2>2. QED
    BY <1>1, <2>1, Announced DEF GradeInv
<1>3. /\ Grouped' /\ NoneOnZero' /\ ResultsInOrder'
      /\ Dependencies' /\ Grade!FailureStops' /\ SkipsHaveReason'
  BY <1>1, <1>2, NothingCounted
<1>4. /\ \A n, s : Reported(n, s)' = Reported(n, s)
      /\ \A n : NotPassed(n)' = NotPassed(n)
  BY <1>1, <1>2, NothingReported
<1>5. GradeTypes'
  BY <1>1, <1>2 DEF GradeInv, GradeTypes
<1>6. Groups' /\ NotPassedAll' /\ ShortCircuit' /\ Reason' /\ Begun'
  BY <1>1 DEF Groups, NotPassedAll, ShortCircuit, Reason, Begun
<1>7. PassedAll' /\ Enabled'
  BY <1>1, <1>2, <1>4 DEF GradeInv, PassedAll, Enabled
<1>8. QED
  BY <1>3, <1>5, <1>6, <1>7 DEF GradeInv

LEMMA BeginGroupKeeps ==
    ASSUME GradeInv, Grade!BeginGroup
    PROVE  GradeInv'
<1>0. /\ i \in DOMAIN flat /\ DOMAIN flat = 1 .. Len(flat) /\ flat[i].batch \in Nat
      /\ i \in Nat /\ Len(flat) \in Nat
  <2>1. flat \in Seq(CaseTypes) /\ i \in 1 .. Len(flat) + 1 /\ i <= Len(flat)
    BY DEF GradeInv, GradeTypes, Grade!BeginGroup
  <2>2. i \in DOMAIN flat /\ DOMAIN flat = 1 .. Len(flat) /\ i \in Nat /\ Len(flat) \in Nat
    BY <2>1
  <2>3. flat[i] \in CaseTypes
    BY <2>1, <2>2
  <2>4. QED
    BY <2>2, <2>3 DEF CaseTypes
<1>1. PICK b \in Nat :
        /\ b = flat[i].batch /\ i \in DOMAIN flat /\ DOMAIN flat = 1 .. Len(flat)
        /\ i \in Nat /\ Len(flat) \in Nat
        /\ pc = "group" /\ pc' = "case" /\ batch' = b
        /\ isSC' = (isSC \/ (b # 0 /\ ~(Grade!Deps(b) \subseteq passed)))
        /\ sent' = IF b = 0 THEN sent ELSE Append(sent, [kind |-> "BATCH_BEGIN", batch |-> b])
        /\ UNCHANGED <<problem, pretestsOnly, short, flat, i, enabled, passed>>
  BY <1>0 DEF Grade!BeginGroup, Grade!setting
<1>2. sent' \in Seq(GroupMessages \cup ResultMessages) /\ Grade!Results' = Grade!Results
  <2>1. CASE b = 0
    BY <1>1, <2>1 DEF GradeInv, GradeTypes, Grade!Results
  <2>2. CASE b # 0
    <3>1. PICK m \in GroupMessages : m = [kind |-> "BATCH_BEGIN", batch |-> b]
      BY DEF GroupMessages
    <3>2. QED
      BY <1>1, <2>2, <3>1, Announced DEF GradeInv
  <2>3. QED
    BY <2>1, <2>2
<1>3. /\ Grouped' /\ NoneOnZero' /\ ResultsInOrder'
      /\ Dependencies' /\ Grade!FailureStops' /\ SkipsHaveReason'
  BY <1>1, <1>2, NothingCounted
<1>4. /\ \A n, s : Reported(n, s)' = Reported(n, s)
      /\ \A n : NotPassed(n)' = NotPassed(n)
      /\ \A n : Why(n)' = Why(n)
  BY <1>1, <1>2, NothingReported
<1>5. GradeTypes'
  <2>1. isSC' \in BOOLEAN
    BY <1>1 DEF GradeInv, GradeTypes
  <2>2. QED
    BY <1>1, <1>2, <2>1 DEF GradeInv, GradeTypes
<1>6. b # 0 => \A n \in 1 .. i - 1 : flat[n].batch # b
  BY <1>1 DEF GradeInv, Groups
<1>7. Groups' /\ Begun'
  BY <1>1 DEF Groups, Begun, Grade!InGroup
<1>8. PassedAll' /\ NotPassedAll'
  <2>1. PassedAll'
    BY <1>1, <1>4 DEF GradeInv, PassedAll
  <2>2. NotPassedAll'
    BY <1>1, <1>4 DEF GradeInv, NotPassedAll
  <2>3. QED
    BY <2>1, <2>2
<1>9. \A c : DepsOf(c)' = DepsOf(c)
  BY <1>1, SettingKept
<1>10. ShortCircuit'
  <2> SUFFICES ASSUME b # 0
               PROVE  /\ ~isSC' => /\ DepsOf(b)' \subseteq passed
                                   /\ \A m \in Grade!Results : m.batch = b => m.status = "passed"
                      /\ ~ \E n \in 1 .. i - 1 : flat[n].batch = b
    BY <1>1, <1>2 DEF ShortCircuit
  <2>1. ~isSC' => DepsOf(b) \subseteq passed
    BY <1>1 DEF DepsOf
  <2>2. \A m \in Grade!Results : m.batch # b
    BY <1>6 DEF GradeInv, ResultsInOrder
  <2>3. QED
    BY <1>6, <1>9, <2>1, <2>2
<1>11. Enabled'
  BY <1>1, <1>2, <1>4 DEF GradeInv, Enabled
<1>12. Reason'
  <2>1. CASE isSC
    BY <1>1, <1>4, <2>1 DEF GradeInv, Reason
  <2>2. CASE b # 0 /\ ~(Grade!Deps(b) \subseteq passed)
    <3>1. PICK d \in DepsOf(b) : d \notin passed
      BY <2>2 DEF DepsOf
    <3>2. d # 0
      BY <1>1, <3>1 DEF GradeInv, NoneOnZero
    <3>3. \A k \in 1 .. i - 1 : flat[k].batch = d =>
            \E n \in 1 .. i - 1 : flat[n].batch = d /\ NotPassed(n)
      BY <1>1, <3>1, <3>2 DEF GradeInv, NotPassedAll
    <3>4. Why(i)
      BY <1>1, <3>1, <3>3 DEF Why
    <3>5. QED
      BY <1>1, <1>4, <2>2, <3>4 DEF Reason
  <2>3. QED
    BY <1>1, <2>1, <2>2 DEF Reason
<1>13. QED
  BY <1>3, <1>5, <1>7, <1>8, <1>10, <1>11, <1>12 DEF GradeInv

LEMMA EndGroupKeeps ==
    ASSUME GradeInv, Grade!EndGroup
    PROVE  GradeInv'
<1>1. /\ pc = "case" /\ pc' = "group" /\ ~Grade!InGroup
      /\ UNCHANGED <<problem, pretestsOnly, short, flat, i, batch, enabled>>
      /\ passed' = IF batch = 0 \/ isSC THEN passed ELSE passed \cup {batch}
      /\ isSC' = IF batch = 0 THEN isSC ELSE isSC /\ enabled
      /\ sent' = IF batch = 0 THEN sent ELSE Append(sent, [kind |-> "BATCH_END", batch |-> batch])
  BY DEF Grade!EndGroup, Grade!setting, Grade!Send
<1>2. sent' \in Seq(GroupMessages \cup ResultMessages) /\ Grade!Results' = Grade!Results
  <2>1. CASE batch = 0
    BY <1>1, <2>1 DEF GradeInv, GradeTypes, Grade!Results
  <2>2. CASE batch # 0
    <3>1. PICK m \in GroupMessages : m = [kind |-> "BATCH_END", batch |-> batch]
      BY DEF GradeInv, GradeTypes, GroupMessages
    <3>2. QED
      BY <1>1, <2>2, <3>1, Announced DEF GradeInv
  <2>3. QED
    BY <2>1, <2>2
<1>3. /\ Grouped' /\ NoneOnZero' /\ ResultsInOrder'
      /\ Dependencies' /\ Grade!FailureStops' /\ SkipsHaveReason'
  BY <1>1, <1>2, NothingCounted
<1>4. /\ \A n, s : Reported(n, s)' = Reported(n, s)
      /\ \A n : NotPassed(n)' = NotPassed(n)
      /\ \A n : Why(n)' = Why(n)
  BY <1>1, <1>2, NothingReported
<1>5. GradeTypes'
  <2>1. isSC' \in BOOLEAN
    BY <1>1 DEF GradeInv, GradeTypes
  <2>2. QED
    BY <1>1, <1>2, <2>1 DEF GradeInv, GradeTypes
<1>6. /\ i \in 1 .. Len(flat) + 1 /\ i \in Nat /\ Len(flat) \in Nat /\ DOMAIN flat = 1 .. Len(flat)
      /\ i > 1 /\ i - 1 \in DOMAIN flat /\ flat[i - 1].batch = batch
      /\ i \in DOMAIN flat => flat[i].batch # batch
  <2>1. flat \in Seq(CaseTypes) /\ i \in 1 .. Len(flat) + 1
    BY DEF GradeInv, GradeTypes
  <2>2. i > 1 /\ flat[i - 1].batch = batch
    BY <1>1 DEF GradeInv, Groups
  <2>3. i \in 1 .. Len(flat) => flat[i].batch # batch
    BY <1>1 DEF Grade!InGroup
  <2>4. QED
    BY <2>1, <2>2, <2>3
\* The batch is over for good.
<1>7. ASSUME NEW n \in DOMAIN flat, flat[n].batch = batch, batch # 0
      PROVE  n < i
  <2> SUFFICES ASSUME ~(n < i) PROVE FALSE
    OBVIOUS
  <2>1. n \in Nat /\ i \in DOMAIN flat /\ i - 1 <= i /\ i <= n
    BY <1>6
  <2>2. flat[i].batch = flat[i - 1].batch
    BY <1>6, <1>7, <2>1 DEF GradeInv, Grouped
  <2>3. QED
    BY <1>6, <2>1, <2>2
<1>8. Groups'
  <2> SUFFICES ASSUME i <= Len(flat), flat[i].batch # 0, NEW n \in 1 .. i - 1,
                      flat[n].batch = flat[i].batch
               PROVE  FALSE
    BY <1>1 DEF Groups
  <2>1. n \in DOMAIN flat /\ i \in DOMAIN flat /\ n <= i - 1 /\ i - 1 <= i
    BY <1>6
  <2>2. flat[i - 1].batch = flat[n].batch
    BY <1>6, <2>1 DEF GradeInv, Grouped
  <2>3. QED
    BY <1>6, <2>1, <2>2
<1>9. \A n \in 1 .. i - 1 : n \in DOMAIN flat
  BY <1>6
<1>10. PassedAll'
  <2>1. ASSUME NEW d \in passed'
        PROVE  /\ \E n \in DOMAIN flat : flat[n].batch = d
               /\ \A n \in DOMAIN flat : flat[n].batch = d => n < i /\ Reported(n, "passed")
    <3>1. CASE d \in passed
      BY <3>1 DEF GradeInv, PassedAll
    <3>2. CASE d \notin passed
      <4>1. d = batch /\ batch # 0 /\ ~isSC
        BY <1>1, <3>2
      <4>2. ASSUME NEW n \in DOMAIN flat, flat[n].batch = d PROVE n < i /\ Reported(n, "passed")
        <5>1. n < i /\ n \in 1 .. i - 1
          BY <1>6, <1>7, <4>1, <4>2
        <5>2. PICK m \in Grade!Results : m.number = n
          BY <5>1 DEF GradeInv, ResultsInOrder
        <5>3. m.batch = batch
          BY <4>1, <4>2, <5>2 DEF GradeInv, ResultsInOrder
        <5>4. m.status = "passed"
          BY <1>1, <4>1, <5>3 DEF GradeInv, ShortCircuit
        <5>5. QED
          BY <5>1, <5>2, <5>4 DEF Reported
      <4>3. QED
        BY <1>6, <4>1, <4>2
    <3>3. QED
      BY <3>1, <3>2
  <2>2. QED
    BY <1>1, <1>4, <2>1 DEF PassedAll
<1>11. NotPassedAll'
  <2> SUFFICES ASSUME NEW k \in 1 .. i - 1, flat[k].batch \notin passed' \cup {0}
               PROVE  \E n \in 1 .. i - 1 : flat[n].batch = flat[k].batch /\ NotPassed(n)
    BY <1>1, <1>4 DEF NotPassedAll
  <2>1. CASE flat[k].batch = batch
    <3>1. batch # 0 /\ isSC
      BY <1>1, <2>1
    <3>2. QED
      BY <1>1, <2>1, <3>1 DEF GradeInv, ShortCircuit
  <2>2. CASE flat[k].batch # batch
    <3>1. flat[k].batch \notin passed \cup {0}
      BY <1>1
    <3>2. QED
      BY <1>1, <2>2, <3>1 DEF GradeInv, NotPassedAll
  <2>3. QED
    BY <2>1, <2>2
<1>12. ShortCircuit' /\ Begun'
  BY <1>1 DEF ShortCircuit, Begun
<1>13. Enabled'
  BY <1>1, <1>2, <1>4 DEF GradeInv, Enabled
<1>14. Reason'
  <2> SUFFICES ASSUME isSC'
               PROVE  \E n \in DOMAIN flat : n <= i /\ Why(n) /\ enabled
    BY <1>1, <1>4 DEF Reason
  <2>1. PICK n \in DOMAIN flat :
          n <= i /\ Why(n) /\ (enabled \/ (flat[n].batch # 0 /\ flat[n].batch = batch))
    BY <1>1 DEF GradeInv, Reason
  <2>2. enabled
    BY <1>1, <2>1
  <2>3. QED
    BY <2>1, <2>2
<1>15. QED
  BY <1>3, <1>5, <1>8, <1>10, <1>11, <1>12, <1>13, <1>14 DEF GradeInv

\* A case is skipped, passes or fails.
LEMMA ReportKeeps ==
    ASSUME GradeInv, pc = "case", Grade!InGroup, NEW s \in {"SC", "passed", "failed"},
           Grade!Report(s), UNCHANGED <<problem, pretestsOnly, short, flat, batch, passed>>,
           s = "SC" <=> isSC,
           s # "failed" => UNCHANGED <<isSC, enabled>>,
           s = "failed" => /\ enabled' = (enabled \/ flat[i].points = 0)
                           /\ isSC' = (batch # 0 \/ enabled')
    PROVE  GradeInv'
<1>0. GradeTypes /\ ResultsInOrder
  BY DEF GradeInv
<1>1. PICK m \in ResultMessages :
          /\ m.number = i /\ m.status = s /\ m.batch = batch /\ m.batch = flat[i].batch
          /\ Grade!Results' = Grade!Results \cup {m}
          /\ sent' \in Seq(GroupMessages \cup ResultMessages)
          /\ i' = i + 1 /\ i' \in 1 .. Len(flat) + 1 /\ i \in DOMAIN flat
          /\ ResultsInOrder'
          /\ Reported(m.number, s)'
          /\ \A n, t : Reported(n, t) => Reported(n, t)'
          /\ \A n : NotPassed(n) => NotPassed(n)'
          /\ \A n : Why(n) => Why(n)'
          /\ \A x \in Grade!Results : x.number < i
  BY <1>0, OneReported
<1>2. /\ pc' = "case" /\ i \in Nat /\ i' - 1 = i /\ Len(flat) \in Nat /\ DOMAIN flat = 1 .. Len(flat)
      /\ flat[i].batch = batch
  BY <1>0, <1>1 DEF Grade!Report, GradeTypes
<1>3. \A n : n \in 1 .. i - 1 => n \in 1 .. i /\ n < i /\ n \in DOMAIN flat
  BY <1>1, <1>2
<1>4. PICK j \in DOMAIN flat : j = i /\ j = m.number
  BY <1>1
<1>5. \A b : DepsOf(b)' = DepsOf(b)
  BY SettingKept
<1>6. GradeTypes'
  <2>1. isSC' \in BOOLEAN /\ enabled' \in BOOLEAN
    BY <1>0 DEF GradeTypes
  <2>2. QED
    BY <1>0, <1>1, <2>1 DEF GradeTypes
<1>7. Grouped' /\ NoneOnZero' /\ Groups' /\ Begun'
  <2>1. Grouped' /\ NoneOnZero'
    BY <1>5 DEF GradeInv, Grouped, NoneOnZero
  <2>2. Groups'
    BY <1>2, <1>1 DEF Groups
  <2>3. QED
    BY <1>2, <2>1, <2>2 DEF Begun
<1>8. PassedAll'
  <2>1. ASSUME NEW d \in passed
        PROVE  /\ \E n \in DOMAIN flat : flat[n].batch = d
               /\ \A n \in DOMAIN flat : flat[n].batch = d => n < i' /\ Reported(n, "passed")'
    <3>1. ASSUME NEW n \in DOMAIN flat, flat[n].batch = d
          PROVE  n < i' /\ Reported(n, "passed")'
      <4>1. n < i /\ Reported(n, "passed") /\ n \in Nat
        BY <1>2, <3>1 DEF GradeInv, PassedAll
      <4>2. QED
        BY <1>1, <1>2, <4>1
    <3>2. QED
      BY <3>1 DEF GradeInv, PassedAll
  <2>2. QED
    BY <2>1 DEF PassedAll
<1>9. NotPassedAll'
  <2> SUFFICES ASSUME NEW k \in 1 .. i, flat[k].batch \notin passed \cup {0}, flat[k].batch # batch
               PROVE  \E n \in 1 .. i : flat[n].batch = flat[k].batch /\ NotPassed(n)'
    BY <1>2 DEF NotPassedAll
  <2>1. k \in 1 .. i - 1
    BY <1>2
  <2>2. \E n \in 1 .. i - 1 : flat[n].batch = flat[k].batch /\ NotPassed(n)
    BY <2>1 DEF GradeInv, NotPassedAll
  <2>3. QED
    BY <1>1, <1>3, <2>2
<1>10. ShortCircuit'
  <2> SUFFICES ASSUME batch # 0
               PROVE  /\ ~isSC' => /\ DepsOf(batch) \subseteq passed
                                   /\ \A x \in Grade!Results' : x.batch = batch => x.status = "passed"
                      /\ isSC' => \E n \in 1 .. i : flat[n].batch = batch /\ NotPassed(n)'
    <3>1. DepsOf(batch)' = DepsOf(batch)
      <4>1. PICK c : c = batch
        OBVIOUS
      <4>2. DepsOf(c)' = DepsOf(c)
        BY <1>5
      <4>3. QED
        BY <4>1, <4>2
    <3>2. QED
      BY <1>2, <3>1 DEF ShortCircuit
  <2>1. ASSUME ~isSC'
        PROVE  /\ DepsOf(batch) \subseteq passed
               /\ \A x \in Grade!Results' : x.batch = batch => x.status = "passed"
    <3>1. s = "passed" /\ ~isSC
      BY <2>1
    <3>2. QED
      BY <1>1, <3>1 DEF GradeInv, ShortCircuit
  <2>2. ASSUME isSC'
        PROVE  \E n \in 1 .. i : flat[n].batch = batch /\ NotPassed(n)'
    <3>1. s \in {"failed", "SC"}
      BY <2>2
    <3>2. NotPassed(j)'
      BY <1>1, <1>4, <3>1 DEF NotPassed
    <3>3. QED
      BY <1>2, <1>4, <3>2
  <2>3. QED
    BY <2>1, <2>2
<1>11. Enabled'
  <2>1. short => enabled'
    BY DEF GradeInv, Enabled
  <2>2. ASSUME enabled'
        PROVE  short \/ \E n \in 1 .. i : Reported(n, "failed")' /\ flat[n].points = 0
    <3>1. CASE enabled
      BY <1>1, <1>3, <3>1 DEF GradeInv, Enabled
    <3>2. CASE ~enabled
      <4>1. s = "failed" /\ flat[j].points = 0
        BY <1>4, <2>2, <3>2
      <4>2. Reported(j, "failed")' /\ j \in 1 .. i
        BY <1>1, <1>2, <1>4, <4>1
      <4>3. QED
        BY <4>1, <4>2
    <3>3. QED
      BY <3>1, <3>2
  <2>3. ASSUME NEW x \in Grade!Results', x.status = "failed", short \/ flat[x.number].points = 0
        PROVE  isSC' /\ enabled'
    <3>1. CASE x = m
      BY <1>1, <2>1, <2>3, <3>1
    <3>2. CASE x \in Grade!Results
      <4>1. isSC /\ enabled
        BY <2>3, <3>2 DEF GradeInv, Enabled
      <4>2. QED
        BY <4>1
    <3>3. QED
      BY <1>1, <3>1, <3>2
  <2>4. QED
    BY <1>2, <2>1, <2>2, <2>3 DEF Enabled
<1>12. Reason'
  <2> SUFFICES ASSUME isSC'
               PROVE  \E n \in DOMAIN flat :
                         /\ n <= i + 1 /\ Why(n)'
                         /\ enabled' \/ (flat[n].batch # 0 /\ flat[n].batch = batch)
    BY <1>1, <1>2 DEF Reason
  <2>1. CASE isSC
    <3>1. PICK n \in DOMAIN flat : /\ n <= i /\ Why(n)
                                   /\ enabled \/ (flat[n].batch # 0 /\ flat[n].batch = batch)
      BY <2>1 DEF GradeInv, Reason
    <3>2. n <= i + 1 /\ Why(n)'
      BY <1>1, <1>2, <3>1
    <3>3. QED
      BY <2>1, <3>1, <3>2
  <2>2. CASE ~isSC
    <3>1. s = "failed"
      BY <2>2
    <3>2. Why(j)'
      BY <1>1, <1>4, <3>1 DEF Why
    <3>3. enabled' \/ batch # 0
      BY <3>1
    <3>4. j <= i + 1 /\ flat[j].batch = batch
      BY <1>2, <1>4
    <3>5. QED
      BY <3>2, <3>3, <3>4
  <2>3. QED
    BY <2>1, <2>2
<1>13. Dependencies'
  <2> SUFFICES ASSUME NEW x \in Grade!Results', x.batch # 0, x.status # "SC",
                      NEW d \in DepsOf(x.batch)
               PROVE  /\ \E n \in DOMAIN flat : flat[n].batch = d
                      /\ \A n \in DOMAIN flat : flat[n].batch = d =>
                           n < x.number /\ Reported(n, "passed")'
    BY <1>5 DEF Dependencies, DepsOf, Reported
  <2>1. CASE x = m
    <3>1. d \in passed
      BY <1>1, <2>1 DEF GradeInv, ShortCircuit
    <3>2. QED
      BY <1>1, <2>1, <3>1 DEF GradeInv, PassedAll
  <2>2. CASE x \in Grade!Results
    <3>1. /\ \E n \in DOMAIN flat : flat[n].batch = d
          /\ \A n \in DOMAIN flat : flat[n].batch = d => n < x.number /\ Reported(n, "passed")
      BY <2>2 DEF GradeInv, Dependencies, DepsOf, Reported
    <3>2. QED
      BY <1>1, <3>1
  <2>3. QED
    BY <1>1, <2>1, <2>2
<1>14. Grade!FailureStops'
  <2> SUFFICES ASSUME NEW x \in Grade!Results', NEW y \in Grade!Results',
                      x.number < y.number, x.status = "failed", y.status # "SC"
               PROVE  ~short /\ flat[x.number].points # 0 /\ (x.batch = 0 \/ x.batch # y.batch)
    BY DEF Grade!FailureStops
  <2>1. CASE y = m
    <3>1. x \in Grade!Results /\ ~isSC
      BY <1>1, <1>2, <2>1
    <3>2. ~short /\ flat[x.number].points # 0
      BY <3>1 DEF GradeInv, Enabled
    <3>3. batch # 0 => x.batch # batch
      BY <3>1 DEF GradeInv, ShortCircuit
    <3>4. QED
      BY <1>1, <2>1, <3>2, <3>3
  <2>2. CASE y \in Grade!Results
    <3>1. x \in Grade!Results
      <4>1. y.number < i /\ y.number \in Nat /\ ~(i < y.number)
        BY <1>0, <1>1, <1>2, <2>2, ResultTypes DEF ResultMessages
      <4>2. QED
        BY <1>1, <4>1
    <3>2. QED
      BY <2>2, <3>1 DEF GradeInv, Grade!FailureStops
  <2>3. QED
    BY <1>1, <2>1, <2>2
<1>15. SkipsHaveReason'
  <2> SUFFICES ASSUME NEW x \in Grade!Results', x.status = "SC"
               PROVE  \E n \in 1 .. x.number :
                        /\ Why(n)'
                        /\ \/ flat[n].batch # 0 /\ flat[n].batch = x.batch
                           \/ short
                           \/ \E k \in 1 .. x.number : Reported(k, "failed")' /\ flat[k].points = 0
    BY DEF SkipsHaveReason
  <2>1. CASE x = m
    <3>1. isSC
      BY <1>1, <2>1
    <3>2. PICK n \in DOMAIN flat : /\ n <= i /\ Why(n)
                                   /\ enabled \/ (flat[n].batch # 0 /\ flat[n].batch = batch)
      BY <3>1 DEF GradeInv, Reason
    <3>3. n \in 1 .. x.number /\ x.number = i /\ x.batch = batch
      BY <1>1, <1>2, <2>1, <3>2
    <3>4. enabled => short \/ \E k \in 1 .. x.number : Reported(k, "failed") /\ flat[k].points = 0
      BY <1>3, <3>3 DEF GradeInv, Enabled
    <3>5. QED
      BY <1>1, <3>2, <3>3, <3>4
  <2>2. CASE x \in Grade!Results
    <3>1. PICK n \in 1 .. x.number :
            /\ Why(n)
            /\ \/ flat[n].batch # 0 /\ flat[n].batch = x.batch
               \/ short
               \/ \E k \in 1 .. x.number : Reported(k, "failed") /\ flat[k].points = 0
      BY <2>2 DEF GradeInv, SkipsHaveReason
    <3>2. QED
      BY <1>1, <3>1
  <2>3. QED
    BY <1>1, <2>1, <2>2
<1>16. QED
  BY <1>1, <1>6, <1>7, <1>8, <1>9, <1>10, <1>11, <1>12, <1>13, <1>14, <1>15 DEF GradeInv

-------------------------------------------------------------------------------
(* The cases as they are numbered, flattened and made pretests *)

LEMMA Least ==
    ASSUME NEW N \in SUBSET Nat, N # {}
    PROVE  \E n \in N : \A m \in N : n <= m
<1>1. PICK n \in N : \A m \in N : ~(<<m, n>> \in OpToRel(<, Nat))
  BY NatLessThanWellFounded, WFMin, Zenon
<1>2. \A m \in N : ~(m < n)
  BY <1>1 DEF OpToRel
<1>3. QED
  BY <1>2

\* s concatenates parts: each element of s comes from one of them, in order.
Joins(s, parts, from) ==
    /\ from \in [1 .. Len(s) -> 1 .. Len(parts)]
    /\ \A p \in 1 .. Len(s) : \E c \in DOMAIN parts[from[p]] : s[p] = parts[from[p]][c]
    /\ \A p, q \in 1 .. Len(s) : p <= q => from[p] <= from[q]

\* What flatten is of: the concatenation of the first n parts.
IsFlatten(f, n, parts) ==
    f = [k \in 1 .. n |-> IF k = 1 THEN parts[k] ELSE f[k - 1] \o parts[k]]

LEMMA FlattenIs ==
    ASSUME NEW parts, NEW L \in Nat
    PROVE  \E f : IsFlatten(f, L, parts)
<1> DEFINE N == {n \in Nat : ~ \E f : IsFlatten(f, n, parts)}
<1> SUFFICES ASSUME N # {} PROVE FALSE
  OBVIOUS
<1>1. PICK n \in N : \A m \in N : n <= m
  <2>1. N \in SUBSET Nat
    OBVIOUS
  <2>2. QED
    BY <2>1, Least
<1>2. n # 0
  <2> SUFFICES IsFlatten(<<>>, 0, parts)
    OBVIOUS
  <2> QED
    BY DEF IsFlatten
<1>3. n - 1 \in Nat /\ ~(n <= n - 1)
  BY <1>2
<1>4. PICK f : IsFlatten(f, n - 1, parts)
  BY <1>1, <1>3
<1> DEFINE G(k) == IF k = n THEN IF k = 1 THEN parts[k] ELSE f[k - 1] \o parts[k] ELSE f[k]
           g == [k \in 1 .. n |-> G(k)]
<1>5. \A k \in 1 .. n : g[k] = IF k = 1 THEN parts[k] ELSE g[k - 1] \o parts[k]
  <2> TAKE k \in 1 .. n
  <2>1. CASE k = n
    <3>1. k # 1 => k - 1 \in 1 .. n /\ k - 1 # n
      BY <1>3, <2>1
    <3>2. QED
      BY <2>1, <3>1
  <2>2. CASE k # n
    <3>1. k \in 1 .. n - 1 /\ (k # 1 => k - 1 \in 1 .. n /\ k - 1 # n)
      BY <1>3, <2>2
    <3>2. f[k] = IF k = 1 THEN parts[k] ELSE f[k - 1] \o parts[k]
      BY <1>4, <3>1 DEF IsFlatten
    <3>3. g[k] = f[k] /\ (k # 1 => g[k - 1] = f[k - 1])
      BY <2>2, <3>1
    <3>4. QED
      BY <3>2, <3>3
  <2>3. QED
    BY <2>1, <2>2
<1>6. IsFlatten(g, n, parts)
  <2> HIDE DEF G
  <2>1. g = [k \in 1 .. n |-> g[k]]
    OBVIOUS
  <2> HIDE DEF g
  <2>2. QED
    BY <1>5, <2>1 DEF IsFlatten
<1>7. QED
  BY <1>6

LEMMA JoinedSoFar ==
    ASSUME NEW S, NEW parts \in Seq(Seq(S)), NEW f, IsFlatten(f, Len(parts), parts),
           NEW n \in 1 .. Len(parts)
    PROVE  f[n] \in Seq(S) /\ \E from : Joins(f[n], parts, from) /\ \A p \in 1 .. Len(f[n]) : from[p] <= n
<1> DEFINE Good(k) == /\ f[k] \in Seq(S)
                      /\ \E from : /\ Joins(f[k], parts, from)
                                   /\ \A p \in 1 .. Len(f[k]) : from[p] <= k
           N == {k \in 1 .. Len(parts) : ~Good(k)}
<1> SUFFICES ASSUME N # {} PROVE FALSE
  OBVIOUS
<1>1. PICK k \in N : \A m \in N : k <= m
  <2>1. N \in SUBSET Nat
    OBVIOUS
  <2>2. QED
    BY <2>1, Least
<1>2. k \in 1 .. Len(parts) /\ Len(parts) \in Nat /\ ~Good(k)
  OBVIOUS
<1>3. f[k] = IF k = 1 THEN parts[k] ELSE f[k - 1] \o parts[k]
  BY <1>2 DEF IsFlatten
<1>4. PICK x \in Seq(S) : x = parts[k]
  BY <1>2
<1>5. CASE k = 1
  <2> DEFINE from == [p \in 1 .. Len(x) |-> 1]
  <2>1. Len(x) \in Nat /\ DOMAIN x = 1 .. Len(x)
    BY <1>4
  <2>2. Joins(x, parts, from)
    <3>1. from \in [1 .. Len(x) -> 1 .. Len(parts)]
      BY <1>2, <1>5
    <3>2. \A p \in 1 .. Len(x) : x[p] = parts[from[p]][p] /\ p \in DOMAIN parts[from[p]]
      BY <1>4, <1>5, <2>1
    <3>3. \A p, q \in 1 .. Len(x) : from[p] <= from[q]
      OBVIOUS
    <3> HIDE DEF from
    <3>4. QED
      BY <3>1, <3>2, <3>3 DEF Joins
  <2>3. \A p \in 1 .. Len(x) : from[p] <= k
    BY <1>5
  <2>4. f[k] = x
    BY <1>3, <1>4, <1>5
  <2> HIDE DEF from
  <2>5. QED
    BY <1>2, <2>2, <2>3, <2>4
<1>6. CASE k # 1
  <2>1. k - 1 \in 1 .. Len(parts) /\ k - 1 < k /\ ~(k <= k - 1)
    BY <1>2, <1>6
  <2>2. Good(k - 1)
    BY <1>1, <2>1
  <2>12. PICK y \in Seq(S) : y = f[k - 1]
    BY <2>2
  <2>3. PICK old : Joins(y, parts, old) /\ \A p \in 1 .. Len(y) : old[p] <= k - 1
    BY <2>2, <2>12
  <2> DEFINE s == y \o x
             from == [p \in 1 .. Len(s) |-> IF p <= Len(y) THEN old[p] ELSE k]
  <2>4. /\ s \in Seq(S) /\ Len(s) = Len(y) + Len(x) /\ Len(x) \in Nat /\ Len(y) \in Nat
        /\ \A p \in 1 .. Len(s) : s[p] = IF p <= Len(y) THEN y[p] ELSE x[p - Len(y)]
        /\ DOMAIN x = 1 .. Len(x)
    BY <1>4
  <2>5. \A p \in 1 .. Len(y) : old[p] \in 1 .. Len(parts) /\ old[p] <= k - 1
    BY <2>3 DEF Joins
  <2> HIDE DEF s
  <2>6. from \in [1 .. Len(s) -> 1 .. Len(parts)] /\ \A p \in 1 .. Len(s) : from[p] <= k
    <3>1. ASSUME NEW p \in 1 .. Len(s) PROVE from[p] \in 1 .. Len(parts) /\ from[p] <= k
      <4>1. CASE p <= Len(y)
        <5>1. p \in 1 .. Len(y) /\ from[p] = old[p]
          BY <2>4, <4>1
        <5>2. QED
          BY <1>2, <2>5, <5>1
      <4>2. CASE ~(p <= Len(y))
        BY <1>2, <4>2
      <4>3. QED
        BY <4>1, <4>2
    <3>2. QED
      BY <3>1
  <2>7. \A p \in 1 .. Len(s) : \E c \in DOMAIN parts[from[p]] : s[p] = parts[from[p]][c]
    <3> TAKE p \in 1 .. Len(s)
    <3>1. CASE p <= Len(y)
      <4>1. p \in 1 .. Len(y) /\ s[p] = y[p] /\ from[p] = old[p]
        BY <2>4, <3>1
      <4>2. QED
        BY <2>3, <4>1 DEF Joins
    <3>2. CASE ~(p <= Len(y))
      <4>1. from[p] = k /\ p - Len(y) \in DOMAIN x
        BY <2>4, <3>2
      <4>2. QED
        BY <1>4, <2>4, <3>2, <4>1
    <3>3. QED
      BY <3>1, <3>2
  <2>8. \A p, q \in 1 .. Len(s) : p <= q => from[p] <= from[q]
    <3> SUFFICES ASSUME NEW p \in 1 .. Len(s), NEW q \in 1 .. Len(s), p <= q
                 PROVE  from[p] <= from[q]
      OBVIOUS
    <3>1. CASE q <= Len(y)
      <4>1. p \in 1 .. Len(y) /\ q \in 1 .. Len(y)
        BY <2>4, <3>1
      <4>2. QED
        BY <2>3, <3>1, <4>1 DEF Joins
    <3>2. CASE ~(q <= Len(y))
      BY <2>6, <3>2
    <3>3. QED
      BY <3>1, <3>2
  <2>9. Joins(s, parts, from)
    BY <2>6, <2>7, <2>8 DEF Joins
  <2>10. f[k] = s
    BY <1>3, <1>4, <1>6, <2>12 DEF s
  <2> HIDE DEF from
  <2>11. QED
    BY <1>2, <2>4, <2>6, <2>9, <2>10
<1>7. QED
  BY <1>5, <1>6

LEMMA Flattens ==
    ASSUME NEW S, NEW parts \in Seq(Seq(S))
    PROVE  /\ Grade!FlattenSeq(parts) \in Seq(S)
           /\ \E from : Joins(Grade!FlattenSeq(parts), parts, from)
<1>1. Len(parts) \in Nat
  OBVIOUS
<1>2. CASE Len(parts) = 0
  <2>1. parts = <<>> /\ Grade!FlattenSeq(parts) = parts
    BY <1>2 DEF Grade!FlattenSeq
  <2>2. Joins(<<>>, <<>>, <<>>)
    <3>1. 1 .. Len(<<>>) = {}
      OBVIOUS
    <3>2. <<>> \in [{} -> {}]
      OBVIOUS
    <3>3. QED
      BY <3>1, <3>2 DEF Joins
  <2>3. <<>> \in Seq(S)
    OBVIOUS
  <2>4. QED
    BY <2>1, <2>2, <2>3
<1>3. CASE Len(parts) # 0
  <2> DEFINE F == CHOOSE f : IsFlatten(f, Len(parts), parts)
  <2>1. IsFlatten(F, Len(parts), parts)
    BY <1>1, FlattenIs
  <2>2. Grade!FlattenSeq(parts) = F[Len(parts)]
    BY <1>3 DEF Grade!FlattenSeq, IsFlatten
  <2> HIDE DEF F
  <2>3. Len(parts) \in 1 .. Len(parts)
    BY <1>1, <1>3
  <2>4. QED
    BY <2>1, <2>2, <2>3, JoinedSoFar
<1>4. QED
  BY <1>2, <1>3

LEMMA GradeCardinality == \A S : Grade!Cardinality(S) = Cardinality(S)
BY DEF Grade!Cardinality, Cardinality

\* Making a pretest of an entry, and giving its cases their points, leaves what
\* it depends on.
LEMMA SettledTypes ==
    ASSUME NEW entries \in Seq(EntryTypes)
    PROVE  /\ Grade!Settled(entries) \in Seq(EntryTypes)
           /\ Len(Grade!Settled(entries)) = Len(entries)
           /\ \A k \in DOMAIN entries : Grade!Settled(entries)[k].deps = entries[k].deps
<1> DEFINE E(k) == [entries[k] EXCEPT !.cases = Grade!CaseList(entries[k])]
           s == [k \in 1 .. Len(entries) |-> E(k)]
<1>1. Len(entries) \in Nat /\ DOMAIN entries = 1 .. Len(entries)
  OBVIOUS
<1>2. ASSUME NEW k \in 1 .. Len(entries)
      PROVE  E(k) \in EntryTypes /\ E(k).deps = entries[k].deps
  <2>1. entries[k] \in EntryTypes
    BY <1>1
  <2>2. Grade!CaseList(entries[k]) \in Seq(Int)
    <3>1. entries[k].cases \in Seq(Int) /\ entries[k].points \in Int
      BY <2>1 DEF EntryTypes
    <3>2. PICK n \in Nat : DOMAIN entries[k].cases = 1 .. n
      BY <3>1
    <3>3. \A c \in 1 .. n : entries[k].cases[c] \in Int
      BY <3>1, <3>2
    <3>4. Grade!CaseList(entries[k]) \in [1 .. n -> Int]
      BY <3>1, <3>2, <3>3 DEF Grade!CaseList
    <3>5. QED
      BY <3>4
  <2>3. QED
    BY <2>1, <2>2 DEF EntryTypes
<1>3. Grade!Settled(entries) = s
  BY <1>1 DEF Grade!Settled
<1> HIDE DEF E
<1>4. s \in Seq(EntryTypes) /\ Len(s) = Len(entries) /\ \A k \in 1 .. Len(entries) : s[k] = E(k)
  BY <1>1, <1>2
<1>5. QED
  BY <1>1, <1>2, <1>3, <1>4

LEMMA EntriesTypes ==
    ASSUME problem \in [tests : Seq(EntryTypes), pretests : Seq(EntryTypes)]
    PROVE  /\ Grade!Entries \in Seq(EntryTypes)
           /\ \A k \in DOMAIN Grade!Entries : Grade!Entries[k].batched =>
                \E j \in DOMAIN Grade!Resolved : Grade!Entries[k].deps = Grade!Resolved[j].deps
<1>1. PICK t \in Seq(EntryTypes), p \in Seq(EntryTypes) : t = problem.tests /\ p = problem.pretests
  OBVIOUS
<1>2. /\ Len(t) \in Nat /\ DOMAIN t = 1 .. Len(t)
      /\ Len(p) \in Nat /\ DOMAIN p = 1 .. Len(p)
  OBVIOUS
<1>3. PICK st \in Seq(EntryTypes), sp \in Seq(EntryTypes) :
        /\ st = Grade!Settled(t) /\ Len(st) = Len(t) /\ \A k \in DOMAIN t : st[k].deps = t[k].deps
        /\ sp = Grade!Settled(p) /\ Len(sp) = Len(p) /\ \A k \in DOMAIN p : sp[k].deps = p[k].deps
  BY SettledTypes
<1>7. DOMAIN sp = 1 .. Len(p) /\ DOMAIN st = 1 .. Len(t)
  BY <1>3
<1>4. CASE pretestsOnly /\ p # <<>>
  <2>1. Grade!Entries = sp /\ Grade!Resolved = p
    BY <1>1, <1>3, <1>4 DEF Grade!Entries, Grade!Resolved
  <2>2. DOMAIN sp = DOMAIN p
    BY <1>2, <1>3
  <2>3. QED
    BY <1>3, <2>1, <2>2
<1>5. CASE ~(pretestsOnly /\ p # <<>>)
  <2> DEFINE P(k) == Grade!AsPretest(sp[k])
             ap == [k \in 1 .. Len(p) |-> P(k)]
  <2>1. Grade!Entries = ap \o st /\ Grade!Resolved = t \o p
    BY <1>1, <1>2, <1>3, <1>5 DEF Grade!Entries, Grade!Resolved
  <2>2. ASSUME NEW k \in 1 .. Len(p) PROVE P(k) \in EntryTypes /\ (P(k).batched => P(k).deps = p[k].deps)
    <3>1. sp[k] \in EntryTypes /\ sp[k].deps = p[k].deps
      <4>1. k \in DOMAIN p /\ k \in DOMAIN sp
        BY <1>2, <1>7
      <4>2. QED
        BY <1>3, <4>1
    <3>2. PICK e \in EntryTypes : e = sp[k]
      BY <3>1
    <3>3. e.cases \in Seq(Int) /\ <<0>> \in Seq(Int) /\ e.deps \in SUBSET Int /\ {} \in SUBSET Int
      BY DEF EntryTypes
    <3>4. CASE e.batched
      BY <3>1, <3>2, <3>3, <3>4, SMTT(40) DEF Grade!AsPretest, Grade!Batch, EntryTypes
    <3>5. CASE ~e.batched
      BY <3>2, <3>3, <3>5 DEF Grade!AsPretest, Grade!Single, EntryTypes
    <3>6. QED
      BY <3>4, <3>5
  <2> HIDE DEF P
  <2>3. ap \in Seq(EntryTypes) /\ Len(ap) = Len(p) /\ \A k \in 1 .. Len(p) : ap[k] = P(k)
    BY <1>2, <2>2
  <2> HIDE DEF ap
  <2>4. ap \o st \in Seq(EntryTypes) /\ DOMAIN (ap \o st) = 1 .. Len(p) + Len(t)
        /\ \A k \in 1 .. Len(p) + Len(t) :
             (ap \o st)[k] = IF k <= Len(p) THEN ap[k] ELSE st[k - Len(p)]
    <3>1. Len(ap) = Len(p) /\ Len(st) = Len(t) /\ ap \in Seq(EntryTypes) /\ st \in Seq(EntryTypes)
      BY <1>3, <2>3
    <3>2. PICK A \in Seq(EntryTypes), B \in Seq(EntryTypes) :
            A = ap /\ B = st /\ Len(A) = Len(p) /\ Len(B) = Len(t)
      BY <3>1
    <3>3. /\ A \o B \in Seq(EntryTypes) /\ DOMAIN (A \o B) = 1 .. Len(A) + Len(B)
          /\ \A k \in 1 .. Len(A) + Len(B) :
               (A \o B)[k] = IF k <= Len(A) THEN A[k] ELSE B[k - Len(A)]
      OBVIOUS
    <3>4. QED
      BY <3>2, <3>3
  <2>5. DOMAIN (t \o p) = 1 .. Len(t) + Len(p)
        /\ \A k \in 1 .. Len(t) + Len(p) : (t \o p)[k] = IF k <= Len(t) THEN t[k] ELSE p[k - Len(t)]
    BY <1>2
  <2>6. ASSUME NEW k \in 1 .. Len(p) + Len(t)
        PROVE  (ap \o st)[k].batched =>
                 \E j \in DOMAIN (t \o p) : (ap \o st)[k].deps = (t \o p)[j].deps
    <3>1. CASE k <= Len(p)
      <4>1. k \in 1 .. Len(p) /\ Len(t) + k \in 1 .. Len(t) + Len(p) /\ ~(Len(t) + k <= Len(t))
            /\ Len(t) + k - Len(t) = k
        BY <1>2, <3>1
      <4>2. (t \o p)[Len(t) + k] = p[k]
        BY <2>5, <4>1
      <4>3. (ap \o st)[k].batched => (ap \o st)[k].deps = p[k].deps
        BY <2>2, <2>3, <2>4, <3>1, <4>1
      <4>4. QED
        BY <2>5, <4>1, <4>2, <4>3
    <3>2. CASE ~(k <= Len(p))
      <4>1. k - Len(p) \in 1 .. Len(t) /\ k - Len(p) \in 1 .. Len(t) + Len(p) /\ k - Len(p) <= Len(t)
        BY <1>2, <3>2
      <4>2. (t \o p)[k - Len(p)] = t[k - Len(p)]
        BY <2>5, <4>1
      <4>3. (ap \o st)[k].deps = t[k - Len(p)].deps
        BY <1>2, <1>3, <2>4, <3>2, <4>1
      <4>4. QED
        BY <2>5, <4>1, <4>2, <4>3
    <3>3. QED
      BY <3>1, <3>2
  <2>7. QED
    BY <2>1, <2>4, <2>6
<1>6. QED
  BY <1>4, <1>5

\* Numbers of batches grow.
LEMMA BatchNumbers ==
    ASSUME NEW entries, NEW j \in Nat, NEW k \in Nat, j <= k
    PROVE  /\ Grade!BatchNumber(entries, k) \in Nat
           /\ Grade!BatchNumber(entries, j) <= Grade!BatchNumber(entries, k)
           /\ j < k /\ entries[k].batched =>
                Grade!BatchNumber(entries, j) < Grade!BatchNumber(entries, k)
           /\ k > 0 /\ entries[k].batched => Grade!BatchNumber(entries, k) > 0
<1> DEFINE B(n) == {b \in 1 .. n : entries[b].batched}
<1>1. \A n \in Nat : IsFiniteSet(B(n))
  <2> TAKE n \in Nat
  <2>1. IsFiniteSet(1 .. n)
    BY FS_Interval
  <2>2. QED
    BY <2>1, FS_Subset
<1>2. /\ Cardinality(B(k)) \in Nat /\ Cardinality(B(j)) \in Nat
      /\ B(j) \subseteq B(k)
  BY <1>1, FS_CardinalityType
<1>3. Cardinality(B(j)) <= Cardinality(B(k))
  BY <1>1, <1>2, FS_Subset
<1>4. ASSUME j < k, entries[k].batched PROVE Cardinality(B(j)) < Cardinality(B(k))
  <2>1. k \in B(k) /\ k \notin B(j)
    BY <1>4
  <2>2. B(j) # B(k)
    BY <2>1
  <2>3. QED
    BY <1>1, <1>2, <1>3, <2>2, FS_Subset
<1>5. ASSUME k > 0, entries[k].batched PROVE Cardinality(B(k)) > 0
  <2>1. k \in B(k)
    BY <1>5
  <2>2. B(k) # {}
    BY <2>1
  <2>3. Cardinality(B(k)) # 0
    BY <1>1, <2>2, FS_EmptySet
  <2>4. QED
    BY <1>2, <2>3
<1>6. /\ Grade!BatchNumber(entries, j) = Cardinality(B(j))
      /\ Grade!BatchNumber(entries, k) = Cardinality(B(k))
  BY GradeCardinality DEF Grade!BatchNumber
<1> HIDE DEF B
<1>7. QED
  BY <1>2, <1>3, <1>4, <1>5, <1>6

\* The cases of a problem, batch after batch.
LEMMA FlattenedTypes ==
    ASSUME problem \in [tests : Seq(EntryTypes), pretests : Seq(EntryTypes)],
           pretestsOnly \in BOOLEAN, Grade!Resolves(Grade!Resolved), flat' = Grade!Flattened,
           UNCHANGED <<problem, pretestsOnly>>
    PROVE  flat' \in Seq(CaseTypes) /\ Grouped' /\ NoneOnZero'
<1>1. PICK E \in Seq(EntryTypes) : E = Grade!Entries
  BY EntriesTypes
<1>2. Len(E) \in Nat /\ DOMAIN E = 1 .. Len(E)
  OBVIOUS
<1> DEFINE N(k) == IF E[k].batched THEN Grade!BatchNumber(E, k) ELSE 0
           C(k) == Grade!FlatCases(E, k)
           parts == [k \in DOMAIN E |-> C(k)]
<1>3. ASSUME NEW k \in DOMAIN E
      PROVE  C(k) \in Seq(CaseTypes) /\ \A c \in DOMAIN C(k) : C(k)[c].batch = N(k)
  <2>1. E[k] \in EntryTypes
    OBVIOUS
  <2>2. E[k].cases \in Seq(Int)
    BY <2>1 DEF EntryTypes
  <2>3. PICK n \in Nat : DOMAIN E[k].cases = 1 .. n /\ \A c \in 1 .. n : E[k].cases[c] \in Int
    <3>1. Len(E[k].cases) \in Nat /\ DOMAIN E[k].cases = 1 .. Len(E[k].cases)
          /\ \A c \in 1 .. Len(E[k].cases) : E[k].cases[c] \in Int
      BY <2>2
    <3>2. QED
      BY <3>1
  <2>4. N(k) \in Nat
    BY <1>2, BatchNumbers
  <2>5. PICK b \in BOOLEAN : b = (~pretestsOnly /\ k <= Len(problem.pretests))
    OBVIOUS
  <2>10. Grade!BatchNo(k) \in Nat
    <3>1. k \in Nat /\ Len(problem.tests) \in Nat /\ Len(problem.pretests) \in Nat
      BY <1>2
    <3>2. \A at \in Nat : Grade!BatchNumber(Grade!Resolved, at) \in Nat
      BY BatchNumbers
    <3>3. PICK t \in BOOLEAN : t = (pretestsOnly /\ problem.pretests # <<>>)
      OBVIOUS
    <3> DEFINE at == IF t THEN k
                     ELSE IF k <= Len(problem.pretests) THEN Len(problem.tests) + k
                     ELSE k - Len(problem.pretests)
    <3>4. at \in Nat
      BY <3>1
    <3>5. Grade!BatchNo(k) = Grade!BatchNumber(Grade!Resolved, at)
      BY <3>3, Zenon DEF Grade!BatchNo
    <3> HIDE DEF at
    <3>6. QED
      BY <3>2, <3>4, <3>5
  <2>11. PICK o \in Nat : o = IF E[k].batched THEN Grade!BatchNo(k) ELSE 0
    BY <2>10
  <2>6. C(k) = [c \in 1 .. n |->
                  [batch |-> N(k), no |-> o, points |-> E[k].cases[c], pretest |-> b]]
    BY <2>3, <2>5, <2>11 DEF Grade!FlatCases
  <2> HIDE DEF N, C
  <2>7. \A c \in 1 .. n : C(k)[c] \in CaseTypes /\ C(k)[c].batch = N(k)
    BY <2>3, <2>4, <2>6 DEF CaseTypes
  <2>8. C(k) \in [1 .. n -> CaseTypes]
    BY <2>6, <2>7
  <2>9. QED
    BY <2>7, <2>8
<1>4. flat' = Grade!FlattenSeq(parts)
  BY <1>1 DEF Grade!Flattened
<1> HIDE DEF C
<1>5. parts \in Seq(Seq(CaseTypes)) /\ Len(parts) = Len(E) /\ \A k \in DOMAIN E : parts[k] = C(k)
  BY <1>2, <1>3
<1> HIDE DEF parts
<1>15. PICK f \in Seq(CaseTypes) : f = flat'
  BY <1>4, <1>5, Flattens
<1>6. PICK from : f = flat' /\ Joins(f, parts, from)
  BY <1>4, <1>5, <1>15, Flattens
<1>7. Len(f) \in Nat /\ DOMAIN f = 1 .. Len(f)
  OBVIOUS
<1>8. ASSUME NEW p \in DOMAIN f
      PROVE  from[p] \in DOMAIN E /\ f[p].batch = N(from[p])
  <2>1. from[p] \in DOMAIN E
    BY <1>2, <1>5, <1>6, <1>7 DEF Joins
  <2>2. PICK c \in DOMAIN parts[from[p]] : f[p] = parts[from[p]][c]
    BY <1>6, <1>7 DEF Joins
  <2>3. QED
    BY <1>3, <1>5, <2>1, <2>2
<1>9. \A p, q \in DOMAIN f : p <= q => from[p] <= from[q]
  BY <1>6, <1>7 DEF Joins
<1>10. ASSUME NEW p \in DOMAIN f, NEW q \in DOMAIN f, NEW r \in DOMAIN f,
              p <= q, q <= r, f[p].batch = f[r].batch, f[p].batch # 0
       PROVE  f[q].batch = f[p].batch
  <2>1. from[p] <= from[q] /\ from[q] <= from[r]
    BY <1>9, <1>10
  <2>2. PICK a \in DOMAIN E, b \in DOMAIN E, c \in DOMAIN E : a = from[p] /\ b = from[q] /\ c = from[r]
    BY <1>8
  <2>3. N(a) = N(c) /\ N(a) # 0
    BY <1>8, <1>10, <2>2
  <2>4. ~(a < c)
    <3> SUFFICES ASSUME a < c PROVE FALSE
      OBVIOUS
    <3>1. Grade!BatchNumber(E, a) < Grade!BatchNumber(E, c) /\ Grade!BatchNumber(E, a) \in Nat
          /\ Grade!BatchNumber(E, c) \in Nat
      <4>1. a \in Nat /\ c \in Nat /\ a <= c /\ a <= a /\ E[c].batched
        BY <1>2, <2>3
      <4>2. QED
        BY <4>1, BatchNumbers
    <3>2. QED
      BY <2>3, <3>1
  <2>5. a = b /\ b = c
    BY <1>2, <2>1, <2>2, <2>4
  <2>6. QED
    BY <1>8, <2>2, <2>5
<1>11. ASSUME NEW p \in DOMAIN f PROVE 0 \notin DepsOf(f[p].batch)
  <2>1. PICK k \in DOMAIN E : k = from[p] /\ f[p].batch = N(k)
    BY <1>8
  <2>2. CASE N(k) = 0
    BY <2>1, <2>2 DEF DepsOf
  <2>3. CASE N(k) # 0
    <3> DEFINE IsIt(j) == E[j].batched /\ Grade!BatchNumber(E, j) = N(k)
               it == CHOOSE j \in DOMAIN E : IsIt(j)
    <3>1. IsIt(k)
      BY <2>3
    <3>2. it \in DOMAIN E /\ IsIt(it)
      BY <3>1
    <3>3. Grade!Deps(f[p].batch) = E[it].deps
      BY <1>1, <2>1 DEF Grade!Deps
    <3>4. PICK j \in DOMAIN Grade!Resolved : E[it].deps = Grade!Resolved[j].deps
      BY <1>1, <3>2, EntriesTypes
    <3>5. \A d \in Grade!Resolved[j].deps : d \in 1 .. Grade!BatchNumber(Grade!Resolved, j) - 1
      BY DEF Grade!Resolves
    <3>6. 0 \notin Grade!Resolved[j].deps
      BY <3>5
    <3>7. QED
      BY <3>3, <3>4, <3>6 DEF DepsOf
  <2>4. QED
    BY <2>2, <2>3
<1>12. Grouped'
  BY <1>6, <1>10 DEF Grouped
<1>13. NoneOnZero'
  <2>1. \A b : DepsOf(b)' = DepsOf(b)
    BY SettingKept
  <2>2. QED
    BY <1>6, <1>11, <2>1 DEF NoneOnZero
<1>14. QED
  BY <1>6, <1>12, <1>13

LEMMA ResolveKeeps ==
    ASSUME GradeInv, Grade!Resolve
    PROVE  GradeInv'
<1>1. /\ pc = "resolve" /\ pc' \in {"raised", "end", "group"}
      /\ UNCHANGED <<problem, pretestsOnly, short, i, batch, isSC, enabled, passed>>
      /\ \/ flat' = flat
         \/ Grade!Resolves(Grade!Resolved) /\ flat' = Grade!Flattened
      /\ sent' = sent \/ Grade!Send("COMPILE_ERROR") \/ Grade!Send("GRADING_BEGIN")
  BY DEF Grade!Resolve
<1>2. /\ i = 1 /\ flat = <<>> /\ passed = {} /\ isSC = FALSE /\ enabled = short
      /\ sent = <<>>
  BY <1>1 DEF GradeInv, Begun
<1>3. sent' \in Seq(GroupMessages \cup ResultMessages) /\ Grade!Results' = Grade!Results
  <2>1. CASE sent' = sent
    BY <2>1 DEF GradeInv, GradeTypes, Grade!Results
  <2>2. ASSUME NEW k \in {"COMPILE_ERROR", "GRADING_BEGIN"}, Grade!Send(k)
        PROVE  sent' \in Seq(GroupMessages \cup ResultMessages) /\ Grade!Results' = Grade!Results
    <3>1. PICK m \in GroupMessages : m = [kind |-> k, batch |-> batch]
      BY DEF GradeInv, GradeTypes, GroupMessages
    <3>2. QED
      BY <2>2, <3>1, Announced DEF GradeInv, Grade!Send
  <2>3. QED
    BY <1>1, <2>1, <2>2
<1>4. Grade!Results = {}
  BY <1>2 DEF Grade!Results
<1>5. flat' \in Seq(CaseTypes) /\ Grouped' /\ NoneOnZero'
  <2>1. CASE flat' = flat
    <3>1. \A b : DepsOf(b)' = DepsOf(b)
      BY <1>1, SettingKept
    <3>2. QED
      BY <2>1, <3>1 DEF GradeInv, GradeTypes, Grouped, NoneOnZero
  <2>2. CASE Grade!Resolves(Grade!Resolved) /\ flat' = Grade!Flattened
    BY <1>1, <2>2, FlattenedTypes DEF GradeInv, GradeTypes
  <2>3. QED
    BY <1>1, <2>1, <2>2
<1>6. GradeTypes'
  <2>1. i' \in 1 .. Len(flat') + 1
    BY <1>1, <1>2, <1>5
  <2>2. QED
    BY <1>1, <1>3, <1>5, <2>1 DEF GradeInv, GradeTypes
<1>7. \A n : n \notin 1 .. i' - 1
  BY <1>1, <1>2
<1>8. ResultsInOrder' /\ Groups' /\ PassedAll' /\ NotPassedAll' /\ ShortCircuit' /\ Begun'
  <2>1. Groups'
    BY <1>1, <1>7 DEF Groups
  <2>2. ResultsInOrder'
    BY <1>3, <1>4, <1>7 DEF ResultsInOrder
  <2>3. PassedAll' /\ NotPassedAll'
    BY <1>1, <1>2, <1>7 DEF PassedAll, NotPassedAll
  <2>4. ShortCircuit' /\ Begun'
    BY <1>1 DEF ShortCircuit, Begun
  <2>5. QED
    BY <2>1, <2>2, <2>3, <2>4
<1>9. Enabled' /\ Reason'
  BY <1>1, <1>2, <1>3, <1>4 DEF Enabled, Reason
<1>10. Dependencies' /\ Grade!FailureStops' /\ SkipsHaveReason'
  BY <1>3, <1>4 DEF Dependencies, Grade!FailureStops, SkipsHaveReason
<1>11. QED
  BY <1>5, <1>6, <1>8, <1>9, <1>10 DEF GradeInv

-------------------------------------------------------------------------------
(* Together *)

LEMMA SkipKeeps ==
    ASSUME GradeInv, Grade!Skip
    PROVE  GradeInv'
<1>1. /\ pc = "case" /\ Grade!InGroup /\ isSC /\ Grade!Report("SC")
      /\ UNCHANGED <<problem, pretestsOnly, short, flat, batch, passed, isSC, enabled>>
  BY DEF Grade!Skip, Grade!setting
<1>2. QED
  BY <1>1, ReportKeeps

LEMMA GradeKeeps ==
    ASSUME GradeInv, Grade!Grade
    PROVE  GradeInv'
<1>1. /\ pc = "case" /\ Grade!InGroup /\ ~isSC
      /\ UNCHANGED <<problem, pretestsOnly, short, flat, batch, passed>>
  BY DEF Grade!Grade, Grade!setting
<1>2. CASE Grade!Report("passed") /\ UNCHANGED <<isSC, enabled>>
  BY <1>1, <1>2, ReportKeeps
<1>3. CASE /\ Grade!Report("failed")
           /\ enabled' = (enabled \/ flat[i].points = 0)
           /\ isSC' = (batch # 0 \/ enabled')
  BY <1>1, <1>3, ReportKeeps
<1>4. QED
  BY <1>2, <1>3 DEF Grade!Grade

LEMMA ImageFinite ==
    ASSUME NEW S, IsFiniteSet(S), NEW f, DOMAIN f = S
    PROVE  Cardinality({f[x] : x \in S}) \in Nat
<1> DEFINE T == {f[x] : x \in S}
           g == [x \in S |-> f[x]]
<1>1. g \in Surjection(S, T)
  BY DEF Surjection
<1>2. IsFiniteSet(T)
  BY <1>1, FS_Surjection
<1>3. QED
  BY <1>2, FS_CardinalityType

\* The entries of an archive's files.
LEMMA MatchTypes ==
    ASSUME NEW files \in SUBSET Files
    PROVE  Grade!Match(files) \in Seq(EntryTypes)
<1>1. IsFiniteSet(files)
  BY LayoutAssumption, FS_Subset
<1> DEFINE G == [x \in files |-> Grade!GroupOf(x)]
<1>2. PICK n \in Nat : n = Cardinality({G[x] : x \in files})
  BY <1>1, ImageFinite
<1>3. DOMAIN Grade!Groups(files) = 1 .. n
  <2>1. {G[x] : x \in files} = {Grade!GroupOf(x) : x \in files}
    OBVIOUS
  <2>2. QED
    BY <1>2, <2>1, GradeCardinality DEF Grade!Groups, Grade!Sorted
<1>4. ASSUME NEW g PROVE [c \in DOMAIN Grade!CasesOf(files, g) |-> Grade!Inherited] \in Seq(Int)
  <2> DEFINE group == {x \in files : Grade!GroupOf(x) = g}
             N == [x \in group |-> x.case]
  <2>1. IsFiniteSet(group)
    BY <1>1, FS_Subset
  <2>2. PICK c \in Nat : c = Cardinality({N[x] : x \in group})
    BY <2>1, ImageFinite
  <2>3. {N[x] : x \in group} = {x.case : x \in group}
    OBVIOUS
  <2>4. DOMAIN Grade!CasesOf(files, g) = 1 .. c
    BY <2>2, <2>3, GradeCardinality DEF Grade!CasesOf, Grade!Sorted
  <2>5. QED
    BY <2>4 DEF Grade!Inherited
<1> DEFINE E(k) ==
        LET g == Grade!Groups(files)[k] IN
        IF Grade!IsBatch(files, g)
        THEN Grade!Batch(1, [c \in DOMAIN Grade!CasesOf(files, g) |-> Grade!Inherited], {})
        ELSE Grade!Single(1)
<1>5. ASSUME NEW k \in 1 .. n PROVE E(k) \in EntryTypes
  <2>1. Grade!Single(1) \in EntryTypes
    BY DEF Grade!Single, EntryTypes
  <2>2. ASSUME NEW l \in Seq(Int) PROVE Grade!Batch(1, l, {}) \in EntryTypes
    BY DEF Grade!Batch, EntryTypes
  <2>3. QED
    BY <1>4, <2>1, <2>2
<1>6. Grade!Match(files) = [k \in 1 .. n |-> E(k)]
  BY <1>3 DEF Grade!Match
<1> HIDE DEF E
<1>7. QED
  BY <1>5, <1>6

LEMMA GradeBegins ==
    ASSUME Grade!Init
    PROVE  GradeInv
<1>1. /\ pretestsOnly \in BOOLEAN /\ short \in BOOLEAN
      /\ pc = "resolve" /\ flat = <<>> /\ i = 1 /\ batch = 0 /\ isSC = FALSE /\ enabled = short
      /\ passed = {} /\ sent = <<>>
  BY DEF Grade!Init
<1>2. problem \in [tests : Seq(EntryTypes), pretests : Seq(EntryTypes)]
  <2>1. CASE problem \in Layouts
    BY <2>1, LayoutAssumption
  <2>2. CASE problem \notin Layouts
    <3>1. PICK files \in SUBSET Files : problem = [tests |-> Grade!Match(files), pretests |-> <<>>]
      BY <2>2 DEF Grade!Init
    <3>2. Grade!Match(files) \in Seq(EntryTypes) /\ <<>> \in Seq(EntryTypes)
      BY MatchTypes
    <3>3. QED
      BY <3>1, <3>2
  <2>3. QED
    BY <2>1, <2>2
<1>3. Grade!Results = {} /\ DOMAIN flat = {} /\ 1 .. i - 1 = {}
  BY <1>1 DEF Grade!Results
<1>4. GradeTypes
  <2>1. flat \in Seq(CaseTypes) /\ sent \in Seq(GroupMessages \cup ResultMessages) /\ Len(flat) = 0
    BY <1>1
  <2>4. short \in BOOLEAN /\ isSC = FALSE /\ enabled = short /\ batch = 0 /\ i = 1
    BY <1>1
  <2>2. i \in 1 .. Len(flat) + 1 /\ batch \in Nat /\ isSC \in BOOLEAN /\ enabled \in BOOLEAN
    <3>1. i \in 1 .. Len(flat) + 1 /\ batch \in Nat
      BY <2>1, <2>4
    <3>2. isSC \in BOOLEAN /\ enabled \in BOOLEAN
      BY <2>4
    <3>3. QED
      BY <3>1, <3>2
  <2>3. QED
    BY <1>1, <1>2, <2>1, <2>2 DEF GradeTypes
<1>5. Grouped /\ ResultsInOrder /\ Groups /\ PassedAll /\ NotPassedAll
  BY <1>1, <1>3 DEF Grouped, ResultsInOrder, Groups, PassedAll, NotPassedAll
<1>6. NoneOnZero /\ ShortCircuit /\ Enabled /\ Reason /\ Begun
  BY <1>1, <1>3 DEF NoneOnZero, ShortCircuit, Enabled, Reason, Begun
<1>7. Dependencies /\ Grade!FailureStops /\ SkipsHaveReason
  BY <1>3 DEF Dependencies, Grade!FailureStops, SkipsHaveReason
<1>8. QED
  BY <1>4, <1>5, <1>6, <1>7 DEF GradeInv

LEMMA GradeAlways == Grade!Spec => []GradeInv
<1>1. Grade!Init => GradeInv
  BY GradeBegins
<1>2. GradeInv /\ [Grade!Next]_Grade!vars => GradeInv'
  <2> SUFFICES ASSUME GradeInv, [Grade!Next]_Grade!vars PROVE GradeInv'
    OBVIOUS
  <2>1. CASE UNCHANGED Grade!vars
    <3>1. UNCHANGED <<problem, pretestsOnly, short, pc, flat, i, batch, isSC, enabled, passed, sent>>
      BY <2>1 DEF Grade!vars
    <3>2. Grade!Results' = Grade!Results
      BY <3>1 DEF Grade!Results
    <3>3. /\ \A n, s : Reported(n, s)' = Reported(n, s)
          /\ \A n : NotPassed(n)' = NotPassed(n)
          /\ \A n : Why(n)' = Why(n)
      BY <3>1, <3>2, NothingReported
    <3>4. /\ Grouped' /\ NoneOnZero' /\ ResultsInOrder'
          /\ Dependencies' /\ Grade!FailureStops' /\ SkipsHaveReason'
      BY <3>1, <3>2, NothingCounted
    <3>5. \A b : DepsOf(b)' = DepsOf(b)
      BY <3>1, SettingKept
    <3>6. DepsOf(batch)' = DepsOf(batch)
      <4>1. PICK c : c = batch
        OBVIOUS
      <4>2. DepsOf(c)' = DepsOf(c)
        BY <3>5
      <4>3. QED
        BY <3>1, <4>1, <4>2
    <3>7. GradeTypes'
      BY <3>1 DEF GradeInv, GradeTypes
    <3>8. Groups' /\ Begun'
      BY <3>1 DEF GradeInv, Groups, Begun, Grade!InGroup
    <3>9. PassedAll' /\ NotPassedAll' /\ Enabled'
      BY <3>1, <3>2, <3>3 DEF GradeInv, PassedAll, NotPassedAll, Enabled
    <3>10. ShortCircuit' /\ Reason'
      BY <3>1, <3>2, <3>3, <3>6 DEF GradeInv, ShortCircuit, Reason
    <3>11. QED
      BY <3>4, <3>7, <3>8, <3>9, <3>10 DEF GradeInv
  <2>2. CASE Grade!Next
    BY <2>2, ResolveKeeps, BeginGroupKeeps, SkipKeeps, GradeKeeps, GiveUpKeeps, EndGroupKeeps,
       GradeEndKeeps DEF Grade!Next
  <2>3. QED
    BY <2>1, <2>2
<1>3. QED
  BY <1>1, <1>2, PTL DEF Grade!Spec

\* Whatever the problem's batches, dependencies and pretests: where the worker
\* and the problem count the batches alike, no case of a batch is graded before
\* every case of every batch it depends on was graded and passed (problem.py,
\* _grade_cases).
THEOREM DependenciesComeFirst == Grade!Spec => []DependenciesFirst
<1>1. GradeInv => DependenciesFirst
  <2> SUFFICES ASSUME GradeInv, Grade!NumbersAgree PROVE Grade!DependenciesNamed
    BY DEF DependenciesFirst, Grade!DependenciesFirst
  <2>1. \A n \in DOMAIN flat : flat[n].no = flat[n].batch
    BY DEF Grade!NumbersAgree
  <2>2. QED
    BY <2>1 DEF GradeInv, Dependencies, Grade!DependenciesNamed
<1>2. QED
  BY <1>1, GradeAlways, PTL

\* After a case fails, no case of its batch is graded, nor any case at all when
\* the submission short-circuits or the case is worth nothing (_grade_cases).
THEOREM FailureAlwaysStops == Grade!Spec => []FailureStops
<1>1. GradeInv => FailureStops
  BY DEF GradeInv, FailureStops
<1>2. QED
  BY <1>1, GradeAlways, PTL

\* Where the worker and the problem count the batches alike, a case is skipped
\* only for a failure before it, or for a batch whose
\* dependencies did not all pass, and only in that batch unless the failure
\* ends everything (_grade_cases).
THEOREM SkipsAreNeeded == Grade!Spec => []NoNeedlessSkip
<1>1. GradeInv => NoNeedlessSkip
  <2> SUFFICES ASSUME GradeInv, Grade!NumbersAgree, NEW m \in Grade!Results, m.status = "SC"
               PROVE  \E n \in 1 .. m.number :
                        /\ Grade!Cause(n)
                        /\ \/ flat[n].batch # 0 /\ flat[n].batch = m.batch
                           \/ short
                           \/ \E k \in 1 .. m.number : Grade!Failed(k) /\ flat[k].points = 0
    BY DEF NoNeedlessSkip, Grade!NoNeedlessSkip
  <2>1. PICK n \in 1 .. m.number :
            /\ Why(n)
            /\ \/ flat[n].batch # 0 /\ flat[n].batch = m.batch
               \/ short
               \/ \E k \in 1 .. m.number : Reported(k, "failed") /\ flat[k].points = 0
    BY DEF GradeInv, SkipsHaveReason
  <2>2. \A k : Reported(k, "failed") <=> Grade!Failed(k)
    BY DEF Reported, Grade!Failed
  <2>3. ASSUME NEW j, NotPassed(j) PROVE Grade!StatusOf(j) # "passed"
    <3>1. PICK x \in Grade!Results : x.number = j /\ x.status \in {"failed", "SC"}
      BY <2>3 DEF NotPassed, Reported
    <3>2. \A y \in Grade!Results : y.number = j => y = x
      BY <3>1 DEF GradeInv, ResultsInOrder
    <3>3. (CHOOSE y \in Grade!Results : y.number = j) = x
      BY <3>1, <3>2
    <3>4. QED
      BY <3>1, <3>3 DEF Grade!StatusOf
  <2>4. Grade!Cause(n)
    <3>1. CASE Reported(n, "failed")
      BY <2>2, <3>1 DEF Grade!Cause
    <3>2. CASE ~Reported(n, "failed")
      <4>1. PICK d \in DepsOf(flat[n].batch) : \A k \in 1 .. n - 1 :
              flat[k].batch = d => \E j \in 1 .. n - 1 : flat[j].batch = d /\ NotPassed(j)
        BY <2>1, <3>2 DEF Why
      <4>2. flat[n].batch # 0 /\ d \in Grade!Deps(flat[n].batch)
        BY DEF DepsOf
      <4>3. n \in Nat /\ n - 1 < n /\ n \in DOMAIN flat
        <5>1. m.number \in 1 .. i - 1 /\ i \in 1 .. Len(flat) + 1 /\ flat \in Seq(CaseTypes)
          BY DEF GradeInv, ResultsInOrder, GradeTypes
        <5>2. QED
          BY <5>1
      <4>4. \A k \in 1 .. n - 1 : flat[k].no = flat[k].batch
        <5>1. \A k \in 1 .. n - 1 : k \in DOMAIN flat
          BY <4>3 DEF GradeInv, GradeTypes
        <5>2. QED
          BY <5>1 DEF Grade!NumbersAgree
      <4>5. \A k \in 1 .. n - 1 : flat[k].no = d =>
              \E j \in 1 .. n - 1 : flat[j].no = d /\ Grade!StatusOf(j) # "passed"
        BY <2>3, <4>1, <4>4
      <4>6. QED
        BY <4>2, <4>5 DEF Grade!Cause
    <3>3. QED
      BY <3>1, <3>2
  <2>5. QED
    BY <2>1, <2>2, <2>4
<1>2. QED
  BY <1>1, GradeAlways, PTL

-------------------------------------------------------------------------------
(* Paths: what normpath and realpath return.                               *)

\* What both go through of the components of p, with links followed or not.
Step(q, c, follow) ==
    IF c = ".." THEN SubSeq(q, 1, Len(q) - 1)
    ELSE LET next == Append(q, c)
         IN  IF follow /\ Policy!IsLink(next) THEN Tree[next].target ELSE next

IsWalk(f, n, p, follow) ==
    f = [k \in 0 .. n |-> IF k = 0 THEN <<>> ELSE Step(f[k - 1], p[k], follow)]

LEMMA WalkIs ==
    ASSUME NEW p, NEW follow, NEW L \in Nat
    PROVE  \E f : IsWalk(f, L, p, follow)
<1> DEFINE N == {n \in Nat : ~ \E f : IsWalk(f, n, p, follow)}
<1> SUFFICES ASSUME N # {} PROVE FALSE
  OBVIOUS
<1>1. PICK n \in N : \A m \in N : n <= m
  <2>1. N \in SUBSET Nat
    OBVIOUS
  <2>2. QED
    BY <2>1, Least
<1>2. n # 0
  <2> DEFINE f == [k \in 0 .. 0 |-> <<>>]
  <2> SUFFICES ASSUME n = 0 PROVE IsWalk(f, 0, p, follow)
    OBVIOUS
  <2> QED
    BY DEF IsWalk
<1>3. n - 1 \in Nat /\ ~(n <= n - 1)
  BY <1>2
<1>4. PICK f : IsWalk(f, n - 1, p, follow)
  BY <1>1, <1>3
<1> DEFINE g == [k \in 0 .. n |-> IF k = n THEN Step(f[k - 1], p[k], follow) ELSE f[k]]
<1>5. ASSUME NEW k \in 0 .. n
      PROVE  g[k] = IF k = 0 THEN <<>> ELSE Step(g[k - 1], p[k], follow)
  <2>1. CASE k = n
    <3>1. k - 1 \in 0 .. n /\ k - 1 # n
      BY <1>3, <2>1
    <3>2. g[k - 1] = f[k - 1] /\ g[k] = Step(f[k - 1], p[k], follow)
      BY <2>1, <3>1
    <3>3. QED
      BY <1>2, <2>1, <3>2
  <2>2. CASE k # n
    <3>1. k \in 0 .. n - 1 /\ (k # 0 => k - 1 \in 0 .. n /\ k - 1 # n)
      BY <1>3, <2>2
    <3>2. f[k] = IF k = 0 THEN <<>> ELSE Step(f[k - 1], p[k], follow)
      BY <1>4, <3>1 DEF IsWalk
    <3>3. g[k] = f[k] /\ (k # 0 => g[k - 1] = f[k - 1])
      BY <2>2, <3>1
    <3>4. QED
      BY <3>2, <3>3
  <2>3. QED
    BY <2>1, <2>2
<1>6. IsWalk(g, n, p, follow)
  <2>1. g = [k \in 0 .. n |-> g[k]]
    OBVIOUS
  <2> HIDE DEF g
  <2>2. QED
    BY <1>5, <2>1 DEF IsWalk
<1>7. QED
  BY <1>6

LEMMA NormalWalks ==
    ASSUME NEW p \in Seq(STRING)
    PROVE  \E f : IsWalk(f, Len(p), p, FALSE) /\ Policy!Normal(p) = f[Len(p)]
<1> DEFINE Is(f) == f = [k \in 0 .. Len(p) |->
                IF k = 0 THEN <<>>
                ELSE IF p[k] = ".." THEN SubSeq(f[k - 1], 1, Len(f[k - 1]) - 1)
                ELSE Append(f[k - 1], p[k])]
<1>1. \A f : Is(f) <=> IsWalk(f, Len(p), p, FALSE)
  BY DEF IsWalk, Step
<1>2. \E f : Is(f)
  <2> HIDE DEF Is
  <2>1. Len(p) \in Nat
    OBVIOUS
  <2>2. QED
    BY <1>1, <2>1, WalkIs
<1>3. PICK f : Is(f) /\ Policy!Normal(p) = f[Len(p)]
  BY <1>2 DEF Policy!Normal
<1>4. QED
  BY <1>1, <1>3

LEMMA RealWalks ==
    ASSUME NEW p \in Seq(STRING)
    PROVE  \E f : IsWalk(f, Len(p), p, TRUE) /\ Policy!Real(p) = f[Len(p)]
<1> DEFINE Is(f) == f = [k \in 0 .. Len(p) |->
                IF k = 0 THEN <<>>
                ELSE IF p[k] = ".." THEN SubSeq(f[k - 1], 1, Len(f[k - 1]) - 1)
                ELSE LET next == Append(f[k - 1], p[k])
                     IN  IF Policy!IsLink(next) THEN Tree[next].target ELSE next]
<1>1. \A f : Is(f) <=> IsWalk(f, Len(p), p, TRUE)
  BY DEF IsWalk, Step
<1>2. \E f : Is(f)
  <2> HIDE DEF Is
  <2>1. Len(p) \in Nat
    OBVIOUS
  <2>2. QED
    BY <1>1, <2>1, WalkIs
<1>3. PICK f : Is(f) /\ Policy!Real(p) = f[Len(p)]
  BY <1>2 DEF Policy!Real
<1>4. QED
  BY <1>1, <1>3

\* No name on the way to q, nor q, is a link.
Linkless(q) == \A k \in 0 .. Len(q) : ~Policy!IsLink(SubSeq(q, 1, k))

LEMMA Prefixes ==
    ASSUME NEW S, NEW q \in Seq(S)
    PROVE  /\ \A m \in 0 .. Len(q) : SubSeq(q, 1, m) \in Seq(S) /\ Len(SubSeq(q, 1, m)) = m
           /\ \A m \in 0 .. Len(q) : \A k \in 0 .. m :
                SubSeq(SubSeq(q, 1, m), 1, k) = SubSeq(q, 1, k)
           /\ SubSeq(q, 1, Len(q)) = q
           /\ SubSeq(q, 1, 0) = <<>>
           /\ SubSeq(q, 1, -1) = <<>>
<1>1. ASSUME NEW m \in 0 .. Len(q) PROVE SubSeq(q, 1, m) \in Seq(S) /\ Len(SubSeq(q, 1, m)) = m
  OBVIOUS
<1>2. ASSUME NEW m \in 0 .. Len(q), NEW k \in 0 .. m
      PROVE  SubSeq(SubSeq(q, 1, m), 1, k) = SubSeq(q, 1, k)
  <2>1. k \in 0 .. Len(q)
    BY <1>2
  <2> DEFINE a == SubSeq(SubSeq(q, 1, m), 1, k)
             b == SubSeq(q, 1, k)
  <2>2. a \in Seq(S) /\ b \in Seq(S) /\ Len(a) = k /\ Len(b) = k
    BY <1>1, <2>1
  <2>3. ASSUME NEW x \in 1 .. k PROVE a[x] = b[x]
    BY <1>1, <2>1
  <2>4. QED
    BY <2>2, <2>3
<1>3. QED
  BY <1>1, <1>2

LEMMA Appended ==
    ASSUME NEW S, NEW q \in Seq(S), NEW c \in S
    PROVE  /\ Append(q, c) \in Seq(S) /\ Len(Append(q, c)) = Len(q) + 1
           /\ \A k \in 0 .. Len(q) : SubSeq(Append(q, c), 1, k) = SubSeq(q, 1, k)
<1>1. Append(q, c) \in Seq(S) /\ Len(Append(q, c)) = Len(q) + 1
  OBVIOUS
<1>2. ASSUME NEW k \in 0 .. Len(q) PROVE SubSeq(Append(q, c), 1, k) = SubSeq(q, 1, k)
  <2> DEFINE a == SubSeq(Append(q, c), 1, k)
             b == SubSeq(q, 1, k)
  <2>1. a \in Seq(S) /\ b \in Seq(S) /\ Len(a) = k /\ Len(b) = k
    OBVIOUS
  <2>2. ASSUME NEW x \in 1 .. k PROVE a[x] = b[x]
    OBVIOUS
  <2>3. QED
    BY <2>1, <2>2
<1>3. QED
  BY <1>1, <1>2

LEMMA StepPlain ==
    ASSUME NEW q \in Plainly, NEW c \in STRING, NEW follow
    PROVE  /\ Step(q, c, follow) \in Plainly
           /\ follow /\ Linkless(q) => Linkless(Step(q, c, follow))
<1>1. Len(q) \in Nat
  BY DEF Plainly
<1>2. CASE c = ".."
  <2>1. CASE Len(q) = 0
    <3>1. q = <<>> /\ Step(q, c, follow) = <<>>
      BY <1>2, <2>1, Prefixes DEF Step, Plainly
    <3>2. QED
      BY <3>1
  <2>2. CASE Len(q) # 0
    <3>1. Len(q) - 1 \in 0 .. Len(q) /\ Step(q, c, follow) = SubSeq(q, 1, Len(q) - 1)
      BY <1>1, <1>2, <2>2 DEF Step
    <3>2. /\ SubSeq(q, 1, Len(q) - 1) \in Plainly
          /\ Len(SubSeq(q, 1, Len(q) - 1)) = Len(q) - 1
          /\ \A k \in 0 .. Len(q) - 1 : SubSeq(SubSeq(q, 1, Len(q) - 1), 1, k) = SubSeq(q, 1, k)
      BY <3>1, Prefixes DEF Plainly
    <3>3. ASSUME Linkless(q) PROVE Linkless(SubSeq(q, 1, Len(q) - 1))
      <4> SUFFICES ASSUME NEW k \in 0 .. Len(q) - 1
                   PROVE  ~Policy!IsLink(SubSeq(SubSeq(q, 1, Len(q) - 1), 1, k))
        BY <3>2 DEF Linkless
      <4>1. k \in 0 .. Len(q)
        BY <1>1
      <4>2. QED
        BY <3>2, <3>3, <4>1 DEF Linkless
    <3>4. QED
      BY <3>1, <3>2, <3>3
  <2>3. QED
    BY <2>1, <2>2
<1>3. CASE c # ".."
  <2> DEFINE next == Append(q, c)
  <2>1. /\ next \in Plainly /\ Len(next) = Len(q) + 1
        /\ \A k \in 0 .. Len(q) : SubSeq(next, 1, k) = SubSeq(q, 1, k)
    BY <1>3, Appended DEF Plainly
  <2> HIDE DEF next
  <2>2. CASE follow /\ Policy!IsLink(next)
    <3>1. Step(q, c, follow) = Tree[next].target
      BY <1>3, <2>2 DEF Step, next
    <3>2. next \in DOMAIN Tree /\ Tree[next].kind = "link"
      BY <2>2 DEF Policy!IsLink
    <3>3. Tree[next].target \in Plainly
      BY <3>2, TreeAssumption
    <3>4. Linkless(Tree[next].target)
      BY <3>2, TreeAssumption DEF Linkless, Policy!IsLink
    <3>5. QED
      BY <3>1, <3>3, <3>4
  <2>3. CASE ~(follow /\ Policy!IsLink(next))
    <3>1. Step(q, c, follow) = next
      BY <1>3, <2>3 DEF Step, next
    <3>2. SubSeq(next, 1, Len(q) + 1) = next
      BY <2>1, Prefixes DEF Plainly
    <3>3. follow /\ Linkless(q) => Linkless(next)
      <4> SUFFICES ASSUME follow, Linkless(q), NEW k \in 0 .. Len(q) + 1
                   PROVE  ~Policy!IsLink(SubSeq(next, 1, k))
        BY <2>1 DEF Linkless
      <4>1. CASE k = Len(q) + 1
        BY <2>3, <3>2, <4>1
      <4>2. CASE k # Len(q) + 1
        <5>1. k \in 0 .. Len(q)
          BY <1>1, <4>2
        <5>2. QED
          BY <2>1, <5>1 DEF Linkless
      <4>3. QED
        BY <4>1, <4>2
    <3>4. QED
      BY <2>1, <3>1, <3>3
  <2>4. QED
    BY <2>2, <2>3
<1>4. QED
  BY <1>2, <1>3

\* A walk stays on plain paths, and on paths without links when it follows them.
LEMMA WalkPlain ==
    ASSUME NEW p \in Seq(STRING), NEW follow, NEW f, IsWalk(f, Len(p), p, follow)
    PROVE  f[Len(p)] \in Plainly /\ (follow => Linkless(f[Len(p)]))
<1> DEFINE Good(k) == f[k] \in Plainly /\ (follow => Linkless(f[k]))
           N == {k \in 0 .. Len(p) : ~Good(k)}
<1>1. Len(p) \in Nat /\ \A k \in 1 .. Len(p) : p[k] \in STRING
  OBVIOUS
<1> SUFFICES ASSUME N # {} PROVE FALSE
  BY <1>1
<1>2. PICK k \in N : \A m \in N : k <= m
  <2>1. N \in SUBSET Nat
    OBVIOUS
  <2>2. QED
    BY <2>1, Least
<1>3. f[k] = IF k = 0 THEN <<>> ELSE Step(f[k - 1], p[k], follow)
  BY <1>1, <1>2 DEF IsWalk
<1>4. k # 0
  <2> SUFFICES ASSUME k = 0 PROVE FALSE
    OBVIOUS
  <2>1. f[k] = <<>> /\ <<>> \in Plainly
    BY <1>3 DEF Plainly
  <2>2. Linkless(<<>>)
    <3>1. \A j \in 0 .. Len(<<>>) : SubSeq(<<>>, 1, j) = <<>>
      OBVIOUS
    <3>2. QED
      BY <3>1, TreeAssumption DEF Linkless, Policy!IsLink
  <2>3. QED
    BY <2>1, <2>2
<1>5. k - 1 \in 0 .. Len(p) /\ ~(k <= k - 1) /\ k \in 1 .. Len(p)
  BY <1>1, <1>4
<1>6. Good(k - 1)
  BY <1>2, <1>5
<1>7. Good(k)
  BY <1>1, <1>3, <1>4, <1>5, <1>6, StepPlain
<1>8. QED
  BY <1>2, <1>7

\* A plain path is what it says, and where it leads when there is no link on it.
LEMMA WalkSame ==
    ASSUME NEW p \in Plainly, NEW follow, follow => Linkless(p),
           NEW f, IsWalk(f, Len(p), p, follow)
    PROVE  f[Len(p)] = p
<1> DEFINE Good(k) == f[k] = SubSeq(p, 1, k)
           N == {k \in 0 .. Len(p) : ~Good(k)}
<1>1. /\ Len(p) \in Nat /\ p \in Seq(STRING) /\ SubSeq(p, 1, Len(p)) = p
      /\ SubSeq(p, 1, 0) = <<>>
      /\ \A k \in 1 .. Len(p) : p[k] # ".."
  BY Prefixes DEF Plainly
<1> SUFFICES ASSUME N # {} PROVE FALSE
  BY <1>1
<1>2. PICK k \in N : \A m \in N : k <= m
  <2>1. N \in SUBSET Nat
    OBVIOUS
  <2>2. QED
    BY <2>1, Least
<1>3. f[k] = IF k = 0 THEN <<>> ELSE Step(f[k - 1], p[k], follow)
  BY <1>1, <1>2 DEF IsWalk
<1>4. k # 0
  BY <1>1, <1>3
<1>5. k - 1 \in 0 .. Len(p) /\ ~(k <= k - 1) /\ k \in 1 .. Len(p)
  BY <1>1, <1>4
<1>6. f[k - 1] = SubSeq(p, 1, k - 1)
  BY <1>2, <1>5
<1>7. Append(SubSeq(p, 1, k - 1), p[k]) = SubSeq(p, 1, k)
  <2> DEFINE a == Append(SubSeq(p, 1, k - 1), p[k])
             b == SubSeq(p, 1, k)
  <2>1. a \in Seq(STRING) /\ b \in Seq(STRING) /\ Len(a) = k /\ Len(b) = k
    BY <1>1, <1>5
  <2>2. ASSUME NEW x \in 1 .. k PROVE a[x] = b[x]
    BY <1>1, <1>5
  <2>3. QED
    BY <2>1, <2>2
<1>8. follow => ~Policy!IsLink(SubSeq(p, 1, k))
  BY <1>5 DEF Linkless
<1>9. QED
  BY <1>1, <1>3, <1>4, <1>5, <1>6, <1>7, <1>8 DEF Step

LEMMA NormalIs ==
    ASSUME NEW p \in Seq(STRING)
    PROVE  Policy!Normal(p) \in Plainly /\ (p \in Plainly => Policy!Normal(p) = p)
<1>1. PICK f : IsWalk(f, Len(p), p, FALSE) /\ Policy!Normal(p) = f[Len(p)]
  BY NormalWalks
<1>2. f[Len(p)] \in Plainly
  BY <1>1, WalkPlain
<1>3. p \in Plainly => f[Len(p)] = p
  BY <1>1, WalkSame
<1>4. QED
  BY <1>1, <1>2, <1>3

LEMMA RealIs ==
    ASSUME NEW p \in Seq(STRING)
    PROVE  /\ Policy!Real(p) \in Plainly /\ Linkless(Policy!Real(p))
           /\ p \in Plainly /\ Linkless(p) => Policy!Real(p) = p
           /\ Policy!Real(Policy!Real(p)) = Policy!Real(p)
<1>1. ASSUME NEW q \in Seq(STRING)
      PROVE  /\ Policy!Real(q) \in Plainly /\ Linkless(Policy!Real(q))
             /\ q \in Plainly /\ Linkless(q) => Policy!Real(q) = q
  <2>1. PICK f : IsWalk(f, Len(q), q, TRUE) /\ Policy!Real(q) = f[Len(q)]
    BY RealWalks
  <2>2. f[Len(q)] \in Plainly /\ Linkless(f[Len(q)])
    BY <2>1, WalkPlain
  <2>3. q \in Plainly /\ Linkless(q) => f[Len(q)] = q
    BY <2>1, WalkSame
  <2>4. QED
    BY <2>1, <2>2, <2>3
<1>2. Policy!Real(p) \in Seq(STRING)
  BY <1>1 DEF Plainly
<1>3. QED
  BY <1>1, <1>2

\* A directory is on no link, and neither is what leads to a file.
LEMMA TreeIs ==
    ASSUME NEW p \in DOMAIN Tree
    PROVE  /\ p \in Plainly
           /\ \A k \in 0 .. Len(p) - 1 :
                SubSeq(p, 1, k) \in DOMAIN Tree /\ Tree[SubSeq(p, 1, k)].kind = "dir"
           /\ ~Policy!IsLink(p) => Linkless(p)
           /\ \A k \in 0 .. Len(p) - 1 : Linkless(SubSeq(p, 1, k)) /\ Policy!IsDir(SubSeq(p, 1, k))
<1>1. /\ p \in Plainly /\ p \in Seq(STRING) /\ Len(p) \in Nat
      /\ \A k \in 0 .. Len(p) - 1 :
           SubSeq(p, 1, k) \in DOMAIN Tree /\ Tree[SubSeq(p, 1, k)].kind = "dir"
  BY TreeAssumption DEF Plainly
<1>2. /\ SubSeq(p, 1, Len(p)) = p
      /\ \A m \in 0 .. Len(p) : SubSeq(p, 1, m) \in Plainly /\ Len(SubSeq(p, 1, m)) = m
      /\ \A m \in 0 .. Len(p) : \A k \in 0 .. m : SubSeq(SubSeq(p, 1, m), 1, k) = SubSeq(p, 1, k)
  BY <1>1, Prefixes DEF Plainly
<1>3. \A k \in 0 .. Len(p) - 1 : ~Policy!IsLink(SubSeq(p, 1, k))
  BY <1>1 DEF Policy!IsLink
<1>4. ASSUME ~Policy!IsLink(p) PROVE Linkless(p)
  <2> SUFFICES ASSUME NEW k \in 0 .. Len(p) PROVE ~Policy!IsLink(SubSeq(p, 1, k))
    BY DEF Linkless
  <2>1. k = Len(p) \/ k \in 0 .. Len(p) - 1
    BY <1>1
  <2>2. QED
    BY <1>2, <1>3, <1>4, <2>1
<1>5. ASSUME NEW k \in 0 .. Len(p) - 1
      PROVE  Linkless(SubSeq(p, 1, k)) /\ Policy!IsDir(SubSeq(p, 1, k))
  <2>1. k \in 0 .. Len(p) /\ \A x \in 0 .. k : x \in 0 .. Len(p) - 1
    BY <1>1
  <2>2. Linkless(SubSeq(p, 1, k))
    BY <1>2, <1>3, <2>1 DEF Linkless
  <2>3. SubSeq(p, 1, k) \in Plainly /\ SubSeq(p, 1, k) \in Seq(STRING)
    BY <1>2, <2>1 DEF Plainly
  <2>4. Policy!Real(SubSeq(p, 1, k)) = SubSeq(p, 1, k)
    BY <2>2, <2>3, RealIs
  <2>5. QED
    BY <1>1, <2>2, <2>4 DEF Policy!IsDir
<1>6. QED
  BY <1>1, <1>4, <1>5

\* What an existing path leads to exists, is the same file, and leads to itself.
LEMMA RealExists ==
    ASSUME NEW p \in Seq(STRING), Policy!Exists(p)
    PROVE  /\ Policy!Exists(Policy!Real(p))
           /\ Policy!IsDir(Policy!Real(p)) <=> Policy!IsDir(p)
<1> DEFINE r == Policy!Real(p)
<1>1. r \in Plainly /\ Linkless(r) /\ Policy!Real(r) = r
  BY RealIs
<1>2. r \in DOMAIN Tree
  BY DEF Policy!Exists
<1> HIDE DEF r
<1>3. \A k \in 0 .. Len(r) - 1 : Policy!IsDir(SubSeq(r, 1, k))
  BY <1>2, TreeIs
<1>4. Policy!Exists(r)
  BY <1>1, <1>2, <1>3 DEF Policy!Exists
<1>5. Policy!IsDir(r) <=> Policy!IsDir(p)
  BY <1>1 DEF Policy!IsDir, r
<1>6. QED
  BY <1>4, <1>5 DEF r

-------------------------------------------------------------------------------
(* The policies: a node says what the rules say of its path.               *)

\* Where a rule puts its mode.
Ends(r) == {r.path, Policy!Real(r.path)}

Given(j, r) == r \in given[j] /\ Policy!Exists(r.path)

Modes == {"none", "exact", "recursive", "file"}

PolicyTypes ==
    /\ given \in [Policy!Jails -> SUBSET Policy!Rules]
    /\ node = [j \in Policy!Jails |-> node[j]]
    /\ \A j \in Policy!Jails : node[j] \in [DOMAIN node[j] -> Modes]

\* A node is a file where the file is one, and a directory where it is one.
NodesFit ==
    \A j \in Policy!Jails : \A p \in DOMAIN node[j] :
        /\ p \in Plainly
        /\ Policy!IsDir(p) <=> node[j][p] # "file"

\* A mode comes from a rule.
ModesFromRules ==
    \A j \in Policy!Jails : \A p \in DOMAIN node[j] : node[j][p] # "none" =>
        \E r \in Policy!Rules :
            Given(j, r) /\ p \in Ends(r) /\ (node[j][p] = "recursive" => r.type = "RecursiveDir")

\* A rule has its mode, or one that allows more.
RulesHaveModes ==
    \A j \in Policy!Jails, r \in Policy!Rules : Given(j, r) => \A p \in Ends(r) :
        /\ p \in DOMAIN node[j] /\ node[j][p] # "none"
        /\ r.type = "RecursiveDir" => node[j][p] = "recursive"

PolicyInv == PolicyTypes /\ ~asserted /\ NodesFit /\ ModesFromRules /\ RulesHaveModes

LEMMA Ranks ==
    /\ Policy!Rank("none") = 0 /\ Policy!Rank("exact") = 1
    /\ Policy!Rank("recursive") = 2 /\ Policy!Rank("file") = 3
<1> DEFINE T == <<"none", "exact", "recursive", "file">>
<1>1. T[0 + 1] = "none" /\ T[1 + 1] = "exact" /\ T[2 + 1] = "recursive" /\ T[3 + 1] = "file"
  OBVIOUS
<1>2. \A k \in 0 .. 3 : k = 0 \/ k = 1 \/ k = 2 \/ k = 3
  OBVIOUS
<1> HIDE DEF T
<1>3. \A m : Policy!Rank(m) = CHOOSE k \in 0 .. 3 : T[k + 1] = m
  BY DEF Policy!Rank, T
<1>4. ASSUME NEW k \in 0 .. 3 PROVE Policy!Rank(T[k + 1]) = k
  <2>1. \A x \in 0 .. 3 : T[x + 1] = T[k + 1] => x = k
    BY <1>1, <1>2
  <2>2. QED
    BY <1>3, <2>1
<1>5. 0 \in 0 .. 3 /\ 1 \in 0 .. 3 /\ 2 \in 0 .. 3 /\ 3 \in 0 .. 3
  OBVIOUS
<1>6. QED
  BY <1>1, <1>4, <1>5

LEMMA PermissiveIs ==
    ASSUME NEW m \in {"exact", "recursive", "file"}, NEW o \in Modes,
           o # "none" => (m = "file" <=> o = "file")
    PROVE  /\ Policy!Permissive(m, o) \in {m, o} /\ Policy!Permissive(m, o) # "none"
           /\ Policy!Permissive(m, o) = "file" <=> m = "file"
           /\ "recursive" \in {m, o} => Policy!Permissive(m, o) = "recursive"
BY Ranks DEF Policy!Permissive, Modes

LEMMA RuleIs ==
    ASSUME NEW r \in Policy!Rules
    PROVE  /\ r.path \in Plainly /\ r.path \in Seq(STRING) /\ Policy!Real(r.path) \in Plainly
           /\ r.type \in {"ExactFile", "ExactDir", "RecursiveDir"}
           /\ Policy!Mode(r) \in {"exact", "recursive", "file"}
           /\ Policy!Mode(r) = "recursive" <=> r.type = "RecursiveDir"
           /\ Policy!Exists(r.path) => \A p \in Ends(r) :
                /\ p \in Plainly /\ Policy!Exists(p)
                /\ Policy!Mode(r) # "file" <=> Policy!IsDir(p)
<1>1. /\ r.path \in Named /\ r.type \in {"ExactFile", "ExactDir", "RecursiveDir"}
      /\ Policy!Exists(r.path) => (Policy!IsDir(r.path) <=> r.type # "ExactFile")
  BY DEF Policy!Rules
<1>2. r.path \in Plainly /\ r.path \in Seq(STRING)
  BY <1>1, TreeAssumption DEF Plainly
<1>3. Policy!Real(r.path) \in Plainly
  BY <1>2, RealIs
<1>4. /\ Policy!Mode(r) \in {"exact", "recursive", "file"}
      /\ Policy!Mode(r) = "recursive" <=> r.type = "RecursiveDir"
      /\ Policy!Mode(r) = "file" <=> r.type = "ExactFile"
  BY <1>1 DEF Policy!Mode
<1>5. ASSUME Policy!Exists(r.path), NEW p \in Ends(r)
      PROVE  p \in Plainly /\ Policy!Exists(p) /\ (Policy!Mode(r) # "file" <=> Policy!IsDir(p))
  <2>1. p = r.path \/ p = Policy!Real(r.path)
    BY DEF Ends
  <2>2. /\ Policy!Exists(Policy!Real(r.path))
        /\ Policy!IsDir(Policy!Real(r.path)) <=> Policy!IsDir(r.path)
    BY <1>2, <1>5, RealExists
  <2>3. QED
    BY <1>1, <1>2, <1>3, <1>4, <1>5, <2>1, <2>2
<1>6. QED
  BY <1>1, <1>2, <1>3, <1>4, <1>5

\* The nodes of a policy, with the mode of a rule put where the rule leads to.
Fits(tree) ==
    /\ tree \in [DOMAIN tree -> Modes]
    /\ \A p \in DOMAIN tree : p \in Plainly /\ (Policy!IsDir(p) <=> tree[p] # "file")

\* The mode of a rule was put at path: nodes on the way were added, and what
\* had a mode allows as much as before.
Puts(tree, path, mode, after) ==
    /\ Fits(after)
    /\ ~Policy!Clash(tree, path, mode)
    /\ path \in DOMAIN after /\ after[path] # "none"
    /\ mode = "recursive" => after[path] = "recursive"
    /\ after[path] = mode \/ (path \in DOMAIN tree /\ after[path] = tree[path])
    /\ \A p \in DOMAIN tree :
         /\ p \in DOMAIN after
         /\ tree[p] # "none" => after[p] # "none"
         /\ tree[p] = "recursive" => after[p] = "recursive"
    /\ \A p \in DOMAIN after : p # path /\ after[p] # "none" =>
         p \in DOMAIN tree /\ after[p] = tree[p]

LEMMA Finalized ==
    ASSUME NEW tree, Fits(tree), NEW path \in Plainly, Policy!Exists(path),
           NEW mode \in {"exact", "recursive", "file"}, mode # "file" <=> Policy!IsDir(path)
    PROVE  Puts(tree, path, mode, Policy!Finalize(tree, path, mode))
<1> DEFINE after == Policy!Finalize(tree, path, mode)
           way == {SubSeq(path, 1, k) : k \in 0 .. Len(path)}
<1> HIDE DEF after, way
<1>1. /\ path \in Seq(STRING) /\ Len(path) \in Nat /\ SubSeq(path, 1, Len(path)) = path
      /\ \A k \in 0 .. Len(path) : SubSeq(path, 1, k) \in Plainly
  BY Prefixes DEF Plainly
<1>12. \A k \in 0 .. Len(path) : k = Len(path) \/ k \in 0 .. Len(path) - 1
  <2>1. Len(path) \in Nat
    BY <1>1
  <2>2. QED
    BY <2>1
<1>2. path \in way
  <2>1. Len(path) \in 0 .. Len(path)
    BY <1>1
  <2>2. QED
    BY <1>1, <2>1 DEF way
<1>3. \A k \in 0 .. Len(path) - 1 : Policy!IsDir(SubSeq(path, 1, k))
  BY DEF Policy!Exists
<1>4. \A p \in way : p \in Plainly /\ (p # path => Policy!IsDir(p))
  <2> SUFFICES ASSUME NEW k \in 0 .. Len(path)
               PROVE  /\ SubSeq(path, 1, k) \in Plainly
                      /\ SubSeq(path, 1, k) # path => Policy!IsDir(SubSeq(path, 1, k))
    BY DEF way
  <2>1. k = Len(path) \/ k \in 0 .. Len(path) - 1
    BY <1>12
  <2>2. QED
    BY <1>1, <1>3, <2>1
<1>5. \A p : /\ Policy!Old(tree, p) \in Modes
             /\ p \in DOMAIN tree => Policy!Old(tree, p) = tree[p]
             /\ p \notin DOMAIN tree => Policy!Old(tree, p) = "none"
             /\ Policy!IsDir(p) => Policy!Old(tree, p) # "file"
  BY DEF Policy!Old, Fits, Modes
<1>6. Policy!Old(tree, path) # "none" => (mode = "file" <=> Policy!Old(tree, path) = "file")
  BY <1>5 DEF Fits
<1> DEFINE new == Policy!Permissive(mode, Policy!Old(tree, path))
<1>7. /\ new \in {mode, Policy!Old(tree, path)} /\ new # "none" /\ new \in Modes
      /\ new = "file" <=> mode = "file"
      /\ "recursive" \in {mode, Policy!Old(tree, path)} => new = "recursive"
  BY <1>5, <1>6, PermissiveIs DEF Modes
<1>8. /\ DOMAIN after = DOMAIN tree \cup way
      /\ \A p \in DOMAIN after : after[p] = IF p = path THEN new ELSE Policy!Old(tree, p)
      /\ after \in [DOMAIN after -> Modes]
  BY <1>5, <1>7 DEF Policy!Finalize, after, way
<1> HIDE DEF new
<1>9. Fits(after)
  <2>1. ASSUME NEW p \in DOMAIN after
        PROVE  p \in Plainly /\ (Policy!IsDir(p) <=> after[p] # "file")
    <3>1. CASE p = path
      BY <1>7, <1>8, <3>1
    <3>2. CASE p # path /\ p \in DOMAIN tree
      BY <1>5, <1>8, <3>2 DEF Fits
    <3>3. CASE p # path /\ p \notin DOMAIN tree
      BY <1>4, <1>5, <1>8, <3>3
    <3>4. QED
      BY <3>1, <3>2, <3>3
  <2>2. QED
    BY <1>8, <2>1 DEF Fits
<1>10. ~Policy!Clash(tree, path, mode)
  <2>1. \A k \in 0 .. Len(path) - 1 : Policy!Old(tree, SubSeq(path, 1, k)) # "file"
    BY <1>3, <1>5
  <2>2. path \in DOMAIN tree => (tree[path] = "file" <=> mode = "file")
    BY DEF Fits
  <2>3. QED
    BY <2>1, <2>2 DEF Policy!Clash
<1>11. QED
  BY <1>2, <1>5, <1>7, <1>8, <1>9, <1>10 DEF Puts, after

LEMMA Added ==
    ASSUME NEW tree, Fits(tree), NEW r \in Policy!Rules, Policy!Exists(r.path)
    PROVE  LET after == Policy!AddRule(tree, r) IN
           /\ Fits(after)
           /\ \A p \in Ends(r) : ~Policy!Clash(tree, p, Policy!Mode(r))
           /\ \A p \in Ends(r) :
                /\ p \in DOMAIN after /\ after[p] # "none"
                /\ r.type = "RecursiveDir" => after[p] = "recursive"
           /\ \A p \in DOMAIN tree : tree[p] # "none" =>
                /\ p \in DOMAIN after /\ after[p] # "none"
                /\ tree[p] = "recursive" => after[p] = "recursive"
           /\ \A p \in DOMAIN after : after[p] # "none" =>
                \/ p \in Ends(r) /\ after[p] = Policy!Mode(r)
                \/ p \in DOMAIN tree /\ after[p] = tree[p]
<1> DEFINE path == r.path
           real == Policy!Real(r.path)
           mode == Policy!Mode(r)
           named == Policy!Finalize(tree, path, mode)
           both == Policy!Finalize(named, real, mode)
<1>1. Ends(r) = {path, real}
  BY DEF Ends
<1>2. /\ path \in Plainly /\ Policy!Exists(path) /\ (mode # "file" <=> Policy!IsDir(path))
      /\ real \in Plainly /\ Policy!Exists(real) /\ (mode # "file" <=> Policy!IsDir(real))
      /\ mode \in {"exact", "recursive", "file"}
      /\ r.type = "RecursiveDir" <=> mode = "recursive"
  BY <1>1, RuleIs
<1>3. Policy!AddRule(tree, r) = IF real = path THEN named ELSE both
  BY DEF Policy!AddRule
<1> HIDE DEF path, real, mode
<1>4. Puts(tree, path, mode, named)
  BY <1>2, Finalized
<1>5. ~Policy!Clash(tree, real, mode)
  <2>1. Puts(tree, real, mode, Policy!Finalize(tree, real, mode))
    BY <1>2, Finalized
  <2>2. QED
    BY <2>1 DEF Puts
<1> HIDE DEF named
<1>6. Puts(named, real, mode, both)
  <2>1. Fits(named)
    BY <1>4 DEF Puts
  <2>2. QED
    BY <1>2, <2>1, Finalized
<1> HIDE DEF both
<1>7. \A p \in Ends(r) : ~Policy!Clash(tree, p, mode)
  BY <1>1, <1>4, <1>5 DEF Puts
<1>8. \A p \in DOMAIN named : named[p] # "none" =>
        \/ p = path /\ named[p] = mode
        \/ p \in DOMAIN tree /\ named[p] = tree[p]
  BY <1>4 DEF Puts
<1>9. \A p \in DOMAIN both : both[p] # "none" =>
        \/ p \in {path, real} /\ both[p] = mode
        \/ p \in DOMAIN tree /\ both[p] = tree[p]
  <2> SUFFICES ASSUME NEW p \in DOMAIN both, both[p] # "none"
               PROVE  \/ p \in {path, real} /\ both[p] = mode
                      \/ p \in DOMAIN tree /\ both[p] = tree[p]
    OBVIOUS
  <2>1. CASE p = real /\ both[p] = mode
    BY <2>1
  <2>2. CASE ~(p = real /\ both[p] = mode)
    <3>1. p \in DOMAIN named /\ both[p] = named[p]
      BY <1>6, <2>2 DEF Puts
    <3>2. QED
      BY <1>8, <3>1
  <2>3. QED
    BY <2>1, <2>2
<1>10. CASE real = path
  BY <1>1, <1>2, <1>3, <1>4, <1>7, <1>8, <1>10 DEF Puts, mode
<1>11. CASE real # path
  <2>1. \A p \in {path, real} :
          p \in DOMAIN both /\ both[p] # "none" /\ (r.type = "RecursiveDir" => both[p] = "recursive")
    BY <1>2, <1>4, <1>6 DEF Puts
  <2>2. \A p \in DOMAIN tree : tree[p] # "none" =>
          /\ p \in DOMAIN both /\ both[p] # "none"
          /\ tree[p] = "recursive" => both[p] = "recursive"
    BY <1>4, <1>6 DEF Puts
  <2>3. Policy!AddRule(tree, r) = both
    BY <1>3, <1>11
  <2>4. QED
    BY <1>1, <1>6, <1>7, <1>9, <2>1, <2>2, <2>3 DEF Puts, mode
<1>12. QED
  BY <1>10, <1>11

LEMMA PolicyKeeps ==
    ASSUME PolicyInv, NEW j \in Policy!Jails, NEW r \in Policy!Rules, Policy!Add(j, r)
    PROVE  PolicyInv'
<1>1. /\ given' = [given EXCEPT ![j] = @ \cup {r}]
      /\ node' = [node EXCEPT ![j] = Policy!AddRule(@, r)]
      /\ asserted' = (asserted \/ (/\ Policy!Exists(r.path)
                                   /\ \/ Policy!Clash(node[j], r.path, Policy!Mode(r))
                                      \/ Policy!Clash(node[j], Policy!Real(r.path), Policy!Mode(r))))
  BY DEF Policy!Add
<1>2. /\ given \in [Policy!Jails -> SUBSET Policy!Rules] /\ node = [o \in Policy!Jails |-> node[o]]
      /\ \A o \in Policy!Jails : node[o] \in [DOMAIN node[o] -> Modes]
  BY DEF PolicyInv, PolicyTypes
<1> DEFINE after == Policy!AddRule(node[j], r)
<1>3. /\ given' \in [Policy!Jails -> SUBSET Policy!Rules] /\ node' = [o \in Policy!Jails |-> node'[o]]
      /\ node'[j] = after /\ given'[j] = given[j] \cup {r}
      /\ \A o \in Policy!Jails : o # j => node'[o] = node[o] /\ given'[o] = given[o]
  BY <1>1, <1>2
<1> HIDE DEF after
<1>4. \A o \in Policy!Jails : Fits(node[o])
  BY <1>2 DEF PolicyInv, NodesFit, Fits
<1>5. CASE ~Policy!Exists(r.path)
  <2>1. after = node[j]
    BY <1>5 DEF Policy!AddRule, after
  <2>2. node' = node /\ ~asserted'
    <3>1. \A o \in Policy!Jails : node'[o] = node[o]
      BY <1>3, <2>1
    <3>2. node' = node
      BY <1>2, <1>3, <3>1
    <3>3. ~asserted'
      BY <1>1, <1>5 DEF PolicyInv
    <3>4. QED
      BY <3>2, <3>3
  <2>3. \A o, s : Given(o, s)' /\ o \in Policy!Jails <=> Given(o, s) /\ o \in Policy!Jails
    BY <1>3, <1>5 DEF Given
  <2>4. PolicyTypes' /\ NodesFit'
    BY <1>2, <1>3, <2>2 DEF PolicyInv, PolicyTypes, NodesFit
  <2>5. ModesFromRules' /\ RulesHaveModes'
    BY <2>2, <2>3 DEF PolicyInv, ModesFromRules, RulesHaveModes
  <2>6. QED
    BY <2>2, <2>4, <2>5 DEF PolicyInv
<1>6. CASE Policy!Exists(r.path)
  <2>1. /\ Fits(after)
        /\ \A p \in Ends(r) : ~Policy!Clash(node[j], p, Policy!Mode(r))
        /\ \A p \in Ends(r) :
             /\ p \in DOMAIN after /\ after[p] # "none"
             /\ r.type = "RecursiveDir" => after[p] = "recursive"
        /\ \A p \in DOMAIN node[j] : node[j][p] # "none" =>
             /\ p \in DOMAIN after /\ after[p] # "none"
             /\ node[j][p] = "recursive" => after[p] = "recursive"
        /\ \A p \in DOMAIN after : after[p] # "none" =>
             \/ p \in Ends(r) /\ after[p] = Policy!Mode(r)
             \/ p \in DOMAIN node[j] /\ after[p] = node[j][p]
    BY <1>4, <1>6, Added DEF after
  <2>2. \A o \in Policy!Jails : Fits(node'[o])
    BY <1>3, <1>4, <2>1
  <2>3. PolicyTypes' /\ NodesFit'
    BY <1>3, <2>2 DEF PolicyTypes, NodesFit, Fits
  <2>4. ~asserted'
    BY <1>1, <2>1 DEF PolicyInv, Ends
  <2>5. \A o \in Policy!Jails : \A s : Given(o, s)' <=> Given(o, s) \/ (o = j /\ s = r)
    BY <1>3, <1>6 DEF Given
  <2>6. ModesFromRules'
    <3> SUFFICES ASSUME NEW o \in Policy!Jails, NEW p \in DOMAIN node'[o], node'[o][p] # "none"
                 PROVE  \E s \in Policy!Rules :
                           /\ Given(o, s)' /\ p \in Ends(s)
                           /\ node'[o][p] = "recursive" => s.type = "RecursiveDir"
      BY DEF ModesFromRules
    <3>1. CASE o = j /\ p \in Ends(r) /\ after[p] = Policy!Mode(r)
      BY <1>3, <2>5, <3>1, RuleIs
    <3>2. CASE ~(o = j /\ p \in Ends(r) /\ after[p] = Policy!Mode(r))
      <4>1. p \in DOMAIN node[o] /\ node'[o][p] = node[o][p]
        BY <1>3, <2>1, <3>2
      <4>2. PICK s \in Policy!Rules :
               Given(o, s) /\ p \in Ends(s) /\ (node[o][p] = "recursive" => s.type = "RecursiveDir")
        BY <4>1 DEF PolicyInv, ModesFromRules
      <4>3. QED
        BY <2>5, <4>1, <4>2
    <3>3. QED
      BY <3>1, <3>2
  <2>7. RulesHaveModes'
    <3> SUFFICES ASSUME NEW o \in Policy!Jails, NEW s \in Policy!Rules, Given(o, s)',
                        NEW p \in Ends(s)
                 PROVE  /\ p \in DOMAIN node'[o] /\ node'[o][p] # "none"
                        /\ s.type = "RecursiveDir" => node'[o][p] = "recursive"
      BY DEF RulesHaveModes, Ends
    <3>1. CASE o = j /\ s = r
      BY <1>3, <2>1, <3>1
    <3>2. CASE ~(o = j /\ s = r)
      <4>1. Given(o, s)
        BY <2>5, <3>2
      <4>2. /\ p \in DOMAIN node[o] /\ node[o][p] # "none"
            /\ s.type = "RecursiveDir" => node[o][p] = "recursive"
        BY <4>1 DEF PolicyInv, RulesHaveModes
      <4>3. QED
        BY <1>3, <2>1, <4>2
    <3>3. QED
      BY <3>1, <3>2
  <2>8. QED
    BY <2>3, <2>4, <2>6, <2>7 DEF PolicyInv
<1>7. QED
  BY <1>5, <1>6

LEMMA PolicyBegins ==
    ASSUME Policy!Init
    PROVE  PolicyInv
<1>1. /\ given = [j \in Policy!Jails |-> {}] /\ asserted = FALSE
      /\ node = [j \in Policy!Jails |-> [p \in {<<>>} |-> "none"]]
  BY DEF Policy!Init
<1>2. \A j \in Policy!Jails : /\ given[j] = {} /\ DOMAIN node[j] = {<<>>}
                              /\ node[j] = [p \in {<<>>} |-> "none"] /\ node[j][<<>>] = "none"
  BY <1>1
<1>3. PolicyTypes
  BY <1>1, <1>2 DEF PolicyTypes, Modes
<1>4. <<>> \in Plainly /\ Policy!IsDir(<<>>)
  <2>1. <<>> \in DOMAIN Tree /\ Tree[<<>>].kind = "dir" /\ ~Policy!IsLink(<<>>)
    BY TreeAssumption DEF Policy!IsLink
  <2>2. <<>> \in Plainly /\ Linkless(<<>>)
    BY <2>1, TreeIs
  <2>3. <<>> \in Seq(STRING)
    OBVIOUS
  <2>4. Policy!Real(<<>>) = <<>>
    BY <2>2, <2>3, RealIs
  <2>5. QED
    BY <2>1, <2>2, <2>4 DEF Policy!IsDir
<1>5. NodesFit
  BY <1>2, <1>4 DEF NodesFit
<1>6. ModesFromRules /\ RulesHaveModes
  BY <1>2 DEF ModesFromRules, RulesHaveModes, Given
<1>7. QED
  BY <1>1, <1>3, <1>5, <1>6 DEF PolicyInv

LEMMA IsDirOnTheWay ==
    ASSUME NEW q \in Plainly, Policy!Exists(q), NEW k \in 0 .. Len(q) - 1
    PROVE  Policy!IsDir(SubSeq(q, 1, k))
BY DEF Policy!Exists

\* What the nodes allow is what the rules cover, whatever the path.
LEMMA NodesSay ==
    ASSUME PolicyInv, NEW j \in Policy!Jails, NEW path \in Plainly
    PROVE  Policy!Check(j, path) <=> Policy!Covered(j, path)
<1> DEFINE tree == node[j]
           Reached(k) == \A m \in 0 .. k - 1 : Policy!Old(tree, SubSeq(path, 1, m)) # "file"
<1>1. /\ path \in Seq(STRING) /\ Len(path) \in Nat /\ SubSeq(path, 1, Len(path)) = path
      /\ \A m \in 0 .. Len(path) : SubSeq(path, 1, m) \in Plainly /\ Len(SubSeq(path, 1, m)) = m
      /\ \A m \in 0 .. Len(path) : \A k \in 0 .. m :
           SubSeq(SubSeq(path, 1, m), 1, k) = SubSeq(path, 1, k)
  BY Prefixes DEF Plainly
<1>2. /\ \A p : Policy!Old(tree, p) = "recursive" \/ Policy!Old(tree, p) # "none" =>
                  p \in DOMAIN tree /\ Policy!Old(tree, p) = tree[p]
      /\ \A p : p \in DOMAIN tree => Policy!Old(tree, p) = tree[p]
      /\ \A p : Policy!IsDir(p) => Policy!Old(tree, p) # "file"
  BY DEF Policy!Old, PolicyInv, NodesFit
<1>3. Policy!Check(j, path) <=>
        \/ \E k \in 0 .. Len(path) - 1 :
             Reached(k) /\ Policy!Old(tree, SubSeq(path, 1, k)) = "recursive"
        \/ Reached(Len(path)) /\ Policy!Old(tree, path) # "none"
  BY DEF Policy!Check
<1>4. \A r \in Policy!Rules : Given(j, r) =>
        (Policy!Covers(r, path) <=>
           \E q \in Ends(r) :
              path = q \/ (r.type = "RecursiveDir" /\ Policy!IsPrefix(q, path)))
  BY DEF Policy!Covers, Ends
<1>5. Policy!Covered(j, path) <=> \E r \in Policy!Rules : Given(j, r) /\ Policy!Covers(r, path)
  BY DEF Policy!Covered, Given, PolicyInv, PolicyTypes
<1>6. /\ \A p \in DOMAIN tree : tree[p] # "none" =>
           \E r \in Policy!Rules :
              Given(j, r) /\ p \in Ends(r) /\ (tree[p] = "recursive" => r.type = "RecursiveDir")
      /\ \A r \in Policy!Rules : Given(j, r) => \A p \in Ends(r) :
           /\ p \in DOMAIN tree /\ tree[p] # "none"
           /\ r.type = "RecursiveDir" => tree[p] = "recursive"
  BY DEF PolicyInv, ModesFromRules, RulesHaveModes
<1> HIDE DEF tree, Reached
<1>7. ASSUME NEW k \in 0 .. Len(path) - 1, Policy!Old(tree, SubSeq(path, 1, k)) = "recursive"
      PROVE  Policy!Covered(j, path)
  <2> DEFINE q == SubSeq(path, 1, k)
  <2>1. q \in DOMAIN tree /\ tree[q] = "recursive"
    BY <1>2, <1>7
  <2>2. PICK r \in Policy!Rules : Given(j, r) /\ q \in Ends(r) /\ r.type = "RecursiveDir"
    BY <1>6, <2>1
  <2>3. k \in 0 .. Len(path) /\ k \in 0 .. k
    BY <1>1
  <2>4. Len(q) = k /\ SubSeq(q, 1, k) = SubSeq(path, 1, k)
    BY <1>1, <2>3
  <2>5. Policy!IsPrefix(q, path)
    BY <1>1, <2>3, <2>4 DEF Policy!IsPrefix
  <2>6. QED
    BY <1>4, <1>5, <2>2, <2>5
<1>8. ASSUME Policy!Old(tree, path) # "none" PROVE Policy!Covered(j, path)
  <2>1. path \in DOMAIN tree /\ tree[path] # "none"
    BY <1>2, <1>8
  <2>2. PICK r \in Policy!Rules : Given(j, r) /\ path \in Ends(r)
    BY <1>6, <2>1
  <2>3. QED
    BY <1>4, <1>5, <2>2
<1>9. ASSUME NEW r \in Policy!Rules, Given(j, r), NEW q \in Ends(r), NEW k \in 0 .. Len(path),
             q = SubSeq(path, 1, k)
      PROVE  Reached(k)
  <2>1. q \in Plainly /\ Policy!Exists(q) /\ Len(q) = k
    BY <1>1, <1>9, RuleIs DEF Given
  <2>2. ASSUME NEW m \in 0 .. k - 1 PROVE Policy!Old(tree, SubSeq(path, 1, m)) # "file"
    <3>1. m \in 0 .. Len(q) - 1 /\ m \in 0 .. k
      BY <1>1, <2>1
    <3>2. SubSeq(q, 1, m) = SubSeq(path, 1, m)
      BY <1>1, <1>9, <3>1
    <3>3. Policy!IsDir(SubSeq(q, 1, m))
      BY <2>1, <3>1, IsDirOnTheWay
    <3>4. QED
      BY <1>2, <3>2, <3>3
  <2>3. QED
    BY <2>2 DEF Reached
<1>10. ASSUME NEW r \in Policy!Rules, Given(j, r), Policy!Covers(r, path)
       PROVE  Policy!Check(j, path)
  <2>1. PICK q \in Ends(r) : path = q \/ (r.type = "RecursiveDir" /\ Policy!IsPrefix(q, path))
    BY <1>4, <1>10
  <2>2. q \in DOMAIN tree /\ tree[q] # "none" /\ (r.type = "RecursiveDir" => tree[q] = "recursive")
    BY <1>6, <1>10
  <2>3. q \in Plainly /\ Len(q) \in Nat /\ SubSeq(q, 1, Len(q)) = q
    BY <1>10, RuleIs, Prefixes DEF Given, Plainly
  <2>4. CASE path = q
    <3>1. Len(path) \in 0 .. Len(path)
      BY <1>1
    <3>2. Reached(Len(path))
      BY <1>1, <1>9, <1>10, <2>4, <3>1
    <3>3. Policy!Old(tree, path) # "none"
      BY <1>2, <2>2, <2>4
    <3>4. QED
      BY <1>3, <3>2, <3>3
  <2>5. CASE path # q
    <3>1. Len(q) <= Len(path) /\ q = SubSeq(path, 1, Len(q)) /\ r.type = "RecursiveDir"
      BY <2>1, <2>3, <2>5 DEF Policy!IsPrefix
    <3>2. Len(q) # Len(path)
      BY <1>1, <2>5, <3>1
    <3>3. Len(q) \in 0 .. Len(path) /\ Len(q) \in 0 .. Len(path) - 1
      <4>1. \A a, b \in Nat : a <= b /\ a # b => a \in 0 .. b /\ a \in 0 .. b - 1
        OBVIOUS
      <4>2. Len(q) \in Nat /\ Len(path) \in Nat
        BY <1>1, <2>3
      <4>3. QED
        BY <3>1, <3>2, <4>1, <4>2
    <3>4. Reached(Len(q))
      BY <1>9, <1>10, <3>1, <3>3
    <3>5. Policy!Old(tree, SubSeq(path, 1, Len(q))) = "recursive"
      BY <1>2, <2>2, <3>1
    <3>6. QED
      BY <1>3, <3>3, <3>4, <3>5
  <2>6. QED
    BY <2>4, <2>5
<1>11. QED
  BY <1>3, <1>5, <1>7, <1>8, <1>10

\* The calls are open, and rename as a compiler may make it.
LEMMA OpensIs ==
    ASSUME NEW flag \in Policy!OpenFlags, NEW path
    PROVE  /\ Policy!Opens(flag, path) <=>
                Policy!Access(IF Policy!Changes(flag) THEN "write" ELSE "read", path)
           /\ \A to : Policy!CompilerHandler([nr |-> "rename", path |-> path, to |-> to]) = "allow" =>
                Policy!Access("write", path) /\ Policy!Access("write", to)
<1>1. Policy!JailOf(flag) = IF Policy!Changes(flag) THEN "write" ELSE "read"
  <2>1. flag \in {"RDONLY", "WRONLY", "CREAT", "TRUNC", "DIRECTORY", "TMPFILE"}
    BY DEF Policy!OpenFlags
  <2>2. CASE flag \in {"RDONLY", "DIRECTORY"}
    <3>1. ~ \E w \in Policy!WriteFlags : Policy!Bits(w) \subseteq Policy!Bits(flag)
      <4> SUFFICES ASSUME NEW w \in {"WRONLY", "CREAT", "TRUNC", "TMPFILE"}
                   PROVE  ~(Policy!Bits(w) \subseteq Policy!Bits(flag))
        BY DEF Policy!WriteFlags
      <4>1. w \in Policy!Bits(w)
        BY DEF Policy!Bits
      <4>2. w \notin Policy!Bits(flag)
        BY <2>2 DEF Policy!Bits
      <4>3. QED
        BY <4>1, <4>2
    <3>2. QED
      BY <2>2, <3>1 DEF Policy!JailOf, Policy!Changes
  <2>3. CASE flag \in {"WRONLY", "CREAT", "TRUNC", "TMPFILE"}
    <3>1. \E w \in Policy!WriteFlags : Policy!Bits(w) \subseteq Policy!Bits(flag)
      BY <2>3 DEF Policy!WriteFlags
    <3>2. QED
      BY <2>3, <3>1 DEF Policy!JailOf, Policy!Changes
  <2>4. QED
    BY <2>1, <2>2, <2>3
<1>2. Policy!Opens(flag, path) <=> Policy!Access(Policy!JailOf(flag), path)
  BY DEF Policy!Opens, Policy!Answer, Policy!Filter, Policy!Handler, Policy!Permit
<1>3. ASSUME NEW to, Policy!CompilerHandler([nr |-> "rename", path |-> path, to |-> to]) = "allow"
      PROVE  Policy!Access("write", path) /\ Policy!Access("write", to)
  BY <1>3 DEF Policy!CompilerHandler, Policy!Permit
<1>4. QED
  BY <1>1, <1>2, <1>3

\* What is let through is covered, by the name that was checked and by what the
\* kernel opens.
LEMMA AccessIs ==
    ASSUME PolicyInv, NEW j \in Policy!Jails, NEW path \in Seq(STRING), Policy!Access(j, path)
    PROVE  /\ Policy!Covered(j, Policy!Real(path)) /\ Policy!Covered(j, Policy!Normal(path))
           /\ Policy!Real(Policy!Normal(path)) = Policy!Real(path)
<1>1. /\ Policy!Normal(path) \in Plainly /\ Policy!Real(path) \in Plainly
      /\ Policy!Real(Policy!Real(path)) = Policy!Real(path)
  BY NormalIs, RealIs
<1>2. /\ \/ Policy!Normal(path) = Policy!Real(path)
         \/ Policy!Real(Policy!Normal(path)) = Policy!Real(path)
      /\ Policy!Check(j, Policy!Normal(path)) /\ Policy!Check(j, Policy!Real(path))
  BY DEF Policy!Access
<1>3. QED
  BY <1>1, <1>2, NodesSay

\* By the path of a rule a file is got, whatever links are on it.
LEMMA RuleOpens ==
    ASSUME PolicyInv, NEW j \in Policy!Jails, NEW r \in Policy!Rules, Given(j, r)
    PROVE  /\ Policy!Access(j, r.path)
           /\ r.type = "RecursiveDir" => \A p \in Seq(STRING) :
                Policy!IsPrefix(Policy!Real(r.path), p) /\ Policy!Real(p) = p => Policy!Access(j, p)
<1>1. /\ r.path \in Plainly /\ r.path \in Seq(STRING) /\ Policy!Exists(r.path)
      /\ Policy!Real(r.path) \in Plainly /\ Policy!Exists(Policy!Real(r.path))
  BY RuleIs, RealExists DEF Given
<1>2. Policy!Normal(r.path) = r.path
  BY <1>1, NormalIs
<1>3. Policy!Covered(j, r.path) /\ Policy!Covered(j, Policy!Real(r.path))
  BY DEF Policy!Covered, Policy!Covers, Given
<1>4. Policy!Check(j, r.path) /\ Policy!Check(j, Policy!Real(r.path))
  BY <1>1, <1>3, NodesSay
<1>5. Policy!Access(j, r.path)
  BY <1>1, <1>2, <1>4 DEF Policy!Access
<1>6. ASSUME r.type = "RecursiveDir", NEW p \in Seq(STRING),
             Policy!IsPrefix(Policy!Real(r.path), p), Policy!Real(p) = p
      PROVE  Policy!Access(j, p)
  <2>1. p \in Plainly /\ Policy!Normal(p) = p
    BY <1>6, RealIs, NormalIs
  <2>2. Policy!Covered(j, p)
    BY <1>1, <1>6 DEF Policy!Covered, Policy!Covers, Given
  <2>3. Policy!Check(j, p)
    BY <2>1, <2>2, NodesSay
  <2>4. QED
    BY <1>6, <2>1, <2>3 DEF Policy!Access
<1>7. QED
  BY <1>5, <1>6

LEMMA Rejoined ==
    ASSUME NEW S, NEW s \in Seq(S), NEW n \in 0 .. Len(s)
    PROVE  SubSeq(s, 1, n) \o SubSeq(s, n + 1, Len(s)) = s
<1> DEFINE a == SubSeq(s, 1, n)
           b == SubSeq(s, n + 1, Len(s))
<1>1. a \in Seq(S) /\ Len(a) = n /\ \A x \in 1 .. n : a[x] = s[x]
  OBVIOUS
<1>2. b \in Seq(S) /\ Len(b) = Len(s) - n /\ \A x \in 1 .. Len(s) - n : b[x] = s[n + x]
  OBVIOUS
<1>3. \A u, v \in Seq(S) :
        /\ u \o v \in Seq(S) /\ Len(u \o v) = Len(u) + Len(v)
        /\ \A x \in 1 .. Len(u) + Len(v) :
             (u \o v)[x] = IF x <= Len(u) THEN u[x] ELSE v[x - Len(u)]
  OBVIOUS
<1>4. Len(s) \in Nat /\ n \in 0 .. Len(s)
  OBVIOUS
<1> HIDE DEF a, b
<1>5. a \o b \in Seq(S) /\ Len(a \o b) = Len(s)
  <2>1. n + (Len(s) - n) = Len(s)
    BY <1>4
  <2>2. a \o b \in Seq(S) /\ Len(a \o b) = Len(a) + Len(b)
    BY <1>1, <1>2, <1>3
  <2>3. QED
    BY <1>1, <1>2, <2>1, <2>2
<1>6. ASSUME NEW x \in 1 .. Len(s) PROVE (a \o b)[x] = s[x]
  <2>1. (a \o b)[x] = IF x <= n THEN a[x] ELSE b[x - n]
    BY <1>1, <1>2, <1>3, <1>4
  <2>2. CASE x <= n
    BY <1>1, <1>4, <2>1, <2>2
  <2>3. CASE ~(x <= n)
    <3>1. x - n \in 1 .. Len(s) - n /\ n + (x - n) = x
      BY <1>4, <2>3
    <3>2. QED
      BY <1>2, <2>1, <2>3, <3>1
  <2>4. QED
    BY <2>2, <2>3
<1>7. a \o b = s
  <2>1. \A u, v \in Seq(S) : Len(u) = Len(v) /\ (\A x \in 1 .. Len(v) : u[x] = v[x]) => u = v
    OBVIOUS
  <2>2. QED
    BY <1>5, <1>6, <2>1
<1>8. QED
  BY <1>7 DEF a, b

\* Whatever the files of a machine and the rules of both policies, in whatever
\* order these are added: a process that asks with any path and flags gets what
\* its rules cover and nothing else, and the constructor's assertions hold
\* (filesystem_policies.py, IsolateTracer).
THEOREM PolicyAlwaysExact ==
    Policy!Init /\ [][Policy!Next]_policyVars => []PolicyExact
<1>1. Policy!Init => PolicyInv
  BY PolicyBegins
<1>2. PolicyInv /\ [Policy!Next]_policyVars => PolicyInv'
  <2> SUFFICES ASSUME PolicyInv, [Policy!Next]_policyVars PROVE PolicyInv'
    OBVIOUS
  <2>1. CASE Policy!Next
    BY <2>1, PolicyKeeps DEF Policy!Next
  <2>2. CASE UNCHANGED policyVars
    <3>1. given' = given /\ node' = node /\ asserted' = asserted
      BY <2>2 DEF policyVars
    <3>2. \A j, r : Given(j, r)' <=> Given(j, r)
      BY <3>1 DEF Given
    <3>3. PolicyTypes' /\ NodesFit' /\ ModesFromRules' /\ RulesHaveModes'
      BY <3>1, <3>2 DEF PolicyInv, PolicyTypes, NodesFit, ModesFromRules, RulesHaveModes
    <3>4. QED
      BY <3>1, <3>3 DEF PolicyInv
  <2>3. QED
    BY <2>1, <2>2
<1>3. PolicyInv => PolicyExact
  <2> SUFFICES ASSUME PolicyInv PROVE Policy!PolicyExact
    BY DEF PolicyExact
  <2>1. Asked \subseteq Seq(STRING) /\ Named \subseteq Seq(STRING)
    BY TreeAssumption DEF Plainly
  <2>2. "read" \in Policy!Jails /\ "write" \in Policy!Jails /\ Policy!Jails = {"read", "write"}
    BY DEF Policy!Jails
  <2>3. Policy!NodesAreRules
    <3>1. ASSUME NEW j \in Policy!Jails, NEW q \in Asked
          PROVE  Policy!Check(j, Policy!Normal(q)) <=> Policy!Covered(j, Policy!Normal(q))
      BY <2>1, NormalIs, NodesSay
    <3>2. QED
      BY <3>1 DEF PolicyInv, Policy!NodesAreRules
  <2>4. Policy!AllowedIsCovered
    <3> SUFFICES ASSUME NEW path \in Asked
                 PROVE  /\ \A flag \in Policy!OpenFlags : Policy!Opens(flag, path) =>
                              Policy!Access(IF Policy!Changes(flag) THEN "write" ELSE "read", path)
                        /\ \A to \in Named :
                             Policy!CompilerHandler([nr |-> "rename", path |-> path, to |-> to]) = "allow" =>
                               Policy!Access("write", path) /\ Policy!Access("write", to)
      BY <2>1, <2>2, AccessIs DEF Policy!AllowedIsCovered
    <3>1. "RDONLY" \in Policy!OpenFlags
      BY DEF Policy!OpenFlags
    <3>2. QED
      BY <3>1, OpensIs
  <2>5. Policy!RulesGrant
    <3> SUFFICES ASSUME NEW j \in Policy!Jails, NEW flag \in Policy!OpenFlags, NEW r \in given[j],
                        Policy!Exists(r.path), Policy!Changes(flag) <=> j = "write"
                 PROVE  /\ \A k \in 0 .. Len(r.path) :
                             Policy!Opens(flag, Policy!FullPath(SubSeq(r.path, 1, k),
                                             SubSeq(r.path, k + 1, Len(r.path)), FALSE))
                        /\ r.type = "RecursiveDir" =>
                             \A p \in Asked : Policy!IsPrefix(Policy!Real(r.path), p) /\ Policy!Real(p) = p =>
                                Policy!Opens(flag, p)
      BY DEF Policy!RulesGrant
    <3>1. r \in Policy!Rules /\ Given(j, r) /\ r.path \in Seq(STRING)
      BY RuleIs DEF Given, PolicyInv, PolicyTypes
    <3>2. j = IF Policy!Changes(flag) THEN "write" ELSE "read"
      BY <2>2
    <3>3. \A p : Policy!Opens(flag, p) <=> Policy!Access(j, p)
      BY <3>2, OpensIs
    <3>4. ASSUME NEW k \in 0 .. Len(r.path)
          PROVE  Policy!FullPath(SubSeq(r.path, 1, k), SubSeq(r.path, k + 1, Len(r.path)), FALSE) = r.path
      <4>1. \A s \in Seq(STRING) : \A n \in 0 .. Len(s) : SubSeq(s, 1, n) \o SubSeq(s, n + 1, Len(s)) = s
        BY Rejoined
      <4>2. QED
        BY <3>1, <4>1 DEF Policy!FullPath
    <3>5. QED
      BY <2>1, <3>1, <3>3, <3>4, RuleOpens
  <2>6. QED
    BY <2>3, <2>4, <2>5 DEF Policy!PolicyExact
<1>4. QED
  BY <1>1, <1>2, <1>3, PTL
===============================================================================
