----------------------- MODULE InventoryPolicyProofs ------------------------
(***************************************************************************)
(* What the loop with Inventory promises, for any bundles, runtimes,       *)
(* requests and any number of revisions, decisions and reports: the rules  *)
(* compiled from a bundle decide as the bundle says, whatever its lists    *)
(* hold, and everything after that carries the decision along unchanged.   *)
(***************************************************************************)
EXTENDS InventoryPolicy, FiniteSetTheorems, TLAPS

-----------------------------------------------------------------------------
(* The first of several positions, and a list of pairs flattened. *)

LEMMA LeastNatural ==
    ASSUME NEW S \in SUBSET Nat, S # {}
    PROVE  \E least \in S : \A n \in S : least <= n
<1>1. PICK top \in S : TRUE
  OBVIOUS
<1> DEFINE T == 0 .. top
           Q == {0 .. n : n \in {m \in S : m <= top}}
<1>2. IsWellFoundedOn(StrictSubsetOrdering(T), SUBSET T)
  <2>1. IsFiniteSet(T)
    BY FS_Interval
  <2> HIDE DEF T
  <2>2. QED
    BY <2>1, FS_StrictSubsetOrderingWellFounded, FS_FiniteSubsetsOfFinite
<1>3. Q \in SUBSET (SUBSET T) /\ Q # {}
  BY <1>1
<1>4. PICK s \in Q : \A r \in Q : ~(<<r, s>> \in StrictSubsetOrdering(T))
  <2> HIDE DEF Q, T
  <2>1. QED
    BY <1>2, <1>3, WFMin
<1>5. PICK least \in S : least <= top /\ s = 0 .. least
  BY <1>4
<1>6. ASSUME NEW n \in S, ~(least <= n) PROVE FALSE
  <2>1. n < least /\ n <= top
    BY <1>5, <1>6
  <2>2. 0 .. n \in Q /\ 0 .. n \subseteq s /\ least \in s /\ least \notin 0 .. n
    BY <1>5, <2>1
  <2>3. <<0 .. n, s>> \in StrictSubsetOrdering(T)
    <3>1. s \in SUBSET T /\ 0 .. n \in SUBSET T
      BY <1>3, <1>4, <2>2
    <3> HIDE DEF T
    <3>2. QED
      BY <2>2, <3>1 DEF StrictSubsetOrdering
  <2>4. QED
    BY <1>4, <2>2, <2>3
<1>7. QED
  BY <1>6

(* Position k of the flattened pairs is one half of pair (k + 1) \div 2.   *)
Pair(k) == (k + 1) \div 2
Half(k) == 2 - (k % 2)
PairsUpTo(s, n) == [k \in 1 .. 2 * n |-> s[Pair(k)][Half(k)]]

LEMMA Halves ==
    /\ \A n \in Nat : \A k \in 1 .. 2 * n : Pair(k) \in 1 .. n /\ Half(k) \in 1 .. 2
    /\ \A n \in Nat \ {0} : /\ Pair(2 * n - 1) = n /\ Half(2 * n - 1) = 1
                           /\ Pair(2 * n) = n /\ Half(2 * n) = 2
    /\ \A k \in Nat \ {0} : k = 2 * Pair(k) - 2 + Half(k)
BY DEF Pair, Half

LEMMA SameSequence ==
    ASSUME NEW P, NEW a \in Seq(P), NEW b \in Seq(P), Len(a) = Len(b),
           \A k \in 1 .. Len(a) : a[k] = b[k]
    PROVE  a = b
OBVIOUS

LEMMA PairsGrow ==
    ASSUME NEW P, NEW s \in Seq(Seq(P)), \A i \in DOMAIN s : Len(s[i]) = 2,
           NEW i \in 2 .. Len(s)
    PROVE  PairsUpTo(s, i) = PairsUpTo(s, i - 1) \o s[i]
<1> DEFINE a == PairsUpTo(s, i - 1)
           b == PairsUpTo(s, i)
<1>1. /\ i \in Nat \ {0} /\ i - 1 \in Nat /\ 2 * (i - 1) = 2 * i - 2
      /\ s[i] \in Seq(P) /\ Len(s[i]) = 2 /\ Len(s) \in Nat
  OBVIOUS
<1>2. \A k \in 1 .. 2 * i : Pair(k) \in 1 .. Len(s) /\ Half(k) \in 1 .. 2
  <2>1. \A k \in 1 .. 2 * i : Pair(k) \in 1 .. i /\ Half(k) \in 1 .. 2
    BY <1>1, Halves
  <2>2. QED
    BY <1>1, <2>1
<1>3. \A k \in 1 .. 2 * i : s[Pair(k)][Half(k)] \in P
  BY <1>2
<1>4. a \in Seq(P) /\ Len(a) = 2 * i - 2
  BY <1>1, <1>3 DEF PairsUpTo
<1>5. b \in Seq(P) /\ Len(b) = 2 * i
  BY <1>1, <1>3 DEF PairsUpTo
<1>6. /\ \A k \in 1 .. 2 * i - 2 : b[k] = a[k]
      /\ b[2 * i - 1] = s[i][1] /\ b[2 * i] = s[i][2]
  <2>1. \A k \in 1 .. 2 * i : b[k] = s[Pair(k)][Half(k)]
    BY DEF PairsUpTo
  <2>2. \A k \in 1 .. 2 * i - 2 : a[k] = s[Pair(k)][Half(k)]
    BY <1>1 DEF PairsUpTo
  <2>3. /\ \A k \in 1 .. 2 * i - 2 : k \in 1 .. 2 * i
        /\ 2 * i - 1 \in 1 .. 2 * i /\ 2 * i \in 1 .. 2 * i
    BY <1>1
  <2>4. /\ Pair(2 * i - 1) = i /\ Half(2 * i - 1) = 1
        /\ Pair(2 * i) = i /\ Half(2 * i) = 2
    BY <1>1, Halves
  <2> HIDE DEF a, b
  <2>5. QED
    BY <2>1, <2>2, <2>3, <2>4
<1> HIDE DEF a, b
<1>7. /\ a \o s[i] \in Seq(P) /\ Len(a \o s[i]) = 2 * i
      /\ \A k \in 1 .. 2 * i - 2 : (a \o s[i])[k] = a[k]
      /\ (a \o s[i])[2 * i - 1] = s[i][1] /\ (a \o s[i])[2 * i] = s[i][2]
  <2> DEFINE d == s[i]
  <2>1. /\ a \o d \in Seq(P) /\ Len(a \o d) = Len(a) + Len(d)
        /\ \A k \in 1 .. Len(a) : (a \o d)[k] = a[k]
        /\ \A k \in 1 .. Len(d) : (a \o d)[Len(a) + k] = d[k]
    <3>1. d \in Seq(P)
      BY <1>1
    <3> HIDE DEF d
    <3>2. a \in Seq(P)
      BY <1>4
    <3>3. \A k \in 1 .. Len(a) : (a \o d)[k] = a[k]
      BY <3>1, <3>2
    <3>4. \A k \in 1 .. Len(d) : (a \o d)[Len(a) + k] = d[k]
      BY <3>1, <3>2
    <3>5. QED
      BY <3>1, <3>2, <3>3, <3>4
  <2>2. /\ (a \o s[i])[Len(a) + 1] = s[i][1]
        /\ (a \o s[i])[Len(a) + 2] = s[i][2]
    <3>1. 1 \in 1 .. Len(s[i]) /\ 2 \in 1 .. Len(s[i])
      BY <1>1
    <3>2. QED
      BY <2>1, <3>1
  <2>3. Len(a) + 1 = 2 * i - 1 /\ Len(a) + 2 = 2 * i
    BY <1>1, <1>4
  <2>4. QED
    BY <1>1, <1>4, <2>1, <2>2, <2>3
<1>8. \A k \in 1 .. 2 * i : b[k] = (a \o s[i])[k]
  <2>1. \A k \in 1 .. 2 * i : k \in 1 .. 2 * i - 2 \/ k = 2 * i - 1 \/ k = 2 * i
    BY <1>1
  <2>2. QED
    BY <1>6, <1>7, <2>1
<1>9. b = a \o s[i]
  BY <1>5, <1>7, <1>8, SameSequence
<1>10. QED
  BY <1>9 DEF a, b

(* ... which is what FlattenSeq makes of them. *)
LEMMA FlattenedPairs ==
    ASSUME NEW P, NEW s \in Seq(Seq(P)), \A i \in DOMAIN s : Len(s[i]) = 2
    PROVE  FlattenSeq(s) = PairsUpTo(s, Len(s))
<1>1. CASE Len(s) = 0
  <2>1. s = << >> /\ FlattenSeq(s) = s
    BY <1>1 DEF FlattenSeq
  <2>2. PairsUpTo(s, Len(s)) = << >>
    BY <1>1 DEF PairsUpTo
  <2>3. QED
    BY <2>1, <2>2
<1>2. CASE Len(s) # 0
  <2> DEFINE Grows(f) == f = [i \in 1 .. Len(s) |->
                                 IF i = 1 THEN s[i] ELSE f[i - 1] \o s[i]]
             g == [i \in 1 .. Len(s) |-> PairsUpTo(s, i)]
             flatten == CHOOSE f : Grows(f)
  <2>1. g[1] = s[1]
    <3>1. s[1] \in Seq(P) /\ Len(s[1]) = 2 /\ DOMAIN s[1] = 1 .. 2
      BY <1>2
    <3>2. PairsUpTo(s, 1) = [k \in 1 .. 2 |-> s[1][k]]
      <4>1. \A k \in 1 .. 2 : Pair(k) = 1 /\ Half(k) = k
        BY DEF Pair, Half
      <4>2. QED
        BY <4>1 DEF PairsUpTo
    <3>3. QED
      BY <1>2, <3>1, <3>2
  <2>2. Grows(g)
    <3>1. \A i \in 2 .. Len(s) : g[i] = g[i - 1] \o s[i]
      <4> SUFFICES ASSUME NEW i \in 2 .. Len(s) PROVE g[i] = g[i - 1] \o s[i]
        OBVIOUS
      <4>1. i \in 1 .. Len(s) /\ i - 1 \in 1 .. Len(s)
        OBVIOUS
      <4>2. g[i] = PairsUpTo(s, i) /\ g[i - 1] = PairsUpTo(s, i - 1)
        BY <4>1
      <4> HIDE DEF g
      <4>3. QED
        BY <4>2, PairsGrow
    <3> HIDE DEF g
    <3>2. \A i \in 1 .. Len(s) : g[i] = IF i = 1 THEN s[i] ELSE g[i - 1] \o s[i]
      <4>1. \A i \in 1 .. Len(s) : i = 1 \/ i \in 2 .. Len(s)
        OBVIOUS
      <4>2. QED
        BY <2>1, <3>1, <4>1
    <3>3. DOMAIN g = 1 .. Len(s) /\ g = [i \in 1 .. Len(s) |-> g[i]]
      BY DEF g
    <3>4. QED
      BY <3>2, <3>3
  <2>3. Grows(flatten)
    <3> HIDE DEF Grows, g
    <3>1. QED
      BY <2>2
  <2> HIDE DEF flatten
  <2>4. \A i \in 1 .. Len(s) : flatten[i] = g[i]
    <3> DEFINE S == {i \in 1 .. Len(s) : flatten[i] # g[i]}
    <3> SUFFICES ASSUME S # {} PROVE FALSE
      OBVIOUS
    <3>1. PICK i \in S : \A j \in S : i <= j
      <4>1. S \in SUBSET Nat
        OBVIOUS
      <4> HIDE DEF S
      <4>2. QED
        BY <4>1, LeastNatural
    <3>2. /\ flatten[i] = IF i = 1 THEN s[i] ELSE flatten[i - 1] \o s[i]
          /\ g[i] = IF i = 1 THEN s[i] ELSE g[i - 1] \o s[i]
      <4> HIDE DEF g
      <4>1. i \in 1 .. Len(s)
        BY <3>1
      <4>2. QED
        BY <2>2, <2>3, <4>1
    <3>3. i # 1 => i - 1 \in 1 .. Len(s) /\ i - 1 \notin S
      BY <3>1
    <3> HIDE DEF g
    <3>4. i # 1 => flatten[i - 1] = g[i - 1]
      BY <3>3
    <3>5. QED
      BY <3>1, <3>2, <3>4
  <2>5. FlattenSeq(s) = flatten[Len(s)]
    BY <1>2 DEF FlattenSeq, flatten
  <2>6. QED
    BY <1>2, <2>4, <2>5
<1>3. QED
  BY <1>1, <1>2

-----------------------------------------------------------------------------
(* What a bundle compiles to: a block rule for each forbidden tool, then a *)
(* pair of rules for each permitted one.                                   *)

CompiledRule ==
    [action_prefix : Prefix, minimum_autonomy : AutonomyLevel,
     min_confidence : Int, decision : Decision]

Floor(bundle) ==
    IF Get(bundle, "confidence_threshold") = None THEN 0
    ELSE Get(bundle, "confidence_threshold")

RulePair(bundle, i) ==
    ThresholdRulePair(bundle.permitted_tools[i], Floor(bundle), bundle.autonomy_level)

LEMMA BundleShape ==
    ASSUME NEW bundle \in Bundle, Compiles(bundle)
    PROVE  /\ bundle.forbidden_tools \in Seq(Prefix)
           /\ bundle.permitted_tools \in Seq(Prefix)
           /\ bundle.autonomy_level \in AutonomyLevel
           /\ Floor(bundle) \in Int
<1>1. /\ bundle.forbidden_tools \in Seq(Prefix)
      /\ bundle.permitted_tools \in Seq(Prefix)
      /\ bundle.autonomy_level \in AutonomyLevel
  BY InventoryAssumption DEF Compiles, RequiredBundleKeys, KnownLevel
<1>2. Floor(bundle) \in Int
  BY InventoryAssumption DEF Floor, Get
<1>3. QED
  BY <1>1, <1>2

LEMMA PairRules ==
    ASSUME NEW bundle \in Bundle, Compiles(bundle), NEW i \in DOMAIN bundle.permitted_tools
    PROVE  /\ RulePair(bundle, i) \in Seq(CompiledRule)
           /\ Len(RulePair(bundle, i)) = 2
           /\ RulePair(bundle, i)[1] =
                  [action_prefix |-> bundle.permitted_tools[i],
                   minimum_autonomy |-> bundle.autonomy_level,
                   min_confidence |-> Floor(bundle), decision |-> "allow"]
           /\ RulePair(bundle, i)[2] =
                  [action_prefix |-> bundle.permitted_tools[i],
                   minimum_autonomy |-> bundle.autonomy_level,
                   min_confidence |-> 0, decision |-> "require_approval"]
<1> DEFINE allow == [action_prefix |-> bundle.permitted_tools[i],
                     minimum_autonomy |-> bundle.autonomy_level,
                     min_confidence |-> Floor(bundle), decision |-> "allow"]
           ask == [action_prefix |-> bundle.permitted_tools[i],
                   minimum_autonomy |-> bundle.autonomy_level,
                   min_confidence |-> 0, decision |-> "require_approval"]
<1>1. RulePair(bundle, i) = <<allow, ask>>
  BY DEF RulePair, ThresholdRulePair
<1>2. allow \in CompiledRule /\ ask \in CompiledRule
  <2>1. /\ bundle.permitted_tools[i] \in Prefix /\ bundle.autonomy_level \in AutonomyLevel
        /\ Floor(bundle) \in Int
    BY BundleShape
  <2>2. QED
    BY <2>1 DEF CompiledRule, Decision
<1> HIDE DEF allow, ask
<1>3. <<allow, ask>> \in Seq(CompiledRule) /\ Len(<<allow, ask>>) = 2
  BY <1>2
<1>4. QED
  BY <1>1, <1>3 DEF allow, ask

LEMMA RulesOf ==
    ASSUME NEW bundle \in Bundle, Compiles(bundle)
    PROVE  LET rules == CompiledRules(bundle)
               n == Len(bundle.forbidden_tools)
               m == Len(bundle.permitted_tools)
           IN  /\ DOMAIN rules = 1 .. n + 2 * m
               /\ \A i \in 1 .. n : rules[i] = BlockRule(bundle.forbidden_tools[i])
               /\ \A k \in 1 .. 2 * m : rules[n + k] = RulePair(bundle, Pair(k))[Half(k)]
<1> DEFINE n == Len(bundle.forbidden_tools)
           m == Len(bundle.permitted_tools)
           pairs == [i \in DOMAIN bundle.permitted_tools |-> RulePair(bundle, i)]
           blocks == ForbiddenRules(bundle)
           asks == PermittedRules(bundle)
<1>1. /\ n \in Nat /\ m \in Nat /\ DOMAIN bundle.permitted_tools = 1 .. m
      /\ DOMAIN bundle.forbidden_tools = 1 .. n
  BY BundleShape
<1>2. /\ pairs \in Seq(Seq(CompiledRule)) /\ Len(pairs) = m
      /\ \A i \in DOMAIN pairs : Len(pairs[i]) = 2
  <2>1. \A i \in 1 .. m : RulePair(bundle, i) \in Seq(CompiledRule) /\ Len(RulePair(bundle, i)) = 2
    BY <1>1, PairRules
  <2>2. pairs = [i \in 1 .. m |-> RulePair(bundle, i)]
    BY <1>1
  <2> HIDE DEF pairs, m
  <2>3. QED
    BY <1>1, <2>1, <2>2
<1>3. asks = PairsUpTo(pairs, m)
  <2>1. asks = FlattenSeq(pairs)
    BY DEF PermittedRules, RulePair, Floor
  <2> HIDE DEF pairs, asks, m
  <2>2. FlattenSeq(pairs) = PairsUpTo(pairs, Len(pairs))
    BY <1>2, FlattenedPairs
  <2>3. QED
    BY <1>2, <2>1, <2>2
<1>4. \A k \in 1 .. 2 * m : Pair(k) \in 1 .. m /\ Half(k) \in 1 .. 2
  BY <1>1, Halves
<1>5. \A k \in 1 .. 2 * m : /\ asks[k] = RulePair(bundle, Pair(k))[Half(k)]
                            /\ asks[k] \in CompiledRule
  <2>1. \A k \in 1 .. 2 * m : asks[k] = pairs[Pair(k)][Half(k)]
    <3> HIDE DEF asks, pairs
    <3>1. QED
      BY <1>3 DEF PairsUpTo
  <2>2. \A k \in 1 .. 2 * m : pairs[Pair(k)] = RulePair(bundle, Pair(k))
    BY <1>1, <1>4
  <2>3. \A k \in 1 .. 2 * m : RulePair(bundle, Pair(k))[Half(k)] \in CompiledRule
    <3>1. \A i \in 1 .. m : RulePair(bundle, i) \in Seq(CompiledRule) /\ Len(RulePair(bundle, i)) = 2
      BY <1>1, PairRules
    <3>2. \A i \in 1 .. m : \A h \in 1 .. 2 : RulePair(bundle, i)[h] \in CompiledRule
      BY <3>1
    <3> HIDE DEF m
    <3>3. QED
      BY <1>4, <3>2
  <2>4. QED
    BY <2>1, <2>2, <2>3
<1>6. asks \in Seq(CompiledRule) /\ Len(asks) = 2 * m
  <2>1. asks = [k \in 1 .. 2 * m |-> asks[k]]
    <3> HIDE DEF asks, pairs
    <3>1. QED
      BY <1>3 DEF PairsUpTo
  <2> HIDE DEF asks, m
  <2>2. QED
    BY <1>1, <1>5, <2>1
<1>7. /\ blocks \in Seq(CompiledRule) /\ Len(blocks) = n
      /\ \A i \in 1 .. n : blocks[i] = BlockRule(bundle.forbidden_tools[i])
  <2>1. \A i \in 1 .. n : BlockRule(bundle.forbidden_tools[i]) \in CompiledRule
    <3>1. \A i \in 1 .. n : bundle.forbidden_tools[i] \in Prefix
      BY BundleShape
    <3>2. QED
      BY <3>1 DEF BlockRule, CompiledRule, AutonomyLevel, Decision
  <2>2. blocks = [i \in 1 .. n |-> BlockRule(bundle.forbidden_tools[i])]
    BY <1>1 DEF ForbiddenRules
  <2> HIDE DEF blocks, n
  <2>3. QED
    BY <1>1, <2>1, <2>2
<1>8. CompiledRules(bundle) = blocks \o asks
  BY DEF CompiledRules
<1> HIDE DEF blocks, asks, n, m
<1>9. /\ DOMAIN (blocks \o asks) = 1 .. n + 2 * m
      /\ \A i \in 1 .. n : (blocks \o asks)[i] = blocks[i]
      /\ \A k \in 1 .. 2 * m : (blocks \o asks)[n + k] = asks[k]
  <2>1. \A i \in 1 .. n : (blocks \o asks)[i] = blocks[i]
    BY <1>1, <1>6, <1>7
  <2>2. \A k \in 1 .. 2 * m : (blocks \o asks)[n + k] = asks[k]
    BY <1>1, <1>6, <1>7
  <2>3. DOMAIN (blocks \o asks) = 1 .. n + 2 * m
    BY <1>1, <1>6, <1>7
  <2>4. QED
    BY <2>1, <2>2, <2>3
<1>10. QED
  BY <1>5, <1>7, <1>8, <1>9 DEF n, m

-----------------------------------------------------------------------------
(* The rules decide as the bundle says. *)

LEMMA FirstHit ==
    ASSUME NEW rules, DOMAIN rules \in SUBSET Nat, NEW action, NEW confidence, NEW level,
           NEW hit \in DOMAIN rules, Matches(rules[hit], action, confidence, level)
    PROVE  \E i \in DOMAIN rules :
               /\ Matches(rules[i], action, confidence, level)
               /\ \A j \in DOMAIN rules : Matches(rules[j], action, confidence, level) => i <= j
               /\ Evaluate(rules, action, confidence, level) = rules[i].decision
<1> DEFINE hits == {i \in DOMAIN rules : Matches(rules[i], action, confidence, level)}
           first == CHOOSE i \in hits : \A j \in hits : i <= j
<1>1. hits \in SUBSET Nat /\ hits # {}
  OBVIOUS
<1>2. Evaluate(rules, action, confidence, level) = rules[first].decision
  BY <1>1 DEF Evaluate
<1>3. first \in hits /\ \A j \in hits : first <= j
  <2> HIDE DEF hits
  <2>1. QED
    BY <1>1, LeastNatural
<1> HIDE DEF first
<1>4. QED
  BY <1>2, <1>3

LEMMA NoHit ==
    ASSUME NEW rules, NEW action, NEW confidence, NEW level,
           \A i \in DOMAIN rules : ~Matches(rules[i], action, confidence, level)
    PROVE  Evaluate(rules, action, confidence, level) = "require_approval"
BY DEF Evaluate

(* The level a governor with the bundle's ceiling acts at. *)
Capped(bundle, request) ==
    IF request.level > bundle.autonomy_level THEN bundle.autonomy_level ELSE request.level

(* What each rule of a compiled bundle matches. *)
LEMMA RulesMatch ==
    ASSUME NEW bundle \in Bundle, Compiles(bundle), NEW request \in Request
    PROVE  LET rules == CompiledRules(bundle)
               n == Len(bundle.forbidden_tools)
               m == Len(bundle.permitted_tools)
               Hits(i) == Matches(rules[i], request.action, request.confidence,
                                  Capped(bundle, request))
               Named(i) == <<request.action, bundle.permitted_tools[i]>> \in StartsWith
           IN  /\ n \in Nat /\ m \in Nat /\ DOMAIN rules = 1 .. n + 2 * m
               /\ \A i \in 1 .. n :
                      /\ rules[i].decision = "block"
                      /\ Hits(i) <=> <<request.action, bundle.forbidden_tools[i]>> \in StartsWith
               /\ \A i \in 1 .. m :
                      /\ rules[n + 2 * i - 1].decision = "allow"
                      /\ rules[n + 2 * i].decision = "require_approval"
                      /\ Hits(n + 2 * i - 1) <=>
                             /\ Named(i)
                             /\ request.level >= bundle.autonomy_level
                             /\ request.confidence >= Floor(bundle)
                      /\ Hits(n + 2 * i) <=> Named(i) /\ request.level >= bundle.autonomy_level
<1> DEFINE rules == CompiledRules(bundle)
           n == Len(bundle.forbidden_tools)
           m == Len(bundle.permitted_tools)
           level == Capped(bundle, request)
           Hits(i) == Matches(rules[i], request.action, request.confidence, level)
           Named(i) == <<request.action, bundle.permitted_tools[i]>> \in StartsWith
<1>1. /\ n \in Nat /\ m \in Nat /\ DOMAIN bundle.permitted_tools = 1 .. m
      /\ DOMAIN bundle.forbidden_tools = 1 .. n
      /\ bundle.autonomy_level \in AutonomyLevel
      /\ \A i \in 1 .. m : bundle.permitted_tools[i] # None
      /\ \A i \in 1 .. n : bundle.forbidden_tools[i] # None
  BY BundleShape, PolicyAssumption
<1>2. /\ request.level \in AutonomyLevel /\ request.confidence \in 0 .. MaxConfidence
      /\ MaxConfidence \in Nat
  BY InventoryAssumption, PolicyAssumption
<1>3. /\ level \in AutonomyLevel
      /\ level >= bundle.autonomy_level <=> request.level >= bundle.autonomy_level
  BY <1>1, <1>2 DEF AutonomyLevel, Capped
<1>4. /\ DOMAIN rules = 1 .. n + 2 * m
      /\ \A i \in 1 .. n : rules[i] = BlockRule(bundle.forbidden_tools[i])
      /\ \A k \in 1 .. 2 * m : rules[n + k] = RulePair(bundle, Pair(k))[Half(k)]
  BY RulesOf
<1> HIDE DEF rules, n, m, level
<1>5. ASSUME NEW i \in 1 .. n
      PROVE  /\ rules[i].decision = "block"
             /\ Hits(i) <=> <<request.action, bundle.forbidden_tools[i]>> \in StartsWith
  <2>1. rules[i] = [action_prefix |-> bundle.forbidden_tools[i], minimum_autonomy |-> 0,
                    min_confidence |-> 0, decision |-> "block"]
    BY <1>4 DEF BlockRule
  <2>2. level >= 0 /\ request.confidence >= 0
    BY <1>2, <1>3 DEF AutonomyLevel
  <2>3. QED
    BY <1>1, <2>1, <2>2 DEF Matches, AtLeast
<1>6. ASSUME NEW i \in 1 .. m
      PROVE  /\ rules[n + 2 * i - 1].decision = "allow"
             /\ rules[n + 2 * i].decision = "require_approval"
             /\ Hits(n + 2 * i - 1) <=>
                    /\ Named(i)
                    /\ request.level >= bundle.autonomy_level
                    /\ request.confidence >= Floor(bundle)
             /\ Hits(n + 2 * i) <=> Named(i) /\ request.level >= bundle.autonomy_level
  <2>1. /\ Pair(2 * i - 1) = i /\ Half(2 * i - 1) = 1
        /\ Pair(2 * i) = i /\ Half(2 * i) = 2
    <3>1. i \in Nat \ {0}
      BY <1>1
    <3> HIDE DEF Hits, Named
    <3>2. QED
      BY ONLY <3>1, Halves
  <2>2. /\ 2 * i - 1 \in 1 .. 2 * m /\ 2 * i \in 1 .. 2 * m
        /\ n + 2 * i - 1 = n + (2 * i - 1)
    BY <1>1
  <2>3. /\ rules[n + 2 * i - 1] = RulePair(bundle, i)[1]
        /\ rules[n + 2 * i] = RulePair(bundle, i)[2]
    BY <1>4, <2>1, <2>2
  <2>4. /\ RulePair(bundle, i)[1] =
               [action_prefix |-> bundle.permitted_tools[i],
                minimum_autonomy |-> bundle.autonomy_level,
                min_confidence |-> Floor(bundle), decision |-> "allow"]
        /\ RulePair(bundle, i)[2] =
               [action_prefix |-> bundle.permitted_tools[i],
                minimum_autonomy |-> bundle.autonomy_level,
                min_confidence |-> 0, decision |-> "require_approval"]
    BY <1>1, PairRules
  <2>5. request.confidence >= 0 /\ bundle.permitted_tools[i] # None
    BY <1>1, <1>2
  <2> HIDE DEF Named
  <2>6. /\ rules[n + 2 * i - 1].decision = "allow"
        /\ rules[n + 2 * i].decision = "require_approval"
    BY <2>3, <2>4
  <2>7. Hits(n + 2 * i - 1) <=>
            /\ Named(i)
            /\ level >= bundle.autonomy_level
            /\ request.confidence >= Floor(bundle)
    BY <2>3, <2>4, <2>5 DEF Matches, AtLeast, Named
  <2>8. Hits(n + 2 * i) <=> Named(i) /\ level >= bundle.autonomy_level
    BY <2>3, <2>4, <2>5 DEF Matches, AtLeast, Named
  <2>9. QED
    BY <1>3, <2>6, <2>7, <2>8
<1>7. QED
  BY <1>1, <1>4, <1>5, <1>6 DEF rules, n, m, level

(* The compiled rules decide as the bundle says: whatever is named after a *)
(* forbidden tool is blocked, whatever is named after a permitted one is   *)
(* allowed at the bundle's tier and confidence, and all else goes to a     *)
(* human, however the two lists overlap, repeat and order their names.     *)
LEMMA CompiledDecides ==
    ASSUME NEW bundle \in Bundle, Compiles(bundle), NEW request \in Request
    PROVE  Evaluate(CompiledRules(bundle), request.action, request.confidence,
                    Capped(bundle, request)) = BundleDecision(bundle, request)
<1> DEFINE rules == CompiledRules(bundle)
           n == Len(bundle.forbidden_tools)
           m == Len(bundle.permitted_tools)
           Hits(i) == Matches(rules[i], request.action, request.confidence,
                              Capped(bundle, request))
           Named(i) == <<request.action, bundle.permitted_tools[i]>> \in StartsWith
           Forbidden(i) == <<request.action, bundle.forbidden_tools[i]>> \in StartsWith
           tier == request.level >= bundle.autonomy_level
           sure == request.confidence >= Floor(bundle)
           decision == Evaluate(rules, request.action, request.confidence,
                                Capped(bundle, request))
<1>1. /\ n \in Nat /\ m \in Nat /\ DOMAIN rules = 1 .. n + 2 * m
      /\ \A i \in 1 .. n : rules[i].decision = "block" /\ (Hits(i) <=> Forbidden(i))
      /\ \A i \in 1 .. m :
             /\ rules[n + 2 * i - 1].decision = "allow"
             /\ rules[n + 2 * i].decision = "require_approval"
             /\ Hits(n + 2 * i - 1) <=> Named(i) /\ tier /\ sure
             /\ Hits(n + 2 * i) <=> Named(i) /\ tier
  BY RulesMatch
<1>2. BundleDecision(bundle, request) =
          CASE \E i \in 1 .. n : Forbidden(i) -> "block"
            [] /\ ~\E i \in 1 .. n : Forbidden(i)
               /\ \E i \in 1 .. m : Named(i)
               /\ tier /\ sure -> "allow"
            [] OTHER -> "require_approval"
  <2>1. /\ DOMAIN bundle.permitted_tools = 1 .. m
        /\ DOMAIN bundle.forbidden_tools = 1 .. n
    BY BundleShape
  <2>2. /\ NamedAfter(request.action, bundle.forbidden_tools) <=> \E i \in 1 .. n : Forbidden(i)
        /\ NamedAfter(request.action, bundle.permitted_tools) <=> \E i \in 1 .. m : Named(i)
    BY <2>1 DEF NamedAfter
  <2>3. sure <=> (Get(bundle, "confidence_threshold") # None =>
                      request.confidence >= Get(bundle, "confidence_threshold"))
    BY InventoryAssumption, PolicyAssumption DEF Floor
  <2> HIDE DEF n, m, sure, Named, Forbidden
  <2>4. QED
    BY <2>2, <2>3 DEF BundleDecision
<1> HIDE DEF rules, n, m, Named, Forbidden, tier, sure
<1>3. ASSUME NEW hit \in DOMAIN rules, Hits(hit)
      PROVE  \E i \in DOMAIN rules : /\ Hits(i)
                                     /\ \A j \in DOMAIN rules : Hits(j) => i <= j
                                     /\ decision = rules[i].decision
  <2>1. DOMAIN rules \in SUBSET Nat
    BY <1>1
  <2>2. QED
    BY <1>3, <2>1, FirstHit
<1>4. ASSUME \A i \in DOMAIN rules : ~Hits(i) PROVE decision = "require_approval"
  BY <1>4, NoHit
<1> HIDE DEF Hits, decision
<1>5. \A k \in DOMAIN rules : \/ k \in 1 .. n
                              \/ \E i \in 1 .. m : k = n + 2 * i - 1 \/ k = n + 2 * i
  <2> SUFFICES ASSUME NEW k \in DOMAIN rules, k \notin 1 .. n
               PROVE  \E i \in 1 .. m : k = n + 2 * i - 1 \/ k = n + 2 * i
    OBVIOUS
  <2>1. k - n \in 1 .. 2 * m /\ k - n \in Nat \ {0} /\ k = n + (k - n)
    BY <1>1
  <2>2. /\ Pair(k - n) \in 1 .. m /\ Half(k - n) \in 1 .. 2
        /\ k - n = 2 * Pair(k - n) - 2 + Half(k - n)
    BY <1>1, <2>1, Halves
  <2>3. QED
    BY <1>1, <2>1, <2>2
<1>6. /\ \A i \in 1 .. n : i \in DOMAIN rules
      /\ \A i \in 1 .. m : n + 2 * i - 1 \in DOMAIN rules /\ n + 2 * i \in DOMAIN rules
  BY <1>1
<1>7. CASE \E i \in 1 .. n : Forbidden(i)
  <2>1. PICK f \in 1 .. n : Forbidden(f)
    BY <1>7
  <2>2. PICK i \in DOMAIN rules : /\ Hits(i)
                                  /\ \A j \in DOMAIN rules : Hits(j) => i <= j
                                  /\ decision = rules[i].decision
    BY <1>1, <1>3, <1>6, <2>1
  <2>3. i <= f
    BY <1>1, <1>6, <2>1, <2>2
  <2>4. i \in 1 .. n
    BY <1>1, <2>2, <2>3
  <2>5. decision = "block"
    BY <1>1, <2>2, <2>4
  <2>6. QED
    BY <1>2, <1>7, <2>5 DEF decision, rules
<1>8. CASE /\ ~\E i \in 1 .. n : Forbidden(i)
           /\ \E i \in 1 .. m : Named(i)
           /\ tier /\ sure
  <2>1. PICK p \in 1 .. m : Named(p)
    BY <1>8
  <2>2. PICK k \in DOMAIN rules : /\ Hits(k)
                                  /\ \A j \in DOMAIN rules : Hits(j) => k <= j
                                  /\ decision = rules[k].decision
    BY <1>1, <1>3, <1>6, <1>8, <2>1
  <2>3. k \notin 1 .. n
    BY <1>1, <1>8, <2>2
  <2>4. PICK i \in 1 .. m : k = n + 2 * i - 1 \/ k = n + 2 * i
    BY <1>5, <2>3
  <2>5. ASSUME k = n + 2 * i PROVE FALSE
    <3>1. Named(i)
      BY <1>1, <2>2, <2>5
    <3>2. Hits(n + 2 * i - 1) /\ n + 2 * i - 1 \in DOMAIN rules
      BY <1>1, <1>6, <1>8, <3>1
    <3>3. k <= n + 2 * i - 1
      BY <2>2, <3>2
    <3>4. QED
      BY <1>1, <2>5, <3>3
  <2>6. decision = "allow"
    BY <1>1, <2>2, <2>4, <2>5
  <2>7. QED
    BY <1>2, <1>8, <2>6 DEF decision, rules
<1>9. CASE /\ ~\E i \in 1 .. n : Forbidden(i)
           /\ ~(/\ \E i \in 1 .. m : Named(i)
                /\ tier /\ sure)
  <2>1. ASSUME NEW k \in DOMAIN rules, Hits(k) PROVE rules[k].decision = "require_approval"
    <3>1. k \notin 1 .. n
      BY <1>1, <1>9, <2>1
    <3>2. PICK i \in 1 .. m : k = n + 2 * i - 1 \/ k = n + 2 * i
      BY <1>5, <3>1
    <3>3. k # n + 2 * i - 1
      BY <1>1, <1>9, <2>1, <3>2
    <3>4. QED
      BY <1>1, <3>2, <3>3
  <2>2. decision = "require_approval"
    <3>1. CASE \A i \in DOMAIN rules : ~Hits(i)
      BY <1>4, <3>1
    <3>2. CASE \E i \in DOMAIN rules : Hits(i)
      BY <1>3, <2>1, <3>2
    <3>3. QED
      BY <3>1, <3>2
  <2>3. QED
    BY <1>2, <1>9, <2>2 DEF decision, rules
<1>10. QED
  BY <1>7, <1>8, <1>9

-----------------------------------------------------------------------------
(* The inductive invariant.  A revision never changes once it is made, so  *)
(* what was compiled from it, decided under it and reported of it can be   *)
(* compared with it for ever.                                              *)

Entry ==
    [type : {"policy_decision", "hitl_checkpoint_created",
             "tool_call_allowed", "tool_call_denied"},
     request : Request, decision : Decision \cup {None}, policy_version : Nat \cup {None}]

Event == [entry : Nat, policy_version : Nat, decision : Decision]

Post == [event : Event, answer : {None, "event_id", "no_event_id"}]

(* A complete revision there has been. *)
Served(v) == v \in DOMAIN policies /\ Compiles(policies[v])

Fetching ==
    fetch # None =>
        /\ fetch.runtime \in Runtime
        /\ fetch.since \in DOMAIN policies
        /\ fetch.version # 0 => fetch.version \in fetch.since .. Len(policies)

Enforces(g) ==
    LET v == governor[g].policy_version
    IN  /\ Served(v)
        /\ governor[g].since \in 1 .. v
        /\ governor[g].rules = CompiledRules(policies[v])
        /\ governor[g].scopes = CompiledScopes(policies[v])
        /\ governor[g].ceiling = policies[v].autonomy_level

(* What NothingBeyondTheBundle says of one answer. *)
WithinTheBundle(bundle, request) ==
    LET limit == Get(bundle, "transaction_limit")
    IN  /\ BundleDecision(bundle, request) = "allow"
        /\ request.tool # None =>
               /\ request.tool \in Range(bundle.permitted_tools)
               /\ limit # None => /\ Amount[request.params] # None
                                  /\ Amount[request.params] <= limit

Recorded(i) ==
    entries[i].type = "policy_decision" =>
        /\ Served(entries[i].policy_version)
        /\ entries[i].decision =
               BundleDecision(policies[entries[i].policy_version], entries[i].request)

(* What an event says of a policy decision is what the entry says. *)
Tells(event) ==
    /\ event.entry \in DOMAIN entries
    /\ entries[event.entry].type = "policy_decision" =>
           /\ event.policy_version = entries[event.entry].policy_version
           /\ event.decision = entries[event.entry].decision

PolicyInv ==
    /\ policies \in Seq(Bundle \cup {None}) /\ policies # << >>
    /\ Fetching
    /\ \A g \in Runtime : governor[g] # None => Enforces(g)

ActInv ==
    /\ entries \in Seq(Entry)
    /\ \A i \in DOMAIN entries : Recorded(i)
    /\ \A a \in allowed : /\ Served(a.version)
                          /\ WithinTheBundle(policies[a.version], a.request)

ReportInv ==
    /\ received \in Seq(Event)
    /\ \A k \in DOMAIN received : Tells(received[k])
    /\ post # None => /\ post \in Post
                      /\ Tells(post.event)
                      /\ post.answer = "event_id" => post.event \in Range(received)
    /\ reported \subseteq Range(received)

LoopInv == PolicyInv /\ ActInv /\ ReportInv /\ DOMAIN governor = Runtime

-----------------------------------------------------------------------------
(* What the invariant says of the decision a governor is about to make. *)

LEMMA RegistryPermits ==
    ASSUME NEW g, NEW tool, NEW level, NEW params, Registry(g)!Permitted(tool, level, params)
    PROVE  /\ governor[g].scopes[tool] # None
           /\ params \in governor[g].scopes[tool].accepts
BY DEF Registry!Permitted

LEMMA DecidesByBundle ==
    ASSUME NEW g \in Runtime, Enforces(g), policies \in Seq(Bundle \cup {None}),
           NEW request \in Request
    PROVE  Decide(g, request) =
               BundleDecision(policies[governor[g].policy_version], request)
<1> DEFINE bundle == policies[governor[g].policy_version]
<1>1. bundle \in Bundle /\ Compiles(bundle)
  BY DEF Enforces, Served, Compiles
<1>2. EffectiveLevel(g, request) = Capped(bundle, request)
  BY DEF EffectiveLevel, Capped, Enforces
<1>3. governor[g].rules = CompiledRules(bundle)
  BY DEF Enforces
<1> HIDE DEF bundle
<1>4. QED
  BY <1>1, <1>2, <1>3, CompiledDecides DEF Decide, bundle

LEMMA AllowsByBundle ==
    ASSUME NEW g \in Runtime, Enforces(g), policies \in Seq(Bundle \cup {None}),
           NEW request \in Request, Decide(g, request) = "allow",
           request.tool # None =>
               Registry(g)!Permitted(request.tool, EffectiveLevel(g, request), request.params)
    PROVE  WithinTheBundle(policies[governor[g].policy_version], request)
<1> DEFINE bundle == policies[governor[g].policy_version]
           limit == Get(bundle, "transaction_limit")
<1>1. BundleDecision(bundle, request) = "allow"
  BY DecidesByBundle
<1>2. ASSUME request.tool # None
      PROVE  /\ request.tool \in Range(bundle.permitted_tools)
             /\ limit # None => UnderTransactionLimit(request.params, limit)
  <2>1. request.tool \in Tool
    BY <1>2, InventoryAssumption
  <2>2. /\ governor[g].scopes[request.tool] # None
        /\ request.params \in governor[g].scopes[request.tool].accepts
    BY <1>2, RegistryPermits
  <2>3. governor[g].scopes = CompiledScopes(bundle)
    BY DEF Enforces
  <2> HIDE DEF bundle
  <2>4. QED
    BY <2>1, <2>2, <2>3 DEF CompiledScopes
<1>3. QED
  BY <1>1, <1>2 DEF WithinTheBundle, UnderTransactionLimit

-----------------------------------------------------------------------------
(* LoopInv is inductive. *)

LEMMA StringsAreNotNone == None # "event_id" /\ None # "no_event_id"
BY InventoryAssumption

LEMMA LoopStarts == Init => LoopInv
<1> SUFFICES ASSUME Init PROVE LoopInv
  OBVIOUS
<1>1. PICK bundle \in Bundle \cup {None} : policies = <<bundle>>
  BY DEF Init
<1>2. PolicyInv
  BY <1>1 DEF Init, PolicyInv, Fetching
<1>3. ActInv
  BY DEF Init, ActInv
<1>4. ReportInv
  BY DEF Init, ReportInv
<1>5. QED
  BY <1>2, <1>3, <1>4 DEF Init, LoopInv

(* No step takes a revision back. *)
LEMMA RevisionsLast ==
    ASSUME LoopInv, [Next]_vars
    PROVE  /\ policies' \in Seq(Bundle \cup {None}) /\ policies' # << >>
           /\ Len(policies') \in Nat /\ Len(policies) <= Len(policies')
           /\ DOMAIN policies' = 1 .. Len(policies')
           /\ \A v : Served(v) => Served(v)' /\ policies'[v] = policies[v]
<1>1. policies \in Seq(Bundle \cup {None}) /\ policies # << >>
  BY DEF LoopInv, PolicyInv
<1>2. CASE UNCHANGED policies
  BY <1>1, <1>2 DEF Served
<1>3. ASSUME NEW bundle \in Bundle \cup {None}, policies' = Append(policies, bundle)
      PROVE  /\ policies' \in Seq(Bundle \cup {None}) /\ policies' # << >>
             /\ Len(policies') \in Nat /\ Len(policies) <= Len(policies')
             /\ DOMAIN policies' = 1 .. Len(policies')
             /\ \A v : Served(v) => Served(v)' /\ policies'[v] = policies[v]
  <2>1. /\ policies' \in Seq(Bundle \cup {None}) /\ policies' # << >>
        /\ Len(policies') = Len(policies) + 1
        /\ Len(policies) \in Nat
        /\ \A v \in DOMAIN policies : v \in DOMAIN policies' /\ policies'[v] = policies[v]
    BY <1>1, <1>3
  <2>2. \A v : Served(v) => Served(v)' /\ policies'[v] = policies[v]
    BY <2>1 DEF Served
  <2>3. QED
    BY <2>1, <2>2
<1>4. (\E bundle \in Bundle \cup {None} : policies' = Append(policies, bundle))
          \/ UNCHANGED policies
  BY DEF Next, vars, policyVars, ChangePolicy, StartFetch, EvaluateAction, SendReport, ServePolicy,
         FetchFails, BuildGovernor, StoreEvent, AnswerStrangely, ReportFails, FinishReport
<1>5. QED
  BY <1>2, <1>3, <1>4

LEMMA PolicyKept ==
    ASSUME LoopInv, [Next]_vars
    PROVE  PolicyInv' /\ DOMAIN governor' = Runtime
<1> USE DEF LoopInv, PolicyInv
<1>1. /\ policies' \in Seq(Bundle \cup {None}) /\ policies' # << >>
      /\ Len(policies) \in Nat /\ Len(policies') \in Nat /\ Len(policies) <= Len(policies')
      /\ DOMAIN policies = 1 .. Len(policies) /\ DOMAIN policies' = 1 .. Len(policies')
      /\ \A v : Served(v) => Served(v)' /\ policies'[v] = policies[v]
  BY RevisionsLast
<1>2. ASSUME NEW g \in Runtime, governor[g] # None, governor'[g] = governor[g]
      PROVE  Enforces(g)'
  <2>1. Served(governor[g].policy_version)
    BY <1>2 DEF Enforces
  <2>2. QED
    BY <1>1, <1>2, <2>1 DEF Enforces
<1>3. ASSUME UNCHANGED fetch PROVE Fetching'
  BY <1>1, <1>3 DEF Fetching
<1>4. ASSUME UNCHANGED governor
      PROVE  (\A g \in Runtime : governor[g] # None => Enforces(g))' /\ DOMAIN governor' = Runtime
  BY <1>2, <1>4
<1>5. CASE UNCHANGED <<fetch, governor>>
  BY <1>1, <1>3, <1>4, <1>5
<1>6. ASSUME NEW g \in Runtime, StartFetch(g)
      PROVE  PolicyInv' /\ DOMAIN governor' = Runtime
  <2>1. UNCHANGED <<policies, governor>>
        /\ fetch' = [runtime |-> g, since |-> Len(policies), version |-> 0]
    BY <1>6 DEF StartFetch
  <2>2. Len(policies) # 0
    OBVIOUS
  <2>3. QED
    BY <1>1, <1>4, <2>1, <2>2 DEF Fetching
<1>7. CASE ServePolicy
  <2>1. UNCHANGED <<policies, governor>> /\ fetch # None
        /\ fetch' = [fetch EXCEPT !.version = Len(policies)]
    BY <1>7 DEF ServePolicy
  <2>2. Fetching'
    BY <1>1, <2>1 DEF Fetching
  <2>3. QED
    BY <1>1, <1>4, <2>1, <2>2
<1>8. CASE FetchFails
  <2>1. UNCHANGED <<policies, governor>> /\ fetch' = None
    BY <1>8 DEF FetchFails
  <2>2. QED
    BY <1>1, <1>4, <2>1 DEF Fetching
<1>9. CASE BuildGovernor
  <2> DEFINE v == fetch.version
             bundle == policies[v]
             built == [rules |-> CompiledRules(bundle), scopes |-> CompiledScopes(bundle),
                       ceiling |-> bundle.autonomy_level,
                       policy_version |-> v, since |-> fetch.since]
  <2>1. /\ UNCHANGED policies /\ fetch' = None
        /\ governor' = IF ~Compiles(bundle) THEN governor
                       ELSE [governor EXCEPT ![fetch.runtime] = built]
        /\ fetch # None /\ v # 0
    BY <1>9 DEF BuildGovernor
  <2>2. Fetching'
    BY <2>1 DEF Fetching
  <2>3. CASE ~Compiles(bundle)
    BY <1>1, <1>4, <2>1, <2>2, <2>3
  <2>4. CASE Compiles(bundle)
    <3>1. /\ v \in DOMAIN policies /\ fetch.since \in 1 .. v /\ fetch.runtime \in Runtime
      BY <1>1, <2>1 DEF Fetching
    <3>2. DOMAIN governor' = Runtime
      BY <2>1, <2>4
    <3>3. ASSUME NEW g \in Runtime, governor'[g] # None PROVE Enforces(g)'
      <4>1. CASE g = fetch.runtime
        <5>1. governor'[g] = built
          BY <2>1, <2>4, <4>1
        <5>2. /\ built.rules = CompiledRules(bundle) /\ built.scopes = CompiledScopes(bundle)
              /\ built.ceiling = bundle.autonomy_level
              /\ built.policy_version = v /\ built.since = fetch.since
          OBVIOUS
        <5> HIDE DEF built
        <5>3. QED
          BY <2>1, <2>4, <3>1, <5>1, <5>2 DEF Enforces, Served
      <4>2. CASE g # fetch.runtime
        <5>1. governor'[g] = governor[g]
          BY <2>1, <2>4, <4>2
        <5>2. QED
          BY <1>2, <3>3, <5>1
      <4>3. QED
        BY <4>1, <4>2
    <3>4. QED
      BY <1>1, <2>2, <3>2, <3>3
  <2>5. QED
    BY <2>3, <2>4
<1>10. CASE Next
  <2> USE DEF policyVars
  <2>1. ASSUME NEW bundle \in Bundle \cup {None}, ChangePolicy(bundle)
        PROVE  PolicyInv' /\ DOMAIN governor' = Runtime
    BY <1>5, <2>1 DEF ChangePolicy
  <2>2. ASSUME NEW g \in Runtime, NEW request \in Request, EvaluateAction(g, request)
        PROVE  PolicyInv' /\ DOMAIN governor' = Runtime
    BY <1>5, <2>2 DEF EvaluateAction
  <2>3. ASSUME NEW g \in Runtime, NEW i \in DOMAIN entries, SendReport(g, i)
        PROVE  PolicyInv' /\ DOMAIN governor' = Runtime
    BY <1>5, <2>3 DEF SendReport
  <2>4. ASSUME StoreEvent \/ AnswerStrangely \/ ReportFails \/ FinishReport
        PROVE  PolicyInv' /\ DOMAIN governor' = Runtime
    BY <1>5, <2>4 DEF StoreEvent, AnswerStrangely, ReportFails, FinishReport
  <2>5. QED
    BY <1>6, <1>7, <1>8, <1>9, <1>10, <2>1, <2>2, <2>3, <2>4 DEF Next
<1>11. CASE UNCHANGED vars
  BY <1>5, <1>11 DEF vars, policyVars
<1>12. QED
  BY <1>10, <1>11

LEMMA OneOrTwoMore ==
    ASSUME NEW P, NEW s \in Seq(P), NEW a \in P, NEW b \in P, NEW second \in BOOLEAN
    PROVE  LET t == s \o <<a>> \o (IF second THEN <<b>> ELSE << >>)
           IN  /\ t \in Seq(P)
               /\ \A i \in DOMAIN s : i \in DOMAIN t /\ t[i] = s[i]
               /\ \A i \in DOMAIN t : i \in DOMAIN s \/ t[i] = a \/ t[i] = b
<1>1. s \o <<a>> \in Seq(P)
  OBVIOUS
<1>2. CASE second
  <2> DEFINE t == s \o <<a>> \o <<b>>
  <2>1. /\ t \in Seq(P) /\ Len(t) = Len(s) + 2 /\ Len(s) \in Nat
        /\ \A i \in 1 .. Len(s) : t[i] = s[i]
        /\ t[Len(s) + 1] = a /\ t[Len(s) + 2] = b
    OBVIOUS
  <2>2. /\ DOMAIN t = 1 .. Len(t) /\ DOMAIN s = 1 .. Len(s)
        /\ \A i \in 1 .. Len(t) : i \in 1 .. Len(s) \/ i = Len(s) + 1 \/ i = Len(s) + 2
    BY <2>1
  <2> HIDE DEF t
  <2>3. /\ \A i \in DOMAIN s : i \in DOMAIN t /\ t[i] = s[i]
        /\ \A i \in DOMAIN t : i \in DOMAIN s \/ t[i] = a \/ t[i] = b
    BY <2>1, <2>2
  <2>4. QED
    BY <1>2, <2>1, <2>3 DEF t
<1>3. CASE ~second
  <2> DEFINE t == s \o <<a>> \o << >>
  <2>1. /\ t \in Seq(P) /\ Len(t) = Len(s) + 1 /\ Len(s) \in Nat
        /\ \A i \in 1 .. Len(s) : t[i] = s[i]
        /\ t[Len(s) + 1] = a
    OBVIOUS
  <2>2. /\ DOMAIN t = 1 .. Len(t) /\ DOMAIN s = 1 .. Len(s)
        /\ \A i \in 1 .. Len(t) : i \in 1 .. Len(s) \/ i = Len(s) + 1
    BY <2>1
  <2> HIDE DEF t
  <2>3. /\ \A i \in DOMAIN s : i \in DOMAIN t /\ t[i] = s[i]
        /\ \A i \in DOMAIN t : i \in DOMAIN s \/ t[i] = a \/ t[i] = b
    BY <2>1, <2>2
  <2>4. QED
    BY <1>3, <2>1, <2>3 DEF t
<1>4. QED
  BY <1>2, <1>3

LEMMA DecisionKinds ==
    ASSUME NEW bundle, NEW request
    PROVE  BundleDecision(bundle, request) \in Decision
BY DEF BundleDecision, Decision

(* The entries of one decision, and what is in the log stays there. *)
LEMMA EntriesLast ==
    ASSUME LoopInv, [Next]_vars
    PROVE  /\ entries' \in Seq(Entry)
           /\ \A i \in DOMAIN entries : i \in DOMAIN entries' /\ entries'[i] = entries[i]
           /\ (\A i \in DOMAIN entries : Recorded(i))'
<1> USE DEF LoopInv, ActInv, PolicyInv
<1>1. \A v : Served(v) => Served(v)' /\ policies'[v] = policies[v]
  BY RevisionsLast
<1>2. ASSUME NEW i \in DOMAIN entries, entries'[i] = entries[i] PROVE Recorded(i)'
  BY <1>1, <1>2 DEF Recorded
<1>3. CASE UNCHANGED entries
  BY <1>2, <1>3
<1>4. ASSUME NEW g \in Runtime, NEW request \in Request, EvaluateAction(g, request)
      PROVE  /\ entries' \in Seq(Entry)
             /\ \A i \in DOMAIN entries : i \in DOMAIN entries' /\ entries'[i] = entries[i]
             /\ (\A i \in DOMAIN entries : Recorded(i))'
  <2> DEFINE version == governor[g].policy_version
             decision == Decide(g, request)
             tool_allowed ==
                 request.tool # None =>
                     Registry(g)!Permitted(request.tool, EffectiveLevel(g, request), request.params)
             event == CASE decision = "require_approval" -> "hitl_checkpoint_created"
                        [] tool_allowed -> "tool_call_allowed"
                        [] OTHER -> "tool_call_denied"
             second == decision = "require_approval"
                           \/ (decision = "allow" /\ request.tool # None)
             made == EntryOf("policy_decision", request, decision, version)
             next == EntryOf(event, request, None, None)
  <2>1. /\ governor[g] # None /\ UNCHANGED policies
        /\ entries' = entries \o <<made>> \o (IF second THEN <<next>> ELSE << >>)
    BY <1>4 DEF EvaluateAction, policyVars
  <2>2. Served(version) /\ decision = BundleDecision(policies[version], request)
    BY <2>1, DecidesByBundle DEF Enforces
  <2>3. event \in {"hitl_checkpoint_created", "tool_call_allowed", "tool_call_denied"}
    <3> HIDE DEF decision, tool_allowed
    <3>1. QED
      OBVIOUS
  <2>4. made \in Entry /\ next \in Entry
    <3>1. version \in Nat /\ decision \in Decision
      BY <2>2, DecisionKinds DEF Served
    <3> HIDE DEF version, decision, event
    <3>2. QED
      BY <2>3, <3>1 DEF EntryOf, Entry
  <2>5. /\ made.type = "policy_decision" /\ made.request = request
        /\ made.decision = decision /\ made.policy_version = version
        /\ next.type # "policy_decision"
    <3> HIDE DEF version, decision, event
    <3>1. QED
      BY <2>3 DEF EntryOf
  <2>6. second \in BOOLEAN
    OBVIOUS
  <2> HIDE DEF made, next, second
  <2>7. /\ entries' \in Seq(Entry)
        /\ \A i \in DOMAIN entries : i \in DOMAIN entries' /\ entries'[i] = entries[i]
        /\ \A i \in DOMAIN entries' : i \in DOMAIN entries \/ entries'[i] = made
                                          \/ entries'[i] = next
    <3> HIDE DEF Entry
    <3>1. QED
      BY <2>1, <2>4, <2>6, OneOrTwoMore
  <2>8. ASSUME NEW i \in DOMAIN entries', entries'[i] = made PROVE Recorded(i)'
    <3>1. PICK v : v = version
      OBVIOUS
    <3>2. Served(v)' /\ policies'[v] = policies[v]
      BY <1>1, <2>2, <3>1
    <3>3. /\ entries'[i].policy_version = v /\ entries'[i].request = request
          /\ entries'[i].decision = BundleDecision(policies[v], request)
      <4> HIDE DEF version, decision
      <4>1. QED
        BY <2>2, <2>5, <2>8, <3>1
    <3>4. QED
      BY <3>2, <3>3 DEF Recorded
  <2>9. ASSUME NEW i \in DOMAIN entries', entries'[i] = next PROVE Recorded(i)'
    BY <2>5, <2>9 DEF Recorded
  <2>10. QED
    BY <1>2, <2>7, <2>8, <2>9
<1>5. \/ UNCHANGED entries
      \/ \E g \in Runtime : \E request \in Request : EvaluateAction(g, request)
  BY DEF Next, vars, actVars, ChangePolicy, StartFetch, SendReport, ServePolicy,
         FetchFails, BuildGovernor, StoreEvent, AnswerStrangely, ReportFails, FinishReport
<1>6. QED
  BY <1>3, <1>4, <1>5

LEMMA ActKept ==
    ASSUME LoopInv, [Next]_vars
    PROVE  ActInv'
<1> USE DEF LoopInv, ActInv, PolicyInv
<1>1. \A v : Served(v) => Served(v)' /\ policies'[v] = policies[v]
  BY RevisionsLast
<1>2. ASSUME NEW a \in allowed
      PROVE  Served(a.version)' /\ WithinTheBundle(policies'[a.version], a.request)
  BY <1>1
<1>3. (\A a \in allowed : /\ Served(a.version)
                          /\ WithinTheBundle(policies[a.version], a.request))'
  <2>1. CASE UNCHANGED allowed
    BY <1>2, <2>1
  <2>2. ASSUME NEW g \in Runtime, NEW request \in Request, EvaluateAction(g, request)
        PROVE  \A a \in allowed' : /\ Served(a.version)'
                                   /\ WithinTheBundle(policies'[a.version], a.request)
    <3> DEFINE version == governor[g].policy_version
               tool_allowed ==
                   request.tool # None =>
                       Registry(g)!Permitted(request.tool, EffectiveLevel(g, request),
                                             request.params)
               answer == [request |-> request, version |-> version]
    <3>1. /\ governor[g] # None /\ UNCHANGED policies
          /\ allowed' = IF Decide(g, request) = "allow" /\ tool_allowed
                        THEN allowed \cup {answer} ELSE allowed
      BY <2>2 DEF EvaluateAction, policyVars
    <3>2. Enforces(g)
      BY <3>1
    <3>3. ASSUME Decide(g, request) = "allow", tool_allowed
          PROVE  Served(version) /\ WithinTheBundle(policies[version], request)
      BY <3>2, <3>3, AllowsByBundle DEF Enforces
    <3> HIDE DEF version, tool_allowed
    <3>4. answer.request = request /\ answer.version = version
      OBVIOUS
    <3> HIDE DEF answer
    <3>5. ASSUME NEW a \in allowed'
          PROVE  /\ Served(a.version)'
                 /\ WithinTheBundle(policies'[a.version], a.request)
      <4>1. CASE a \in allowed
        BY <1>2, <4>1
      <4>2. CASE a \notin allowed
        BY <1>1, <3>1, <3>3, <3>4, <4>2
      <4>3. QED
        BY <4>1, <4>2
    <3>6. QED
      BY <3>5
  <2>3. \/ UNCHANGED allowed
        \/ \E g \in Runtime : \E request \in Request : EvaluateAction(g, request)
    BY DEF Next, vars, actVars, ChangePolicy, StartFetch, SendReport, ServePolicy,
           FetchFails, BuildGovernor, StoreEvent, AnswerStrangely, ReportFails, FinishReport
  <2>4. QED
    BY <2>1, <2>2, <2>3
<1>4. QED
  BY <1>3, EntriesLast

LEMMA EventTells ==
    ASSUME LoopInv, NEW g \in Runtime, governor[g] # None, NEW i \in DOMAIN entries
    PROVE  EventFromEntry(g, i) \in Event /\ Tells(EventFromEntry(g, i))
<1> DEFINE event == EventFromEntry(g, i)
<1>1. entries[i] \in Entry /\ i \in Nat /\ Recorded(i)
  BY DEF LoopInv, ActInv
<1>2. governor[g].policy_version \in Nat
  BY DEF LoopInv, PolicyInv, Enforces, Served
<1>3. CASE entries[i].type = "policy_decision"
  <2>1. event = [entry |-> i, policy_version |-> entries[i].policy_version,
                 decision |-> entries[i].decision]
    BY <1>3 DEF EventFromEntry
  <2>2. entries[i].policy_version \in Nat /\ entries[i].decision \in Decision
    BY <1>1, <1>3, DecisionKinds DEF Recorded, Served, LoopInv, PolicyInv
  <2> HIDE DEF event
  <2>3. event.entry = i /\ event.policy_version = entries[i].policy_version
        /\ event.decision = entries[i].decision
    BY <2>1
  <2>4. event \in Event /\ Tells(event)
    BY <1>1, <2>1, <2>2, <2>3 DEF Event, Tells
  <2>5. QED
    BY <2>4 DEF event
<1>4. CASE entries[i].type # "policy_decision"
  <2>1. event = [entry |-> i, policy_version |-> governor[g].policy_version,
                 decision |-> EventTypeDecision(entries[i].type)]
    BY <1>4 DEF EventFromEntry
  <2>2. EventTypeDecision(entries[i].type) \in Decision
    BY <1>1, <1>4 DEF EventTypeDecision, Decision, Entry
  <2> HIDE DEF event
  <2>3. event.entry = i
    BY <2>1
  <2>4. event \in Event /\ Tells(event)
    BY <1>1, <1>2, <1>4, <2>1, <2>2, <2>3 DEF Event, Tells
  <2>5. QED
    BY <2>4 DEF event
<1>5. QED
  BY <1>3, <1>4

LEMMA ReportKept ==
    ASSUME LoopInv, [Next]_vars
    PROVE  ReportInv'
<1> USE DEF LoopInv, ReportInv
<1>1. /\ entries \in Seq(Entry)
      /\ \A i \in DOMAIN entries : i \in DOMAIN entries' /\ entries'[i] = entries[i]
  BY EntriesLast DEF ActInv
<1>2. ASSUME NEW event, Tells(event) PROVE Tells(event)'
  BY <1>1, <1>2 DEF Tells
<1>3. ASSUME UNCHANGED received
      PROVE  /\ received' \in Seq(Event)
             /\ (\A k \in DOMAIN received : Tells(received[k]))'
             /\ Range(received') = Range(received)
  BY <1>2, <1>3
<1>4. ASSUME UNCHANGED post, UNCHANGED received
      PROVE  (post # None => /\ post \in Post
                             /\ Tells(post.event)
                             /\ post.answer = "event_id" => post.event \in Range(received))'
  BY <1>2, <1>4
<1>5. CASE UNCHANGED <<post, received, reported>>
  BY <1>3, <1>4, <1>5
<1>6. ASSUME NEW g \in Runtime, NEW i \in DOMAIN entries, SendReport(g, i) PROVE ReportInv'
  <2> DEFINE event == EventFromEntry(g, i)
  <2>1. /\ governor[g] # None /\ post' = [event |-> event, answer |-> None]
        /\ UNCHANGED <<received, reported, entries>>
    BY <1>6 DEF SendReport, actVars
  <2>2. event \in Event /\ Tells(event)
    BY <2>1, EventTells
  <2> HIDE DEF event
  <2>3. post' \in Post /\ post'.event = event /\ post'.answer = None
    BY <2>1, <2>2 DEF Post
  <2>4. Tells(post.event)'
    BY <2>1, <2>2, <2>3 DEF Tells
  <2>5. QED
    BY <1>3, <2>1, <2>3, <2>4, StringsAreNotNone
<1>7. CASE StoreEvent
  <2>1. /\ post # None /\ received' = Append(received, post.event)
        /\ post' = [post EXCEPT !.answer = "event_id"] /\ UNCHANGED <<entries, reported>>
    BY <1>7 DEF StoreEvent, actVars
  <2>2. post \in Post /\ Tells(post.event) /\ post.event \in Event
    BY <2>1 DEF Post
  <2>3. /\ received' \in Seq(Event) /\ Len(received') = Len(received) + 1 /\ Len(received) \in Nat
        /\ \A k \in 1 .. Len(received) : received'[k] = received[k]
        /\ received'[Len(received) + 1] = post.event
    BY <2>1, <2>2
  <2>4. /\ DOMAIN received = 1 .. Len(received) /\ DOMAIN received' = 1 .. Len(received')
        /\ \A k \in 1 .. Len(received') : k \in 1 .. Len(received) \/ k = Len(received) + 1
    BY <2>3
  <2>5. (\A k \in DOMAIN received : Tells(received[k]))'
    <3>1. ASSUME NEW k \in DOMAIN received' PROVE Tells(received[k])'
      <4>1. PICK event : event = received'[k]
        OBVIOUS
      <4>2. Tells(event)
        BY <2>2, <2>3, <2>4, <4>1
      <4>3. QED
        BY <2>1, <4>1, <4>2 DEF Tells
    <3>2. QED
      BY <3>1
  <2>6. Range(received) \subseteq Range(received') /\ post.event \in Range(received')
    BY <2>3, <2>4 DEF Range
  <2>7. post' \in Post /\ post'.event = post.event
    BY <2>1, <2>2 DEF Post
  <2>8. Tells(post.event)'
    BY <2>1, <2>2, <2>7 DEF Tells
  <2>9. QED
    BY <2>1, <2>3, <2>5, <2>6, <2>7, <2>8
<1>8. CASE AnswerStrangely
  <2>1. /\ post # None /\ post' = [post EXCEPT !.answer = "no_event_id"]
        /\ UNCHANGED <<entries, received, reported>>
    BY <1>8 DEF AnswerStrangely, actVars
  <2>2. post \in Post /\ Tells(post.event)
    BY <2>1
  <2>3. post' \in Post /\ post'.event = post.event /\ post'.answer = "no_event_id"
    BY <2>1, <2>2 DEF Post
  <2>4. Tells(post.event)'
    BY <2>1, <2>2, <2>3 DEF Tells
  <2>5. QED
    BY <1>3, <2>1, <2>3, <2>4
<1>9. CASE ReportFails
  <2>1. post' = None /\ UNCHANGED <<received, reported>>
    BY <1>9 DEF ReportFails
  <2>2. QED
    BY <1>3, <2>1
<1>10. CASE FinishReport
  <2>1. /\ post # None /\ post' = None /\ UNCHANGED received
        /\ reported' = IF post.answer = "event_id" THEN reported \cup {post.event}
                       ELSE reported
    BY <1>10 DEF FinishReport
  <2>2. reported' \subseteq Range(received')
    BY <1>3, <2>1
  <2>3. QED
    BY <1>3, <2>1, <2>2
<1>11. CASE Next
  <2> USE DEF reportVars
  <2>1. ASSUME NEW bundle \in Bundle \cup {None}, ChangePolicy(bundle) PROVE ReportInv'
    BY <1>5, <2>1 DEF ChangePolicy
  <2>2. ASSUME NEW g \in Runtime, StartFetch(g) PROVE ReportInv'
    BY <1>5, <2>2 DEF StartFetch
  <2>3. ASSUME NEW g \in Runtime, NEW request \in Request, EvaluateAction(g, request)
        PROVE  ReportInv'
    BY <1>5, <2>3 DEF EvaluateAction
  <2>4. ASSUME ServePolicy \/ FetchFails \/ BuildGovernor PROVE ReportInv'
    BY <1>5, <2>4 DEF ServePolicy, FetchFails, BuildGovernor
  <2>5. QED
    BY <1>6, <1>7, <1>8, <1>9, <1>10, <1>11, <2>1, <2>2, <2>3, <2>4 DEF Next
<1>12. CASE UNCHANGED vars
  BY <1>5, <1>12 DEF vars, reportVars
<1>13. QED
  BY <1>11, <1>12

(* THEOREM: the loop keeps its invariant, which every property below reads *)
(* off: revisions, governors, entries and events agree with one another.   *)
THEOREM LoopAgrees == Spec => []LoopInv
<1>1. LoopInv /\ [Next]_vars => LoopInv'
  BY PolicyKept, ActKept, ReportKept DEF LoopInv
<1>2. QED
  BY <1>1, LoopStarts, PTL DEF Spec

-----------------------------------------------------------------------------
(* "Inventory becomes the source of truth for runtime policy"              *)
(* (inventory_client.py:1-7): whatever any runtime was ever allowed to do, *)
(* the complete revision it acted under allows it, by name, tier,          *)
(* confidence and amount.                                                  *)
THEOREM InventoryIsTheSource == Spec => []NothingBeyondTheBundle
<1>1. LoopInv => NothingBeyondTheBundle
  BY DEF LoopInv, ActInv, Served, Compiles, WithinTheBundle, NothingBeyondTheBundle
<1>2. QED
  BY <1>1, LoopAgrees, PTL

(* "Which policy version produced this decision" (governor.py:198-205):    *)
(* every decision Inventory has on record is the one the revision named in *)
(* it makes of the request, whichever governor reported it, and when.      *)
THEOREM DecisionsReplay == Spec => []EvidenceReplays
<1>1. LoopInv => EvidenceReplays
  <2> SUFFICES ASSUME LoopInv, NEW e \in Range(received),
                      entries[e.entry].type = "policy_decision"
               PROVE  /\ policies[e.policy_version] # None
                      /\ e.decision = BundleDecision(policies[e.policy_version],
                                                     entries[e.entry].request)
    BY DEF EvidenceReplays
  <2>1. Tells(e)
    BY DEF LoopInv, ReportInv, Range
  <2>2. Recorded(e.entry)
    BY <2>1 DEF Tells, LoopInv, ActInv
  <2>3. QED
    BY <2>1, <2>2 DEF Tells, Recorded, Served, Compiles
<1>2. QED
  BY <1>1, LoopAgrees, PTL

(* report_runtime_event returns normally only for an event Inventory has   *)
(* (inventory_client.py:265-269), whatever the exchange went through.      *)
THEOREM ReportsArrived == Spec => []ReportedMeansReceived
<1>1. LoopInv => ReportedMeansReceived
  BY DEF LoopInv, ReportInv, ReportedMeansReceived
<1>2. QED
  BY <1>1, LoopAgrees, PTL

(* "Fails loudly rather than silently falling back" (governor.py:143-148): *)
(* no governor enforces a revision older than the one in force when its    *)
(* construction began.                                                     *)
THEOREM BuiltFresh == Spec => []FreshWhenBuilt
<1>1. LoopInv => FreshWhenBuilt
  BY DEF LoopInv, PolicyInv, Enforces, Served, FreshWhenBuilt
<1>2. QED
  BY <1>1, LoopAgrees, PTL

=============================================================================
