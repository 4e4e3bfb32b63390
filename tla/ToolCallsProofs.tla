--------------------------- MODULE ToolCallsProofs ---------------------------
(***************************************************************************)
(* What a shared registry promises, for any number of calls, tools, limits *)
(* and sessions.                                                           *)
(***************************************************************************)
EXTENDS ToolCalls, FiniteSetTheorems, TLAPS

-----------------------------------------------------------------------------
(* Sums over finite sets.  The fold behind SumOf is a recursive function   *)
(* on the subsets; a set of subsets of a finite set has a least element,   *)
(* and that is all the induction the lemmas below need.                    *)

Pick(s) == CHOOSE x \in s : TRUE

(* g gives the sum of f over each subset of T, one picked element after    *)
(* the other.                                                              *)
Sums(g, f, T) ==
    \A s \in SUBSET T :
        g[s] = IF s = {} THEN 0 ELSE f[Pick(s)] + g[s \ {Pick(s)}]

LEMMA LeastSubset ==
    ASSUME NEW T, IsFiniteSet(T), NEW Q \in SUBSET (SUBSET T), Q # {}
    PROVE  \E s \in Q : \A r \in Q : r \subseteq s => r = s
<1>1. IsWellFoundedOn(StrictSubsetOrdering(T), SUBSET T)
  BY FS_StrictSubsetOrderingWellFounded, FS_FiniteSubsetsOfFinite
<1>2. PICK s \in Q : \A r \in Q : ~(<<r, s>> \in StrictSubsetOrdering(T))
  BY <1>1, WFMin
<1>3. ASSUME NEW r \in Q, r \subseteq s PROVE r = s
  BY <1>2, <1>3 DEF StrictSubsetOrdering
<1>4. QED
  BY <1>3

LEMMA PickIn ==
    ASSUME NEW s, s # {}
    PROVE  Pick(s) \in s
BY DEF Pick

(* Two such functions agree where the summands do.                         *)
LEMMA SumsAgree ==
    ASSUME NEW T, IsFiniteSet(T), NEW f, NEW h, NEW g, NEW k,
           Sums(g, f, T), Sums(k, h, T), \A c \in T : f[c] = h[c]
    PROVE  \A s \in SUBSET T : g[s] = k[s]
<1> DEFINE Q == {s \in SUBSET T : g[s] # k[s]}
<1> SUFFICES ASSUME Q # {} PROVE FALSE
  OBVIOUS
<1>1. PICK s \in Q : \A r \in Q : r \subseteq s => r = s
  <2>1. Q \in SUBSET (SUBSET T)
    OBVIOUS
  <2> HIDE DEF Q
  <2>2. QED
    BY <2>1, LeastSubset
<1>2. s # {}
  BY DEF Sums
<1>3. Pick(s) \in s
  BY <1>2, PickIn
<1>4. s \ {Pick(s)} \in SUBSET T /\ s \ {Pick(s)} \notin Q
  BY <1>1, <1>3
<1>5. g[s \ {Pick(s)}] = k[s \ {Pick(s)}] /\ f[Pick(s)] = h[Pick(s)]
  BY <1>3, <1>4
<1>6. QED
  BY <1>2, <1>5 DEF Sums

LEMMA SumsInt ==
    ASSUME NEW T, IsFiniteSet(T), NEW f, NEW g,
           Sums(g, f, T), \A c \in T : f[c] \in Int
    PROVE  \A s \in SUBSET T : g[s] \in Int
<1> DEFINE Q == {s \in SUBSET T : g[s] \notin Int}
<1> SUFFICES ASSUME Q # {} PROVE FALSE
  OBVIOUS
<1>1. PICK s \in Q : \A r \in Q : r \subseteq s => r = s
  <2>1. Q \in SUBSET (SUBSET T)
    OBVIOUS
  <2> HIDE DEF Q
  <2>2. QED
    BY <2>1, LeastSubset
<1>2. s # {}
  <2>1. g[{}] = 0
    BY DEF Sums
  <2>2. QED
    BY <2>1
<1>3. Pick(s) \in s
  BY <1>2, PickIn
<1>4. s \ {Pick(s)} \in SUBSET T /\ s \ {Pick(s)} \notin Q
  BY <1>1, <1>3
<1>5. g[s \ {Pick(s)}] \in Int /\ f[Pick(s)] \in Int
  BY <1>3, <1>4
<1>6. g[s] = f[Pick(s)] + g[s \ {Pick(s)}]
  BY <1>2 DEF Sums
<1>7. g[s] \in Int
  BY <1>5, <1>6
<1>8. QED
  BY <1>7

(* The order in which elements are picked does not matter.                 *)
LEMMA SumsAdd ==
    ASSUME NEW T, IsFiniteSet(T), NEW f, NEW g,
           Sums(g, f, T), \A c \in T : f[c] \in Int
    PROVE  \A s \in SUBSET T, c \in T : c \notin s => g[s \cup {c}] = g[s] + f[c]
<1> DEFINE Q == {s \in SUBSET T : \E c \in T : c \notin s /\ g[s \cup {c}] # g[s] + f[c]}
<1> SUFFICES ASSUME Q # {} PROVE FALSE
  OBVIOUS
<1>1. PICK s \in Q : \A r \in Q : r \subseteq s => r = s
  <2>1. Q \in SUBSET (SUBSET T)
    OBVIOUS
  <2> HIDE DEF Q
  <2>2. QED
    BY <2>1, LeastSubset
<1>2. PICK c \in T : c \notin s /\ g[s \cup {c}] # g[s] + f[c]
  OBVIOUS
<1> DEFINE both == s \cup {c}
           x == Pick(both)
<1>3. both \in SUBSET T /\ both # {} /\ x \in both
  BY PickIn
<1>4. g[both] = f[x] + g[both \ {x}]
  BY <1>3 DEF Sums
<1>5. \A r \in SUBSET T : g[r] \in Int
  BY SumsInt
<1>6. CASE x = c
  <2>1. both \ {x} = s
    BY <1>2, <1>6
  <2>2. g[s] \in Int /\ f[c] \in Int
    BY <1>5
  <2>3. g[both] = f[c] + g[s]
    BY <1>4, <1>6, <2>1
  <2>4. QED
    BY <1>2, <2>2, <2>3
<1>7. CASE x # c
  <2> DEFINE rest == s \ {x}
  <2>1. x \in s /\ x \in T
    BY <1>3, <1>7
  <2>2. rest \in SUBSET T /\ rest \notin Q /\ x \notin rest /\ c \notin rest
    BY <1>1, <1>2, <2>1
  <2>3. rest \cup {x} = s /\ rest \cup {c} = both \ {x}
    BY <1>2, <1>7, <2>1
  <2>4. g[s] = g[rest] + f[x]
    BY <2>1, <2>2, <2>3
  <2>5. g[both \ {x}] = g[rest] + f[c]
    BY <1>2, <2>2, <2>3
  <2>6. f[x] \in Int /\ f[c] \in Int /\ g[rest] \in Int
    BY <1>2, <1>5, <2>1, <2>2
  <2>7. g[both] = g[s] + f[c]
    BY <1>4, <2>4, <2>5, <2>6
  <2>8. QED
    BY <1>2, <2>7
<1>8. QED
  BY <1>6, <1>7

SumRecursion(g, f, T) ==
    g = [s \in SUBSET T |-> IF s = {} THEN 0 ELSE f[Pick(s)] + g[s \ {Pick(s)}]]

LEMMA SumsExist ==
    ASSUME NEW T, IsFiniteSet(T), NEW f
    PROVE  \E g : SumRecursion(g, f, T)
<1> DEFINE Eqn(g, U) == SumRecursion(g, f, U)
           W(U) == CHOOSE g : Eqn(g, U)
           Q == {U \in SUBSET T : ~ \E g : Eqn(g, U)}
<1> SUFFICES ASSUME Q # {} PROVE FALSE
  OBVIOUS
<1>1. PICK U \in Q : \A V \in Q : V \subseteq U => V = U
  <2>1. Q \in SUBSET (SUBSET T)
    OBVIOUS
  <2> HIDE DEF Q
  <2>2. QED
    BY <2>1, LeastSubset
<1>2. ASSUME NEW s \in SUBSET U, s # U PROVE Eqn(W(s), s)
  <2>1. s \notin Q
    BY <1>1, <1>2
  <2>2. \E g : Eqn(g, s)
    BY <2>1
  <2>3. QED
    BY <2>2
<1>3. ASSUME NEW g, NEW s, Eqn(g, s) PROVE Sums(g, f, s)
  BY <1>3 DEF Sums, SumRecursion
<1> DEFINE G == [s \in SUBSET U |->
                    IF s = {} THEN 0
                    ELSE f[Pick(s)] + W(s \ {Pick(s)})[s \ {Pick(s)}]]
<1>4. ASSUME NEW s \in SUBSET U, s # U PROVE G[s] = W(s)[s]
  <2>1. Sums(W(s), f, s)
    BY <1>2, <1>3, <1>4
  <2>2. CASE s = {}
    BY <2>1, <2>2 DEF Sums
  <2>3. CASE s # {}
    <3> DEFINE rest == s \ {Pick(s)}
    <3>1. Pick(s) \in s
      BY <2>3, PickIn
    <3>2. rest \in SUBSET U /\ rest # U /\ rest \in SUBSET s
      BY <3>1
    <3>3. Sums(W(rest), f, rest)
      BY <1>2, <1>3, <3>2
    <3>4. Sums(W(s), f, rest)
      BY <2>1, <3>2 DEF Sums
    <3>5. IsFiniteSet(rest)
      BY <1>1, <3>2, FS_Subset
    <3>6. W(s)[rest] = W(rest)[rest]
      BY <3>3, <3>4, <3>5, SumsAgree
    <3>7. W(s)[s] = f[Pick(s)] + W(s)[rest]
      BY <2>1, <2>3 DEF Sums
    <3>8. QED
      BY <2>3, <3>6, <3>7
  <2>4. QED
    BY <2>2, <2>3
<1>5. ASSUME NEW s \in SUBSET U, s # {} PROVE G[s] = f[Pick(s)] + G[s \ {Pick(s)}]
  <2>1. Pick(s) \in s
    BY <1>5, PickIn
  <2>2. s \ {Pick(s)} \in SUBSET U /\ s \ {Pick(s)} # U
    BY <2>1
  <2>3. QED
    BY <1>4, <1>5, <2>2
<1>6. Eqn(G, U)
  <2>1. \A s \in SUBSET U : s = {} => G[s] = 0
    OBVIOUS
  <2>2. G = [s \in SUBSET U |-> G[s]]
    OBVIOUS
  <2> HIDE DEF G
  <2>3. \A s \in SUBSET U :
            G[s] = IF s = {} THEN 0 ELSE f[Pick(s)] + G[s \ {Pick(s)}]
    BY <1>5, <2>1
  <2>4. QED
    BY <2>2, <2>3 DEF SumRecursion
<1>7. QED
  BY <1>6

(* The fold behind SumOf, with the arguments of the calls as a parameter.  *)
SumWith(req, calls) == MapThenSumSet(LAMBDA c : Amount[req[c].params], calls)
Summands(req, calls) == [c \in calls |-> Amount[req[c].params]]

LEMMA FoldSums ==
    ASSUME NEW req, NEW calls, IsFiniteSet(calls)
    PROVE  \E g : Sums(g, Summands(req, calls), calls) /\ SumWith(req, calls) = g[calls]
<1> DEFINE f == Summands(req, calls)
           Iter(g) == g = [s \in SUBSET calls |->
                              IF s = {} THEN 0
                              ELSE Amount[req[Pick(s)].params] + g[s \ {Pick(s)}]]
<1>1. \A s \in SUBSET calls : s # {} => f[Pick(s)] = Amount[req[Pick(s)].params]
  BY PickIn DEF Summands
<1>2. \E g : Iter(g)
  <2>1. PICK g : SumRecursion(g, f, calls)
    BY SumsExist
  <2>2. Iter(g)
    BY <1>1, <2>1 DEF SumRecursion
  <2>3. QED
    BY <2>2
<1>3. SumWith(req, calls) = (CHOOSE g : Iter(g))[calls]
  BY DEF SumWith, MapThenSumSet, MapThenFoldSet, Pick
<1>4. QED
  <2> DEFINE g == CHOOSE g : Iter(g)
  <2>1. Iter(g)
    BY <1>2
  <2> HIDE DEF g
  <2>2. Sums(g, f, calls)
    BY <1>1, <2>1 DEF Sums
  <2>3. QED
    BY <1>3, <2>2 DEF g

LEMMA SumOfNone == \A req : SumWith(req, {}) = 0
<1> SUFFICES ASSUME NEW req PROVE SumWith(req, {}) = 0
  OBVIOUS
<1>1. PICK g : Sums(g, Summands(req, {}), {}) /\ SumWith(req, {}) = g[{}]
  BY FoldSums, FS_EmptySet
<1>2. QED
  BY <1>1 DEF Sums

(* The sum depends on the summands only.                                   *)
LEMMA SameSum ==
    ASSUME NEW req, NEW other, NEW calls, IsFiniteSet(calls),
           \A c \in calls : other[c] = req[c]
    PROVE  SumWith(other, calls) = SumWith(req, calls)
<1>1. PICK g : Sums(g, Summands(req, calls), calls) /\ SumWith(req, calls) = g[calls]
  BY FoldSums
<1>2. PICK k : Sums(k, Summands(other, calls), calls) /\ SumWith(other, calls) = k[calls]
  BY FoldSums
<1>3. \A c \in calls : Summands(other, calls)[c] = Summands(req, calls)[c]
  BY DEF Summands
<1>4. \A s \in SUBSET calls : k[s] = g[s]
  BY <1>1, <1>2, <1>3, SumsAgree
<1>5. QED
  BY <1>1, <1>2, <1>4

LEMMA SumOfOneMore ==
    ASSUME NEW req, NEW calls, IsFiniteSet(calls), NEW c, c \notin calls,
           \A d \in calls \cup {c} : Amount[req[d].params] \in Int
    PROVE  SumWith(req, calls \cup {c}) = SumWith(req, calls) + Amount[req[c].params]
<1> DEFINE more == calls \cup {c}
           f == Summands(req, more)
<1>1. IsFiniteSet(more)
  BY FS_AddElement
<1>2. PICK g : Sums(g, f, more) /\ SumWith(req, more) = g[more]
  BY <1>1, FoldSums
<1>3. PICK k : Sums(k, Summands(req, calls), calls) /\ SumWith(req, calls) = k[calls]
  BY FoldSums
<1>4. \A d \in more : f[d] = Amount[req[d].params]
  BY DEF Summands
<1>5. \A d \in calls : f[d] = Summands(req, calls)[d]
  BY DEF Summands
<1> HIDE DEF f
<1>6. Sums(g, f, calls)
  BY <1>2 DEF Sums
<1>7. g[calls] = k[calls]
  BY <1>3, <1>5, <1>6, SumsAgree
<1>8. \A d \in more : f[d] \in Int
  BY <1>4
<1>9. \A s \in SUBSET more, d \in more : d \notin s => g[s \cup {d}] = g[s] + f[d]
  BY <1>1, <1>2, <1>8, SumsAdd
<1>10. g[more] = g[calls] + f[c]
  BY <1>9
<1>11. QED
  BY <1>2, <1>3, <1>4, <1>7, <1>10

LEMMA SumOfIsSumWith ==
    /\ \A calls : SumOf(calls) = SumWith(request, calls)
    /\ \A calls : SumOf(calls)' = SumWith(request', calls)
BY DEF SumOf, AmountOf, SumWith, MapThenSumSet, MapThenFoldSet

-----------------------------------------------------------------------------
(* The inductive invariant *)

(* What is registered is what was asked for, and it stays.                 *)
AsRegistered ==
    /\ \A tool \in Tool : scopes[tool] \in {None, ScopeOf[tool]}
    /\ \A l \in LimitId : cumulative_limits[l] \in {None, LimitOf[l]}

(* A call's stage, its charge and its entries go together.                 *)
Consistent(c) ==
    /\ stage[c] \in {"idle", "denied"} => charged[c] = None
    /\ stage[c] \in {"recorded", "allowed"} => charged[c] # None
    /\ stage[c] = "allowed" => <<"tool_call_allowed", c>> \in log
    /\ stage[c] = "denied" => <<"tool_call_denied", c>> \in log
    /\ <<"tool_call_allowed", c>> \in log =>
           stage[c] \in {"allowed", "raised"} /\ charged[c] # None
    /\ <<"tool_call_denied", c>> \in log =>
           stage[c] \in {"denied", "raised"} /\ charged[c] = None
    /\ c \in session => charged[c] # None
    /\ charged[c] # None =>
           /\ request[c] \in ToolRequest
           /\ charged[c] # {} => Amount[request[c].params] \in Int

CallsConsistent == \A c \in Call : Consistent(c)

(* The callers who got neither answer.                                     *)
Unanswered == {c \in Call : stage[c] = "raised"}
LossesCounted == IsFiniteSet(Unanswered) /\ Cardinality(Unanswered) <= failures

Capped ==
    \A tool \in Tool :
        /\ SessionCalls(tool) # {} => ScopeOf[tool] # None
        /\ ScopeOf[tool] # None /\ ScopeOf[tool].max_calls_per_session # None =>
               call_counts[tool] <= ScopeOf[tool].max_calls_per_session

Budgeted ==
    \A l \in LimitId : ChargedTo(l) # {} => cumulative_used[l] <= LimitOf[l].ceiling

TypeInv == TypeOK /\ AsRegistered /\ CallsConsistent /\ IsFiniteSet(session)
ToolInv == TypeInv /\ LedgerIsTheSession /\ Capped /\ Budgeted /\ LossesCounted

-----------------------------------------------------------------------------
(* Types, registrations, and what each call knows. *)

LEMMA InitTyped == Init => TypeInv
<1> SUFFICES ASSUME Init PROVE TypeInv
  OBVIOUS
<1>1. PermissionTypeOK
  BY DEF Init, PermissionInit, PermissionTypeOK
<1>2. TypeOK
  BY <1>1, ToolCallsAssumption DEF Init, TypeOK, Stage
<1>3. AsRegistered
  BY DEF Init, PermissionInit, AsRegistered
<1>4. CallsConsistent
  BY DEF Init, CallsConsistent, Consistent
<1>5. IsFiniteSet(session)
  BY FS_EmptySet DEF Init
<1>6. QED
  BY <1>2, <1>3, <1>4, <1>5 DEF TypeInv

(* A step that moves one call on and leaves the others where they were.    *)
OthersAlone(c) ==
    \A d \in Call \ {c} :
        /\ stage'[d] = stage[d] /\ request'[d] = request[d] /\ charged'[d] = charged[d]
        /\ d \in session' <=> d \in session
        /\ \A type : <<type, d>> \in log' <=> <<type, d>> \in log

LEMMA OthersConsistent ==
    ASSUME CallsConsistent, NEW c \in Call, OthersAlone(c), Consistent(c)'
    PROVE  CallsConsistent'
<1>1. ASSUME NEW d \in Call \ {c} PROVE Consistent(d)'
  <2>1. Consistent(d)
    BY DEF CallsConsistent
  <2>2. QED
    BY <2>1 DEF Consistent, OthersAlone
<1>2. QED
  BY <1>1 DEF CallsConsistent

LEMMA CallTyped ==
    ASSUME TypeInv, NEW c \in Call
    PROVE  /\ Consistent(c)
           /\ charged[c] # None => charged[c] \in SUBSET LimitId
           /\ stage[c] = "idle" => c \notin session
BY DEF TypeInv, TypeOK, CallsConsistent, Consistent

(* A permitted call under a limit has an amount.                           *)
LEMMA PermittedAmount ==
    ASSUME TypeInv, NEW r \in ToolRequest, Permitted(r.tool, r.level, r.params)
    PROVE  /\ r.tool \in Tool /\ r.params \in Params
           /\ ApplicableLimits(r.tool) \in SUBSET LimitId
           /\ ApplicableLimits(r.tool) # None
           /\ ApplicableLimits(r.tool) # {} => Amount[r.params] \in Int
<1>1. r.tool \in Tool /\ r.params \in Params
  BY ToolCallsAssumption
<1>2. ApplicableLimits(r.tool) \in SUBSET LimitId
  BY DEF ApplicableLimits
<1>3. ApplicableLimits(r.tool) # {} => Amount[r.params] \in Int
  BY <1>1, ToolAssumption DEF Permitted, WithinLimits
<1>4. QED
  BY <1>1, <1>2, <1>3, ChargeAssumption

LEMMA GrantTyped ==
    ASSUME TypeInv, NEW c \in Call, NEW r \in ToolRequest,
           stage[c] = "idle",
           Permitted(r.tool, r.level, r.params),
           RecordCall(r.tool, r.params),
           request' = [request EXCEPT ![c] = r],
           charged' = [charged EXCEPT ![c] = ApplicableLimits(r.tool)],
           session' = session \cup {c},
           Finish(c, "recorded"),
           UNCHANGED <<log, resets, failures>>
    PROVE  TypeInv'
<1>1. /\ r.tool \in Tool /\ r.params \in Params
      /\ ApplicableLimits(r.tool) \in SUBSET LimitId
      /\ ApplicableLimits(r.tool) # None
      /\ ApplicableLimits(r.tool) # {} => Amount[r.params] \in Int
  BY PermittedAmount
<1>2. PermissionTypeOK'
  <2>1. \A l \in ApplicableLimits(r.tool) : cumulative_used[l] + Amount[r.params] \in Int
    BY <1>1 DEF TypeInv, TypeOK, PermissionTypeOK
  <2>2. cumulative_used' \in [LimitId -> Int]
    BY <2>1 DEF TypeInv, TypeOK, PermissionTypeOK, RecordCall
  <2>3. call_counts' \in [Tool -> Nat]
    BY <1>1 DEF TypeInv, TypeOK, PermissionTypeOK, RecordCall
  <2>4. QED
    BY <2>2, <2>3 DEF TypeInv, TypeOK, PermissionTypeOK, RecordCall
<1>3. TypeOK'
  BY <1>1, <1>2 DEF TypeInv, TypeOK, Finish, Stage
<1>4. AsRegistered'
  BY DEF TypeInv, AsRegistered, RecordCall
<1>5. /\ stage'[c] = "recorded" /\ request'[c] = r
      /\ charged'[c] = ApplicableLimits(r.tool)
      /\ OthersAlone(c)
  BY DEF TypeInv, TypeOK, Finish, OthersAlone
<1>6. Consistent(c)'
  <2>1. Consistent(c)
    BY CallTyped
  <2>2. QED
    BY <1>1, <1>5, <2>1 DEF Consistent
<1>7. CallsConsistent'
  BY <1>5, <1>6, OthersConsistent DEF TypeInv
<1>8. IsFiniteSet(session')
  BY FS_AddElement DEF TypeInv
<1>9. QED
  BY <1>3, <1>4, <1>7, <1>8 DEF TypeInv

LEMMA DenyTyped ==
    ASSUME TypeInv, NEW c \in Call, Deny(c)
    PROVE  TypeInv'
<1>1. PICK r \in ToolRequest :
          /\ stage[c] = "idle"
          /\ request' = [request EXCEPT ![c] = r]
          /\ \/ /\ log' = log \cup {<<"tool_call_denied", c>>}
                /\ Finish(c, "denied")
                /\ UNCHANGED failures
             \/ AppendRaises(c, "tool_call_denied")
          /\ UNCHANGED <<permissionVars, charged, session, resets>>
  BY DEF Deny
<1>2. TypeOK'
  BY <1>1, ToolCallsAssumption
     DEF TypeInv, TypeOK, PermissionTypeOK, permissionVars, Finish, AppendRaises, Stage
<1>3. AsRegistered' /\ IsFiniteSet(session')
  BY <1>1 DEF TypeInv, AsRegistered, permissionVars
<1>4. OthersAlone(c)
  BY <1>1 DEF TypeInv, TypeOK, Finish, AppendRaises, OthersAlone
<1>5. Consistent(c)'
  <2>1. Consistent(c) /\ charged'[c] = charged[c] /\ session' = session
    BY <1>1, CallTyped
  <2>2. \/ stage'[c] = "denied" /\ log' = log \cup {<<"tool_call_denied", c>>}
        \/ stage'[c] = "raised" /\ log' \in {log, log \cup {<<"tool_call_denied", c>>}}
    BY <1>1 DEF TypeInv, TypeOK, Finish, AppendRaises
  <2>3. QED
    BY <1>1, <2>1, <2>2 DEF Consistent
<1>6. QED
  BY <1>2, <1>3, <1>4, <1>5, OthersConsistent DEF TypeInv

LEMMA LogTyped ==
    ASSUME TypeInv, NEW c \in Call, LogGrant(c) \/ LogGrantFails(c)
    PROVE  TypeInv'
<1>1. TypeOK'
  BY ToolCallsAssumption
     DEF TypeInv, TypeOK, PermissionTypeOK, permissionVars, LogGrant, LogGrantFails,
         Finish, AppendRaises, Stage
<1>2. AsRegistered' /\ IsFiniteSet(session')
  BY DEF TypeInv, AsRegistered, permissionVars, LogGrant, LogGrantFails
<1>3. OthersAlone(c)
  BY DEF TypeInv, TypeOK, Finish, AppendRaises, OthersAlone, LogGrant, LogGrantFails
<1>4. Consistent(c)'
  <2>1. Consistent(c) /\ stage[c] = "recorded"
    BY CallTyped DEF LogGrant, LogGrantFails
  <2>2. UNCHANGED <<charged, session, request>>
    BY DEF LogGrant, LogGrantFails
  <2>3. \/ stage'[c] = "allowed" /\ log' = log \cup {<<"tool_call_allowed", c>>}
        \/ stage'[c] = "raised" /\ log' \in {log, log \cup {<<"tool_call_allowed", c>>}}
    BY DEF TypeInv, TypeOK, Finish, AppendRaises, LogGrant, LogGrantFails
  <2>4. QED
    BY <2>1, <2>2, <2>3 DEF Consistent
<1>5. QED
  BY <1>1, <1>2, <1>3, <1>4, OthersConsistent DEF TypeInv

LEMMA RegisterTyped ==
    ASSUME TypeInv,
           \/ \E tool \in Tool : RegisterScope(tool)
           \/ \E l \in LimitId : RegisterLimit(l)
    PROVE  TypeInv'
<1>1. TypeOK' /\ AsRegistered'
  <2>1. CASE \E tool \in Tool : RegisterScope(tool)
    BY <2>1, ToolCallsAssumption
       DEF TypeInv, TypeOK, PermissionTypeOK, AsRegistered, RegisterScope, Register, callVars
  <2>2. CASE \E l \in LimitId : RegisterLimit(l)
    BY <2>2, ToolCallsAssumption
       DEF TypeInv, TypeOK, PermissionTypeOK, AsRegistered, RegisterLimit,
           RegisterCumulativeLimit, callVars
  <2>3. QED
    BY <2>1, <2>2
<1>2. UNCHANGED callVars
  BY DEF RegisterScope, RegisterLimit
<1>3. CallsConsistent' /\ IsFiniteSet(session')
  BY <1>2 DEF TypeInv, CallsConsistent, Consistent, callVars
<1>4. QED
  BY <1>1, <1>3 DEF TypeInv

LEMMA SessionTyped ==
    ASSUME TypeInv, NewSession
    PROVE  TypeInv'
<1>1. TypeOK' /\ AsRegistered'
  BY ToolCallsAssumption
     DEF TypeInv, TypeOK, PermissionTypeOK, AsRegistered, NewSession, ResetSession
<1>2. CallsConsistent'
  BY DEF TypeInv, CallsConsistent, Consistent, NewSession
<1>3. IsFiniteSet(session')
  BY FS_EmptySet DEF NewSession
<1>4. QED
  BY <1>1, <1>2, <1>3 DEF TypeInv

LEMMA NextTyped == TypeInv /\ [Next]_vars => TypeInv'
<1> SUFFICES ASSUME TypeInv, [Next]_vars PROVE TypeInv'
  OBVIOUS
<1>1. ASSUME NEW c \in Call, Grant(c) PROVE TypeInv'
  BY <1>1, GrantTyped DEF Grant
<1>2. ASSUME NEW c \in Call, Deny(c) PROVE TypeInv'
  BY <1>2, DenyTyped
<1>3. ASSUME NEW c \in Call, LogGrant(c) \/ LogGrantFails(c) PROVE TypeInv'
  BY <1>3, LogTyped
<1>4. CASE (\E tool \in Tool : RegisterScope(tool)) \/ (\E l \in LimitId : RegisterLimit(l))
  BY <1>4, RegisterTyped
<1>5. CASE NewSession
  BY <1>5, SessionTyped
<1>6. CASE UNCHANGED vars
  BY <1>6 DEF vars, callVars, permissionVars, TypeInv, TypeOK, PermissionTypeOK,
              AsRegistered, CallsConsistent, Consistent
<1>7. QED
  BY <1>1, <1>2, <1>3, <1>4, <1>5, <1>6 DEF Next

-----------------------------------------------------------------------------
(* The ledger, the caps and the budgets. *)

Accounts == LedgerIsTheSession /\ Capped /\ Budgeted

LEMMA SubsetsFinite ==
    ASSUME IsFiniteSet(session)
    PROVE  /\ \A l \in LimitId : IsFiniteSet(ChargedTo(l))
           /\ \A tool \in Tool : IsFiniteSet(SessionCalls(tool))
BY FS_Subset DEF ChargedTo, SessionCalls

(* A step that charges nothing and leaves the session's calls alone.       *)
LEMMA AccountsFrame ==
    ASSUME TypeInv, Accounts,
           UNCHANGED <<session, charged, call_counts, cumulative_used>>,
           \A c \in session : request'[c] = request[c]
    PROVE  Accounts'
<1>1. \A l \in LimitId : ChargedTo(l)' = ChargedTo(l)
  BY DEF ChargedTo
<1>2. \A tool \in Tool : SessionCalls(tool)' = SessionCalls(tool)
  BY DEF SessionCalls
<1>3. ASSUME NEW l \in LimitId PROVE SumOf(ChargedTo(l))' = SumOf(ChargedTo(l))
  <2> DEFINE S == ChargedTo(l)
  <2>1. IsFiniteSet(S) /\ \A c \in S : request'[c] = request[c]
    BY SubsetsFinite DEF TypeInv, ChargedTo
  <2> HIDE DEF S
  <2>2. SumWith(request', S) = SumWith(request, S)
    BY <2>1, SameSum
  <2>3. SumOf(ChargedTo(l)) = SumWith(request, S)
    BY SumOfIsSumWith DEF S
  <2>4. SumOf(ChargedTo(l))' = SumWith(request', ChargedTo(l)')
    BY DEF SumOf, AmountOf, SumWith, MapThenSumSet, MapThenFoldSet
  <2>5. QED
    BY <1>1, <2>2, <2>3, <2>4 DEF S
<1>4. LedgerIsTheSession'
  BY <1>2, <1>3 DEF Accounts, LedgerIsTheSession
<1>5. Capped'
  BY <1>2 DEF Accounts, Capped
<1>6. Budgeted'
  BY <1>1 DEF Accounts, Budgeted
<1>7. QED
  BY <1>4, <1>5, <1>6 DEF Accounts

LEMMA GrantAccounts ==
    ASSUME TypeInv, Accounts, NEW c \in Call, NEW r \in ToolRequest,
           stage[c] = "idle",
           Permitted(r.tool, r.level, r.params),
           RecordCall(r.tool, r.params),
           request' = [request EXCEPT ![c] = r],
           charged' = [charged EXCEPT ![c] = ApplicableLimits(r.tool)],
           session' = session \cup {c}
    PROVE  Accounts'
<1> DEFINE limits == ApplicableLimits(r.tool)
<1>1. /\ r.tool \in Tool /\ r.params \in Params /\ limits \in SUBSET LimitId
      /\ limits # None
      /\ limits # {} => Amount[r.params] \in Int
  BY PermittedAmount
<1>2. c \notin session
  BY CallTyped
<1>3. /\ request'[c] = r /\ charged'[c] = limits
      /\ \A d \in session : request'[d] = request[d] /\ charged'[d] = charged[d]
  BY <1>2 DEF TypeInv, TypeOK
<1>4. /\ \A l \in limits : ChargedTo(l)' = ChargedTo(l) \cup {c}
      /\ \A l \in LimitId \ limits : ChargedTo(l)' = ChargedTo(l)
      /\ \A l \in LimitId : c \notin ChargedTo(l) /\ ChargedTo(l) \subseteq session
  BY <1>2, <1>3 DEF ChargedTo
<1>5. /\ SessionCalls(r.tool)' = SessionCalls(r.tool) \cup {c}
      /\ \A tool \in Tool \ {r.tool} : SessionCalls(tool)' = SessionCalls(tool)
      /\ c \notin SessionCalls(r.tool)
  BY <1>2, <1>3 DEF SessionCalls
<1>6. /\ \A l \in limits : cumulative_used'[l] = cumulative_used[l] + Amount[r.params]
      /\ \A l \in LimitId \ limits : cumulative_used'[l] = cumulative_used[l]
      /\ call_counts'[r.tool] = call_counts[r.tool] + 1
      /\ \A tool \in Tool \ {r.tool} : call_counts'[tool] = call_counts[tool]
  BY <1>1 DEF RecordCall, TypeInv, TypeOK, PermissionTypeOK
<1>7. ASSUME NEW l \in LimitId
      PROVE  /\ SumWith(request', ChargedTo(l)) = SumWith(request, ChargedTo(l))
             /\ SumWith(request, ChargedTo(l)) = cumulative_used[l]
  <2>1. IsFiniteSet(ChargedTo(l))
    BY SubsetsFinite DEF TypeInv
  <2>2. \A d \in ChargedTo(l) : request'[d] = request[d]
    BY <1>3, <1>4
  <2>3. SumWith(request', ChargedTo(l)) = SumWith(request, ChargedTo(l))
    BY <2>1, <2>2, SameSum
  <2>4. QED
    BY <2>3, SumOfIsSumWith DEF Accounts, LedgerIsTheSession
<1>8. ASSUME NEW l \in limits
      PROVE  SumWith(request', ChargedTo(l) \cup {c}) = cumulative_used'[l]
  <2>1. l \in LimitId /\ IsFiniteSet(ChargedTo(l)) /\ c \notin ChargedTo(l)
    BY <1>1, <1>4, SubsetsFinite DEF TypeInv
  <2>2. Amount[request'[c].params] \in Int /\ Amount[request'[c].params] = Amount[r.params]
    BY <1>1, <1>3, <1>8
  <2>3. ASSUME NEW d \in ChargedTo(l) PROVE Amount[request'[d].params] \in Int
    <3>1. d \in session /\ l \in charged[d] /\ d \in Call
      BY DEF ChargedTo, TypeInv, TypeOK
    <3>2. Amount[request[d].params] \in Int
      BY <3>1, CallTyped DEF Consistent
    <3>3. QED
      BY <1>3, <3>1, <3>2
  <2>4. SumWith(request', ChargedTo(l) \cup {c})
            = SumWith(request', ChargedTo(l)) + Amount[request'[c].params]
    BY <2>1, <2>2, <2>3, SumOfOneMore
  <2>5. QED
    BY <1>6, <1>7, <2>1, <2>2, <2>4
<1>9. LedgerIsTheSession'
  <2>1. ASSUME NEW l \in LimitId PROVE cumulative_used'[l] = SumOf(ChargedTo(l))'
    <3>1. SumOf(ChargedTo(l))' = SumWith(request', ChargedTo(l)')
      BY DEF SumOf, AmountOf, SumWith, MapThenSumSet, MapThenFoldSet
    <3>2. CASE l \in limits
      BY <1>4, <1>8, <3>1, <3>2
    <3>3. CASE l \notin limits
      BY <1>4, <1>6, <1>7, <3>1, <3>3
    <3>4. QED
      BY <3>2, <3>3
  <2>2. ASSUME NEW tool \in Tool PROVE call_counts'[tool] = Cardinality(SessionCalls(tool)')
    <3>1. /\ IsFiniteSet(SessionCalls(tool))
          /\ call_counts[tool] = Cardinality(SessionCalls(tool))
      BY SubsetsFinite DEF TypeInv, Accounts, LedgerIsTheSession
    <3>2. CASE tool = r.tool
      BY <1>5, <1>6, <3>1, <3>2, FS_AddElement
    <3>3. CASE tool # r.tool
      BY <1>5, <1>6, <3>1, <3>3
    <3>4. QED
      BY <3>2, <3>3
  <2>3. QED
    BY <2>1, <2>2 DEF LedgerIsTheSession
<1>10. Capped'
  <2>1. /\ scopes[r.tool] = ScopeOf[r.tool] /\ ScopeOf[r.tool] # None
        /\ ScopeOf[r.tool].max_calls_per_session # None =>
               call_counts[r.tool] < ScopeOf[r.tool].max_calls_per_session
    BY <1>1 DEF Permitted, UnderCallCap, TypeInv, AsRegistered
  <2>2. ScopeOf[r.tool] \in ToolScope
    BY <1>1, <2>1, ToolCallsAssumption
  <2>3. /\ ScopeOf[r.tool].max_calls_per_session \in Nat \cup {None}
        /\ call_counts[r.tool] \in Nat
    BY <1>1, <2>2 DEF ToolScope, TypeInv, TypeOK, PermissionTypeOK
  <2>4. ScopeOf[r.tool].max_calls_per_session # None =>
            call_counts'[r.tool] <= ScopeOf[r.tool].max_calls_per_session
    BY <1>6, <2>1, <2>3
  <2>5. QED
    BY <1>5, <1>6, <2>1, <2>4 DEF Accounts, Capped
<1>11. Budgeted'
  <2>1. ASSUME NEW l \in limits PROVE cumulative_used'[l] <= LimitOf[l].ceiling
    <3>1. l \in LimitId /\ cumulative_limits[l] = LimitOf[l]
      BY <1>1 DEF ApplicableLimits, TypeInv, AsRegistered
    <3>2. cumulative_used[l] + Amount[r.params] <= cumulative_limits[l].ceiling
      BY <2>1 DEF Permitted, WithinLimits
    <3>3. QED
      BY <1>6, <2>1, <3>1, <3>2
  <2>2. QED
    BY <1>4, <1>6, <2>1 DEF Accounts, Budgeted
<1>12. QED
  BY <1>9, <1>10, <1>11 DEF Accounts

NothingCharged ==
    /\ session = {}
    /\ \A l \in LimitId : cumulative_used[l] = 0
    /\ \A tool \in Tool : call_counts[tool] = 0

LEMMA NoSessionAccounts == NothingCharged => Accounts
<1> SUFFICES ASSUME NothingCharged PROVE Accounts
  OBVIOUS
<1> USE DEF NothingCharged
<1>1. /\ \A l \in LimitId : ChargedTo(l) = {}
      /\ \A tool \in Tool : SessionCalls(tool) = {}
  BY DEF ChargedTo, SessionCalls
<1>2. LedgerIsTheSession
  BY <1>1, SumOfIsSumWith, SumOfNone, FS_EmptySet DEF LedgerIsTheSession
<1>3. Capped
  <2>1. ASSUME NEW tool \in Tool, ScopeOf[tool] # None,
               ScopeOf[tool].max_calls_per_session # None
        PROVE  0 <= ScopeOf[tool].max_calls_per_session
    BY <2>1, ToolCallsAssumption DEF ToolScope
  <2>2. QED
    BY <1>1, <2>1 DEF Capped
<1>4. QED
  BY <1>1, <1>2, <1>3 DEF Accounts, Budgeted

LEMMA InitAccounts == Init => Accounts
<1>1. Init => NothingCharged
  BY DEF Init, PermissionInit, NothingCharged
<1>2. QED
  BY <1>1, NoSessionAccounts

LEMMA NextAccounts == TypeInv /\ Accounts /\ [Next]_vars => Accounts'
<1> SUFFICES ASSUME TypeInv, Accounts, [Next]_vars PROVE Accounts'
  OBVIOUS
<1>1. ASSUME NEW c \in Call, Grant(c) PROVE Accounts'
  BY <1>1, GrantAccounts DEF Grant
<1>2. ASSUME NEW c \in Call, Deny(c) PROVE Accounts'
  <2>1. \A d \in session : request'[d] = request[d]
    <3>1. c \notin session
      BY <1>2, CallTyped DEF Deny
    <3>2. QED
      BY <1>2, <3>1 DEF Deny, TypeInv, TypeOK
  <2>2. UNCHANGED <<session, charged, call_counts, cumulative_used>>
    BY <1>2 DEF Deny, permissionVars
  <2>3. QED
    BY <2>1, <2>2, AccountsFrame
<1>3. ASSUME NEW c \in Call, LogGrant(c) \/ LogGrantFails(c) PROVE Accounts'
  BY <1>3, AccountsFrame DEF LogGrant, LogGrantFails, permissionVars
<1>4. CASE (\E tool \in Tool : RegisterScope(tool)) \/ (\E l \in LimitId : RegisterLimit(l))
  BY <1>4, AccountsFrame
     DEF RegisterScope, Register, RegisterLimit, RegisterCumulativeLimit, callVars
<1>5. CASE NewSession
  <2>1. (NothingCharged => Accounts)'
    BY NoSessionAccounts, PTL
  <2>2. NothingCharged'
    BY <1>5 DEF NewSession, ResetSession, NothingCharged
  <2>3. QED
    BY <2>1, <2>2
<1>6. CASE UNCHANGED vars
  BY <1>6, AccountsFrame DEF vars, callVars, permissionVars
<1>7. QED
  BY <1>1, <1>2, <1>3, <1>4, <1>5, <1>6 DEF Next

-----------------------------------------------------------------------------
(* The callers an append left without an answer. *)

LEMMA InitLosses == Init => LossesCounted
<1> SUFFICES ASSUME Init PROVE LossesCounted
  OBVIOUS
<1>1. Unanswered = {} /\ failures = 0
  BY DEF Init, Unanswered
<1>2. QED
  BY <1>1, FS_EmptySet DEF LossesCounted

LEMMA LossesFrame ==
    ASSUME LossesCounted, Unanswered' = Unanswered, failures' = failures
    PROVE  LossesCounted'
BY DEF LossesCounted

LEMMA RaiseCounted ==
    ASSUME TypeInv, LossesCounted, NEW c \in Call, NEW type,
           stage[c] # "raised", AppendRaises(c, type)
    PROVE  LossesCounted'
<1>1. stage' = [stage EXCEPT ![c] = "raised"] /\ failures' = failures + 1
  BY DEF AppendRaises, Finish
<1>2. Unanswered' = Unanswered \cup {c} /\ c \notin Unanswered
  BY <1>1 DEF Unanswered, TypeInv, TypeOK
<1>3. /\ IsFiniteSet(Unanswered')
      /\ Cardinality(Unanswered') = Cardinality(Unanswered) + 1
  BY <1>2, FS_AddElement DEF LossesCounted
<1>4. Cardinality(Unanswered) \in Nat /\ failures \in Nat
  BY FS_CardinalityType, ToolCallsAssumption DEF LossesCounted, TypeInv, TypeOK
<1>5. QED
  BY <1>1, <1>3, <1>4 DEF LossesCounted

LEMMA NextLosses == TypeInv /\ LossesCounted /\ [Next]_vars => LossesCounted'
<1> SUFFICES ASSUME TypeInv, LossesCounted, [Next]_vars PROVE LossesCounted'
  OBVIOUS
<1>1. ASSUME NEW c \in Call, NEW s, stage[c] # "raised", s # "raised",
             Finish(c, s), failures' = failures
      PROVE  LossesCounted'
  <2>1. Unanswered' = Unanswered
    BY <1>1 DEF Unanswered, Finish, TypeInv, TypeOK
  <2>2. QED
    BY <1>1, <2>1, LossesFrame
<1>2. ASSUME NEW c \in Call, Grant(c) \/ LogGrant(c) PROVE LossesCounted'
  BY <1>1, <1>2 DEF Grant, LogGrant
<1>3. ASSUME NEW c \in Call, Deny(c) PROVE LossesCounted'
  <2>1. CASE Finish(c, "denied") /\ failures' = failures
    BY <1>1, <1>3, <2>1 DEF Deny
  <2>2. CASE AppendRaises(c, "tool_call_denied")
    BY <1>3, <2>2, RaiseCounted DEF Deny
  <2>3. QED
    BY <1>3, <2>1, <2>2 DEF Deny
<1>4. ASSUME NEW c \in Call, LogGrantFails(c) PROVE LossesCounted'
  BY <1>4, RaiseCounted DEF LogGrantFails
<1>5. CASE (\E tool \in Tool : RegisterScope(tool)) \/ (\E l \in LimitId : RegisterLimit(l))
  BY <1>5, LossesFrame DEF RegisterScope, RegisterLimit, callVars, Unanswered
<1>6. CASE NewSession \/ UNCHANGED vars
  BY <1>6, LossesFrame DEF NewSession, vars, callVars, Unanswered
<1>7. QED
  BY <1>2, <1>3, <1>4, <1>5, <1>6 DEF Next

-----------------------------------------------------------------------------
(* The theorems *)

LEMMA ToolInvariant == Spec => []ToolInv
<1>1. Init => ToolInv
  BY InitTyped, InitAccounts, InitLosses DEF ToolInv, Accounts
<1>2. ToolInv /\ [Next]_vars => ToolInv'
  BY NextTyped, NextAccounts, NextLosses DEF ToolInv, Accounts
<1>3. QED
  BY <1>1, <1>2, PTL DEF Spec

(* Type correctness: the counters stay counters, the budgets stay numbers. *)
THEOREM ToolCallsTyped == Spec => []TypeOK
<1>1. ToolInv => TypeOK
  BY DEF ToolInv, TypeInv
<1>2. QED
  BY <1>1, ToolInvariant, PTL

(* LedgerIsTheSession: for every limit the amount used is the sum over the *)
(* calls of the session charged to it, and for every tool the count is the *)
(* number of its calls; a denied or failed call leaves no part of a charge.*)
THEOREM LedgerExact == Spec => []LedgerIsTheSession
<1>1. ToolInv => LedgerIsTheSession
  BY DEF ToolInv
<1>2. QED
  BY <1>1, ToolInvariant, PTL

(* SessionCapHonoured: no race of threads gets more calls to a tool into a *)
(* session than its cap.                                                   *)
THEOREM CapsHold == Spec => []SessionCapHonoured
<1>1. ToolInv => SessionCapHonoured
  BY DEF ToolInv, Capped, LedgerIsTheSession, SessionCapHonoured
<1>2. QED
  BY <1>1, ToolInvariant, PTL

(* BudgetHonoured: the amounts of the calls charged to a limit, over all   *)
(* its tools, never sum to more than its ceiling.                          *)
THEOREM BudgetsHold == Spec => []BudgetHonoured
<1>1. ToolInv => BudgetHonoured
  BY DEF ToolInv, Budgeted, LedgerIsTheSession, BudgetHonoured
<1>2. QED
  BY <1>1, ToolInvariant, PTL

(* EveryChargeIsOnRecord: a caller's answer is on record, a record is of a *)
(* charge or a refusal that its caller heard of or saw an exception for,   *)
(* and no more callers see one than appends raised, whether those appends  *)
(* kept their entries or lost them.                                        *)
THEOREM ChargesOnRecord == Spec => []EveryChargeIsOnRecord
<1>1. ASSUME ToolInv PROVE EveryChargeIsOnRecord
  <2> DEFINE at(s) == {c \in Call : stage[c] = s}
             logged(type) == {c \in Call : <<type, c>> \in log}
             charges == {c \in Call : charged[c] # None}
  <2>1. \A c \in Call : Consistent(c)
    BY <1>1 DEF ToolInv, TypeInv, CallsConsistent
  <2>2. /\ at("allowed") \subseteq logged("tool_call_allowed")
        /\ at("denied") \subseteq logged("tool_call_denied")
    BY <2>1 DEF Consistent
  <2>3. logged("tool_call_allowed") \subseteq charges \cap (at("allowed") \cup at("raised"))
    BY <2>1 DEF Consistent
  <2>4. logged("tool_call_denied") \subseteq (at("denied") \cup at("raised")) \ charges
    BY <2>1 DEF Consistent
  <2>5. ASSUME at("recorded") = {}
        PROVE  charges \ logged("tool_call_allowed") \subseteq at("raised")
    BY <1>1, <2>1, <2>5 DEF Consistent, ToolInv, TypeInv, TypeOK, Stage
  <2>6. Cardinality(at("raised")) <= failures
    BY <1>1 DEF ToolInv, LossesCounted, Unanswered
  <2>7. QED
    BY <2>2, <2>3, <2>4, <2>5, <2>6 DEF EveryChargeIsOnRecord
<1>2. QED
  BY <1>1, ToolInvariant, PTL

=============================================================================
