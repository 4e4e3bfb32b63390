------------------------ MODULE DeploymentGateProofs -------------------------
(***************************************************************************)
(* What the deployment gate promises, for config files of any length and   *)
(* content: exit code 0 and exit code 2 mean what they say, and scenarios  *)
(* that share one governor decide as if each had its own, but for the call *)
(* caps.                                                                   *)
(***************************************************************************)
EXTENDS DeploymentGate, FiniteSetTheorems, TLAPS

-----------------------------------------------------------------------------
(* The inductive invariant: where in the file the run has come to, that    *)
(* all it left behind is sound, and that the registry counts the results.  *)

IsList(s) == s \in Seq({s[i] : i \in DOMAIN s})

(* What is left of a list, and how much of it is not. *)
LeftOf(list) ==
    /\ IsList(todo)
    /\ Len(todo) <= Len(list)
    /\ \A k \in 1 .. Len(todo) : todo[k] = list[Len(list) - Len(todo) + k]
Done(list) == Len(list) - Len(todo)

RulesSound(n) == \A i \in 1 .. n : RuleFault(config.policy_rules[i]) = "no"
ScopesSound(n) == \A i \in 1 .. n : ScopeFault(config.tool_scopes[i]) = "no"
ScenariosSound(n) == \A i \in 1 .. n : ScenarioFault(config.scenarios[i]) = "no"

Progress ==
    /\ config \in Config \cup {Unreadable}
    /\ phase \in {"load", "rules", "scopes", "scenarios", "stopped"}
    /\ phase # "stopped" => exit = None
    /\ phase \in {"rules", "scopes", "scenarios"} => config \in Config
    /\ phase = "rules" =>
           /\ LeftOf(config.policy_rules)
           /\ RulesSound(Done(config.policy_rules))
    /\ phase = "scopes" =>
           /\ LeftOf(config.tool_scopes)
           /\ RulesSound(Len(config.policy_rules))
           /\ ScopesSound(Done(config.tool_scopes))
    /\ phase = "scenarios" =>
           /\ LeftOf(config.scenarios)
           /\ RulesSound(Len(config.policy_rules))
           /\ ScopesSound(Len(config.tool_scopes))
           /\ ScenariosSound(Done(config.scenarios))

Results ==
    /\ IsList(results)
    /\ phase \in {"load", "rules", "scopes"} => results = << >>
    /\ phase = "scenarios" => Len(results) = Done(config.scenarios)
    /\ results # << >> => config \in Config
    /\ \A i \in DOMAIN results :
           /\ i \in DOMAIN config.scenarios
           /\ results[i].expected = config.scenarios[i].expect

(* The scenarios before the i-th whose call of a tool was allowed. *)
AllowedBefore(i, tool) ==
    {j \in 1 .. i - 1 : results[j].actual = "allowed" /\ ToolOf(config.scenarios[j]) = tool}

Counting ==
    /\ DOMAIN scopes = Tool
    /\ \A tool \in Tool :
           scopes[tool] # None => scopes[tool].max_calls_per_session \in Int \cup {None}
    /\ cumulative_limits = [l \in LimitId |-> None]
    /\ call_counts =
           [tool \in Tool |-> Cardinality(AllowedBefore(Len(results) + 1, tool))]

GateInv ==
    /\ Progress
    /\ Results
    /\ Counting
    /\ ApprovedMeansAsExpected
    /\ FaultsNeverPass
    /\ OutcomesAreFresh

-----------------------------------------------------------------------------
(* Lists, and what the assumption says of a file. *)

LEMMA Appended ==
    ASSUME NEW s, IsList(s), NEW e
    PROVE  /\ IsList(Append(s, e)) /\ Len(s) \in Nat /\ DOMAIN s = 1 .. Len(s)
           /\ Append(s, e) # << >>
           /\ Len(Append(s, e)) = Len(s) + 1
           /\ DOMAIN Append(s, e) = 1 .. Len(s) + 1
           /\ \A i \in DOMAIN s : Append(s, e)[i] = s[i]
           /\ Append(s, e)[Len(s) + 1] = e
<1> DEFINE S == {s[i] : i \in DOMAIN s}
           t == Append(s, e)
<1>1. s \in Seq(S \cup {e}) /\ e \in S \cup {e}
  BY DEF IsList
<1> HIDE DEF S
<1>2. /\ t \in Seq(S \cup {e}) /\ Len(s) \in Nat /\ DOMAIN s = 1 .. Len(s)
      /\ t # << >> /\ Len(t) = Len(s) + 1
      /\ DOMAIN t = 1 .. Len(s) + 1 /\ t[Len(s) + 1] = e
      /\ \A i \in 1 .. Len(s) : t[i] = s[i]
  BY <1>1
<1> HIDE DEF t
<1>3. IsList(t)
  BY <1>2 DEF IsList
<1>4. QED
  BY <1>2, <1>3 DEF t

LEMMA Tailed ==
    ASSUME NEW s, IsList(s), s # << >>
    PROVE  /\ IsList(Tail(s)) /\ Len(s) \in Nat \ {0}
           /\ Len(Tail(s)) = Len(s) - 1
           /\ \A k \in 1 .. Len(s) - 1 : Tail(s)[k] = s[k + 1]
           /\ Head(s) = s[1]
<1> DEFINE S == {s[i] : i \in DOMAIN s}
           t == Tail(s)
<1>1. s \in Seq(S)
  BY DEF IsList
<1> HIDE DEF S
<1>2. /\ t \in Seq(S) /\ Len(s) \in Nat \ {0} /\ Len(t) = Len(s) - 1
      /\ \A k \in 1 .. Len(s) - 1 : t[k] = s[k + 1]
      /\ Head(s) = s[1]
  BY <1>1
<1> HIDE DEF t
<1>3. IsList(t)
  BY <1>2 DEF IsList
<1>4. QED
  BY <1>2, <1>3 DEF t

LEMMA Files ==
    ASSUME NEW file \in Config
    PROVE  /\ file # Unreadable
           /\ IsList(file.policy_rules) /\ Len(file.policy_rules) \in Nat
           /\ DOMAIN file.policy_rules = 1 .. Len(file.policy_rules)
           /\ IsList(file.tool_scopes) /\ Len(file.tool_scopes) \in Nat
           /\ DOMAIN file.tool_scopes = 1 .. Len(file.tool_scopes)
           /\ IsList(file.scenarios) /\ Len(file.scenarios) \in Nat
           /\ DOMAIN file.scenarios = 1 .. Len(file.scenarios)
<1>1. /\ file # Unreadable
      /\ IsList(file.policy_rules) /\ IsList(file.tool_scopes) /\ IsList(file.scenarios)
  BY GateAssumption DEF IsList
<1>2. ASSUME NEW s, IsList(s) PROVE Len(s) \in Nat /\ DOMAIN s = 1 .. Len(s)
  BY <1>2, Appended
<1>3. QED
  BY <1>1, <1>2

(* Entering a list leaves all of it to do; one step takes its first.       *)
LEMMA LeftAtFirst ==
    ASSUME NEW list, IsList(list), todo' = list
    PROVE  (\A l : l = list => LeftOf(l) /\ Done(l) = 0)'
<1>1. Len(list) \in Nat
  BY Appended
<1>2. QED
  BY <1>1 DEF LeftOf, Done

LEMMA TakenFirst ==
    ASSUME NEW list, IsList(list), LeftOf(list), todo # << >>, todo' = Tail(todo)
    PROVE  /\ Done(list) \in Nat /\ Done(list) + 1 \in DOMAIN list
           /\ Head(todo) = list[Done(list) + 1]
           /\ \E done \in Nat : /\ done = Done(list) + 1
                                /\ (\A l : l = list => LeftOf(l) /\ Done(l) = done)'
<1>1. Len(list) \in Nat /\ DOMAIN list = 1 .. Len(list)
  BY Appended
<1>2. /\ IsList(todo') /\ Len(todo) \in Nat \ {0} /\ Len(todo') = Len(todo) - 1
      /\ \A k \in 1 .. Len(todo) - 1 : todo'[k] = todo[k + 1]
      /\ Head(todo) = todo[1]
  BY Tailed DEF LeftOf
<1>3. /\ Len(todo) <= Len(list)
      /\ \A k \in 1 .. Len(todo) : todo[k] = list[Len(list) - Len(todo) + k]
  BY DEF LeftOf
<1>4. /\ Done(list) \in Nat /\ Done(list) + 1 \in DOMAIN list
      /\ Head(todo) = list[Done(list) + 1]
  BY <1>1, <1>2, <1>3 DEF Done
<1>5. Len(todo') <= Len(list) /\ Len(list) - Len(todo') = Done(list) + 1
  BY <1>1, <1>2, <1>3 DEF Done
<1>6. \A k \in 1 .. Len(todo') : todo'[k] = list[Len(list) - Len(todo') + k]
  <2> SUFFICES ASSUME NEW k \in 1 .. Len(todo')
               PROVE  todo'[k] = list[Len(list) - Len(todo') + k]
    OBVIOUS
  <2>1. k \in 1 .. Len(todo) - 1 /\ k + 1 \in 1 .. Len(todo)
    BY <1>2
  <2>2. todo'[k] = list[Len(list) - Len(todo) + (k + 1)]
    BY <1>2, <1>3, <2>1
  <2>3. Len(list) - Len(todo) + (k + 1) = Len(list) - Len(todo') + k
    BY <1>1, <1>2
  <2>4. QED
    BY <2>2, <2>3
<1>7. QED
  BY <1>2, <1>4, <1>5, <1>6 DEF LeftOf, Done

-----------------------------------------------------------------------------
(* Faults, list by list, and what the exit code says of them. *)

LEMMA Listed ==
    ASSUME NEW F, NEW n \in Nat, NEW f, f = [i \in 1 .. n |-> f[i]],
           \A i \in 1 .. n : f[i] \in F
    PROVE  f \in Seq(F) /\ Len(f) = n
OBVIOUS

LEMMA Joined ==
    ASSUME NEW F, NEW a \in Seq(F), NEW b \in Seq(F)
    PROVE  /\ a \o b \in Seq(F) /\ Len(a \o b) = Len(a) + Len(b)
           /\ DOMAIN (a \o b) = 1 .. Len(a) + Len(b)
           /\ \A i \in 1 .. Len(a) : (a \o b)[i] = a[i]
           /\ \A i \in 1 .. Len(b) : (a \o b)[Len(a) + i] = b[i]
<1>1. a \o b \in Seq(F) /\ Len(a \o b) = Len(a) + Len(b)
  OBVIOUS
<1>2. DOMAIN (a \o b) = 1 .. Len(a) + Len(b)
  OBVIOUS
<1>3. \A i \in 1 .. Len(a) : (a \o b)[i] = a[i]
  OBVIOUS
<1>4. \A i \in 1 .. Len(b) : (a \o b)[Len(a) + i] = b[i]
  OBVIOUS
<1>5. QED
  BY <1>1, <1>2, <1>3, <1>4

LEMMA FaultsByList ==
    ASSUME config \in Config
    PROVE  LET p == Len(config.policy_rules)
               t == Len(config.tool_scopes)
               s == Len(config.scenarios)
           IN  /\ DOMAIN Faults = 1 .. p + t + s
               /\ \A i \in 1 .. p : Faults[i] = RuleFault(config.policy_rules[i])
               /\ \A i \in 1 .. t : Faults[p + i] = ScopeFault(config.tool_scopes[i])
               /\ \A i \in 1 .. s : Faults[p + t + i] = ScenarioFault(config.scenarios[i])
<1> DEFINE p == Len(config.policy_rules)
           t == Len(config.tool_scopes)
           s == Len(config.scenarios)
           a == [i \in 1 .. p |-> RuleFault(config.policy_rules[i])]
           b == [i \in 1 .. t |-> ScopeFault(config.tool_scopes[i])]
           c == [i \in 1 .. s |-> ScenarioFault(config.scenarios[i])]
           F == {a[i] : i \in 1 .. p} \cup {b[i] : i \in 1 .. t} \cup {c[i] : i \in 1 .. s}
<1>1. /\ p \in Nat /\ DOMAIN config.policy_rules = 1 .. p
      /\ t \in Nat /\ DOMAIN config.tool_scopes = 1 .. t
      /\ s \in Nat /\ DOMAIN config.scenarios = 1 .. s
  BY Files
<1>2. Faults = a \o b \o c
  BY <1>1 DEF Faults
<1>3. /\ \A i \in 1 .. p : a[i] = RuleFault(config.policy_rules[i])
      /\ \A i \in 1 .. t : b[i] = ScopeFault(config.tool_scopes[i])
      /\ \A i \in 1 .. s : c[i] = ScenarioFault(config.scenarios[i])
  OBVIOUS
<1>4. a = [i \in 1 .. p |-> a[i]] /\ b = [i \in 1 .. t |-> b[i]] /\ c = [i \in 1 .. s |-> c[i]]
  OBVIOUS
<1> HIDE DEF a, b, c, p, t, s
<1>5. a \in Seq(F) /\ Len(a) = p /\ b \in Seq(F) /\ Len(b) = t /\ c \in Seq(F) /\ Len(c) = s
  <2>1. /\ \A i \in 1 .. p : a[i] \in F
        /\ \A i \in 1 .. t : b[i] \in F
        /\ \A i \in 1 .. s : c[i] \in F
    OBVIOUS
  <2> HIDE DEF F
  <2>2. QED
    BY <1>1, <1>4, <2>1, Listed
<1> HIDE DEF F
<1>6. /\ a \o b \in Seq(F) /\ Len(a \o b) = p + t
      /\ \A i \in 1 .. p : (a \o b)[i] = a[i]
      /\ \A i \in 1 .. t : (a \o b)[p + i] = b[i]
  <2>1. /\ a \o b \in Seq(F) /\ Len(a \o b) = Len(a) + Len(b)
        /\ \A i \in 1 .. Len(a) : (a \o b)[i] = a[i]
        /\ \A i \in 1 .. Len(b) : (a \o b)[Len(a) + i] = b[i]
    <3>1. a \in Seq(F) /\ b \in Seq(F)
      BY <1>5
    <3>2. QED
      BY ONLY <3>1, Joined
  <2>2. QED
    BY <1>5, <2>1
<1> DEFINE ab == a \o b
<1>7. /\ DOMAIN (ab \o c) = 1 .. p + t + s
      /\ \A i \in 1 .. p + t : (ab \o c)[i] = ab[i]
      /\ \A i \in 1 .. s : (ab \o c)[p + t + i] = c[i]
  <2>1. ab \in Seq(F) /\ Len(ab) = p + t
    BY <1>6
  <2> HIDE DEF ab
  <2>2. /\ DOMAIN (ab \o c) = 1 .. Len(ab) + Len(c)
        /\ \A i \in 1 .. Len(ab) : (ab \o c)[i] = ab[i]
        /\ \A i \in 1 .. Len(c) : (ab \o c)[Len(ab) + i] = c[i]
    <3>1. ab \in Seq(F) /\ c \in Seq(F)
      BY <1>5, <2>1
    <3>2. QED
      BY ONLY <3>1, Joined
  <2>3. QED
    BY <1>5, <2>1, <2>2
<1>8. /\ \A i \in 1 .. p : i \in 1 .. p + t
      /\ \A i \in 1 .. t : p + i \in 1 .. p + t
  BY <1>1
<1>9. /\ DOMAIN Faults = 1 .. p + t + s
      /\ \A i \in 1 .. p : Faults[i] = a[i]
      /\ \A i \in 1 .. t : Faults[p + i] = b[i]
      /\ \A i \in 1 .. s : Faults[p + t + i] = c[i]
  BY <1>2, <1>6, <1>7, <1>8
<1>10. QED
  BY <1>3, <1>9 DEF p, t, s

(* The first fault is what the run stops with. *)
LEMMA FirstFaultStops ==
    ASSUME config \in Config, NEW k \in DOMAIN Faults,
           \A i \in 1 .. k - 1 : Faults[i] = "no", Faults[k] # "no", Raise(Faults[k])
    PROVE  FaultsNeverPass' /\ ApprovedMeansAsExpected' /\ exit' # None
<1>1. exit' = IF Faults[k] = "GateConfigError" THEN 2 ELSE 1
  BY DEF Raise, Stop
<1>2. config' = config /\ Faults' = Faults
  BY DEF Raise, Stop, Faults
<1>3. DOMAIN Faults \in SUBSET Nat /\ \A i \in DOMAIN Faults : i >= 1
  <2> DEFINE p == Len(config.policy_rules)
             q == Len(config.tool_scopes)
             r == Len(config.scenarios)
  <2>1. PICK n \in Nat : DOMAIN Faults = 1 .. n
    <3>1. p \in Nat /\ q \in Nat /\ r \in Nat
      BY Files
    <3>2. DOMAIN Faults = 1 .. p + q + r
      BY FaultsByList
    <3> HIDE DEF p, q, r
    <3>3. p + q + r \in Nat
      BY <3>1
    <3>4. QED
      BY <3>2, <3>3
  <2>2. QED
    BY <2>1
<1>4. \A j \in DOMAIN Faults : Faults[j] # "no" => k <= j
  BY <1>3
<1>5. exit' # 0
  BY <1>1
<1>6. ApprovedMeansAsExpected'
  BY <1>5 DEF ApprovedMeansAsExpected
<1>7. FaultsNeverPass'
  <2>1. exit' = 2 => Faults[k] = "GateConfigError"
    BY <1>1
  <2>2. QED
    BY <1>2, <1>4, <1>5, <2>1 DEF FaultsNeverPass
<1>8. exit' # None
  BY <1>1, NoneAssumption
<1>9. QED
  BY <1>6, <1>7, <1>8

LEMMA Undecided ==
    ASSUME exit' = None
    PROVE  ApprovedMeansAsExpected' /\ FaultsNeverPass'
BY NoneAssumption DEF ApprovedMeansAsExpected, FaultsNeverPass

-----------------------------------------------------------------------------
(* Every step moves along the file, and stops only for a good reason. *)

Verdict == ApprovedMeansAsExpected /\ FaultsNeverPass

LEMMA Stopped ==
    ASSUME Progress, NEW code, Stop(code)
    PROVE  Progress'
BY DEF Progress, Stop

LEMMA LoadAdvances ==
    ASSUME Progress, LoadGateConfig
    PROVE  Progress' /\ Verdict'
<1>1. CASE config = Unreadable /\ Raise("GateConfigError")
  <2>1. Stop(2)
    BY <1>1 DEF Raise
  <2>2. exit' = 2 /\ config' = Unreadable
    BY <1>1, <2>1 DEF Stop
  <2>3. Verdict'
    BY <2>2 DEF Verdict, ApprovedMeansAsExpected, FaultsNeverPass
  <2>4. QED
    BY <2>1, <2>3, Stopped
<1>2. CASE config # Unreadable /\ Enter("rules", config.policy_rules)
  <2>1. PICK file : file = config
    OBVIOUS
  <2>2. /\ file \in Config /\ config' = file /\ phase' = "rules" /\ exit' = exit
        /\ exit = None /\ todo' = file.policy_rules
    BY <1>2, <2>1 DEF Enter, Progress, LoadGateConfig
  <2>3. LeftOf(file.policy_rules)' /\ Done(file.policy_rules)' = 0
    BY <2>2, Files, LeftAtFirst
  <2>4. Progress'
    BY <2>2, <2>3 DEF Progress, RulesSound
  <2>5. QED
    BY <2>2, <2>4, Undecided DEF Verdict
<1>3. QED
  BY <1>1, <1>2 DEF LoadGateConfig

LEMMA RulesAdvance ==
    ASSUME Progress, BuildPolicyEngine
    PROVE  Progress' /\ Verdict'
<1>1. PICK file : file = config
  OBVIOUS
<1>2. /\ file \in Config /\ phase = "rules" /\ exit = None
      /\ LeftOf(file.policy_rules) /\ RulesSound(Done(file.policy_rules))
  BY <1>1 DEF Progress, BuildPolicyEngine
<1>3. /\ IsList(file.policy_rules) /\ Len(file.policy_rules) \in Nat
      /\ DOMAIN file.policy_rules = 1 .. Len(file.policy_rules)
      /\ IsList(file.tool_scopes) /\ Len(file.tool_scopes) \in Nat
      /\ Len(file.scenarios) \in Nat
  BY <1>2, Files
<1> DEFINE n == Len(file.policy_rules)
           done == Done(file.policy_rules)
<1>4. CASE todo = << >> /\ Enter("scopes", config.tool_scopes)
  <2>1. /\ config' = file /\ phase' = "scopes" /\ exit' = exit /\ todo' = file.tool_scopes
    BY <1>1, <1>4 DEF Enter
  <2>2. LeftOf(file.tool_scopes)' /\ Done(file.tool_scopes)' = 0
    BY <1>3, <2>1, LeftAtFirst
  <2>3. done = Len(file.policy_rules)
    BY <1>3, <1>4 DEF Done
  <2>4. Progress'
    BY <1>1, <1>2, <2>1, <2>2, <2>3 DEF Progress, RulesSound, ScopesSound
  <2>5. QED
    BY <1>2, <2>1, <2>4, Undecided DEF Verdict
<1>5. ASSUME todo # << >>
      PROVE  /\ done \in Nat /\ done + 1 \in 1 .. n /\ done + 1 \in DOMAIN Faults
             /\ Head(todo) = file.policy_rules[done + 1]
             /\ Faults[done + 1] = RuleFault(Head(todo))
             /\ \A i \in 1 .. (done + 1) - 1 : Faults[i] = "no"
  <2>1. /\ done \in Nat /\ done + 1 \in 1 .. n
        /\ Head(todo) = file.policy_rules[done + 1]
    <3>1. /\ Len(todo) <= n /\ Len(todo) \in Nat \ {0} /\ Head(todo) = todo[1]
          /\ todo[1] = file.policy_rules[n - Len(todo) + 1]
      BY <1>2, <1>5, Tailed DEF LeftOf
    <3>2. QED
      BY <1>3, <3>1 DEF Done
  <2>2. /\ \A i \in 1 .. n : Faults[i] = RuleFault(file.policy_rules[i])
        /\ DOMAIN Faults = 1 .. n + Len(file.tool_scopes) + Len(file.scenarios)
    BY <1>1, <1>2, FaultsByList
  <2>3. \A i \in 1 .. done : RuleFault(file.policy_rules[i]) = "no"
    BY <1>1, <1>2 DEF RulesSound
  <2>4. /\ done + 1 \in 1 .. n + Len(file.tool_scopes) + Len(file.scenarios)
        /\ \A i \in 1 .. (done + 1) - 1 : i \in 1 .. n /\ i \in 1 .. done
    <3> DEFINE q == Len(file.tool_scopes)
               r == Len(file.scenarios)
    <3>1. n \in Nat /\ q \in Nat /\ r \in Nat
      BY <1>3
    <3> HIDE DEF done, n, q, r
    <3>2. done + 1 \in 1 .. n + q + r
      BY <2>1, <3>1
    <3>3. \A i \in 1 .. (done + 1) - 1 : i \in 1 .. n /\ i \in 1 .. done
      BY <2>1, <3>1
    <3>4. QED
      BY <3>2, <3>3 DEF q, r
  <2> HIDE DEF done, n
  <2>5. QED
    BY <2>1, <2>2, <2>3, <2>4
<1>6. CASE todo # << >> /\ RuleFault(Head(todo)) # "no" /\ Raise(RuleFault(Head(todo)))
  <2>1. Verdict'
    <3> HIDE DEF done, n
    <3>1. QED
      BY <1>1, <1>2, <1>5, <1>6, FirstFaultStops DEF Verdict
  <2>2. QED
    BY <1>6, <2>1, Stopped DEF Raise
<1>7. CASE /\ todo # << >> /\ RuleFault(Head(todo)) = "no" /\ todo' = Tail(todo)
           /\ UNCHANGED <<config, phase, exit>>
  <2>1. PICK now \in Nat : /\ now = done + 1
                           /\ LeftOf(file.policy_rules)' /\ Done(file.policy_rules)' = now
    BY <1>2, <1>3, <1>7, TakenFirst
  <2>2. RuleFault(file.policy_rules[now]) = "no" /\ done \in Nat
    BY <1>5, <1>7, <2>1
  <2>3. \A i \in 1 .. now : RuleFault(file.policy_rules[i]) = "no"
    <3>1. \A i \in 1 .. done : RuleFault(file.policy_rules[i]) = "no"
      BY <1>1, <1>2 DEF RulesSound
    <3> HIDE DEF done
    <3>2. \A i \in 1 .. now : i \in 1 .. done \/ i = now
      BY <2>1, <2>2
    <3>3. QED
      BY <2>2, <3>1, <3>2
  <2>4. config' = file /\ phase' = "rules" /\ exit' = None
    BY <1>1, <1>2, <1>7
  <2>5. Progress'
    BY <1>2, <2>1, <2>3, <2>4 DEF Progress, RulesSound
  <2>6. QED
    BY <2>4, <2>5, Undecided DEF Verdict
<1>8. QED
  BY <1>4, <1>6, <1>7 DEF BuildPolicyEngine

LEMMA ScopesAdvance ==
    ASSUME Progress, BuildToolScopes
    PROVE  Progress' /\ Verdict'
<1>1. PICK file : file = config
  OBVIOUS
<1>2. /\ file \in Config /\ phase = "scopes" /\ exit = None
      /\ LeftOf(file.tool_scopes)
      /\ RulesSound(Len(file.policy_rules)) /\ ScopesSound(Done(file.tool_scopes))
  BY <1>1 DEF Progress, BuildToolScopes
<1>3. /\ IsList(file.tool_scopes) /\ Len(file.tool_scopes) \in Nat
      /\ DOMAIN file.tool_scopes = 1 .. Len(file.tool_scopes)
      /\ IsList(file.scenarios) /\ Len(file.scenarios) \in Nat
      /\ Len(file.policy_rules) \in Nat
  BY <1>2, Files
<1> DEFINE p == Len(file.policy_rules)
           n == Len(file.tool_scopes)
           r == Len(file.scenarios)
           done == Done(file.tool_scopes)
<1>4. CASE todo = << >> /\ Enter("scenarios", config.scenarios)
  <2>1. /\ config' = file /\ phase' = "scenarios" /\ exit' = exit /\ todo' = file.scenarios
    BY <1>1, <1>4 DEF Enter
  <2>2. LeftOf(file.scenarios)' /\ Done(file.scenarios)' = 0
    BY <1>3, <2>1, LeftAtFirst
  <2>3. done = n
    BY <1>3, <1>4 DEF Done
  <2>4. Progress'
    BY <1>1, <1>2, <2>1, <2>2, <2>3 DEF Progress, RulesSound, ScopesSound, ScenariosSound
  <2>5. QED
    BY <1>2, <2>1, <2>4, Undecided DEF Verdict
<1>5. ASSUME todo # << >>
      PROVE  /\ done \in Nat /\ done + 1 \in 1 .. n /\ p + (done + 1) \in DOMAIN Faults
             /\ Head(todo) = file.tool_scopes[done + 1]
             /\ Faults[p + (done + 1)] = ScopeFault(Head(todo))
             /\ \A i \in 1 .. p + (done + 1) - 1 : Faults[i] = "no"
  <2>1. /\ done \in Nat /\ done + 1 \in 1 .. n
        /\ Head(todo) = file.tool_scopes[done + 1]
    <3>1. /\ Len(todo) <= n /\ Len(todo) \in Nat \ {0} /\ Head(todo) = todo[1]
          /\ todo[1] = file.tool_scopes[n - Len(todo) + 1]
      BY <1>2, <1>5, Tailed DEF LeftOf
    <3>2. QED
      BY <1>3, <3>1 DEF Done
  <2>2. /\ \A i \in 1 .. p : Faults[i] = RuleFault(file.policy_rules[i])
        /\ \A i \in 1 .. n : Faults[p + i] = ScopeFault(file.tool_scopes[i])
        /\ DOMAIN Faults = 1 .. p + n + r
    BY <1>1, <1>2, FaultsByList
  <2>3. /\ \A i \in 1 .. p : RuleFault(file.policy_rules[i]) = "no"
        /\ \A i \in 1 .. done : ScopeFault(file.tool_scopes[i]) = "no"
    BY <1>1, <1>2 DEF RulesSound, ScopesSound
  <2>4. p \in Nat /\ n \in Nat /\ r \in Nat
    BY <1>3
  <2> HIDE DEF done, p, n, r
  <2>5. /\ p + (done + 1) \in 1 .. p + n + r
        /\ \A i \in 1 .. p + (done + 1) - 1 :
               i \in 1 .. p \/ (i - p \in 1 .. done /\ i - p \in 1 .. n /\ i = p + (i - p))
    BY <2>1, <2>4
  <2>6. QED
    BY <2>1, <2>2, <2>3, <2>5
<1>6. CASE todo # << >> /\ ScopeFault(Head(todo)) # "no" /\ Raise(ScopeFault(Head(todo)))
  <2>1. Verdict'
    <3> DEFINE k == p + (done + 1)
    <3>1. /\ k \in DOMAIN Faults /\ Faults[k] = ScopeFault(Head(todo))
          /\ \A i \in 1 .. k - 1 : Faults[i] = "no"
      BY <1>5, <1>6
    <3> HIDE DEF k
    <3>2. QED
      BY <1>1, <1>2, <1>6, <3>1, FirstFaultStops DEF Verdict
  <2>2. QED
    BY <1>6, <2>1, Stopped DEF Raise
<1>7. CASE /\ todo # << >> /\ ScopeFault(Head(todo)) = "no" /\ todo' = Tail(todo)
           /\ UNCHANGED <<config, phase, exit>>
  <2>1. PICK now \in Nat : /\ now = done + 1
                           /\ LeftOf(file.tool_scopes)' /\ Done(file.tool_scopes)' = now
    BY <1>2, <1>3, <1>7, TakenFirst
  <2>2. ScopeFault(file.tool_scopes[now]) = "no" /\ done \in Nat
    BY <1>5, <1>7, <2>1
  <2>3. \A i \in 1 .. now : ScopeFault(file.tool_scopes[i]) = "no"
    <3>1. \A i \in 1 .. done : ScopeFault(file.tool_scopes[i]) = "no"
      BY <1>1, <1>2 DEF ScopesSound
    <3> HIDE DEF done
    <3>2. \A i \in 1 .. now : i \in 1 .. done \/ i = now
      BY <2>1, <2>2
    <3>3. QED
      BY <2>2, <3>1, <3>2
  <2>4. config' = file /\ phase' = "scopes" /\ exit' = None
    BY <1>1, <1>2, <1>7
  <2>5. \A i \in 1 .. p : RuleFault(file.policy_rules[i]) = "no"
    BY <1>1, <1>2 DEF RulesSound
  <2>6. Progress'
    BY <1>2, <2>1, <2>3, <2>4, <2>5 DEF Progress, RulesSound, ScopesSound
  <2>7. QED
    BY <2>4, <2>6, Undecided DEF Verdict
<1>8. QED
  BY <1>4, <1>6, <1>7 DEF BuildToolScopes

LEMMA ScenarioAhead ==
    ASSUME Progress, phase = "scenarios", todo # << >>
    PROVE  \E k \in DOMAIN Faults : /\ Faults[k] = ScenarioFault(Head(todo))
                                    /\ \A i \in 1 .. k - 1 : Faults[i] = "no"
<1> DEFINE p == Len(config.policy_rules)
           t == Len(config.tool_scopes)
           n == Len(config.scenarios)
           done == Done(config.scenarios)
           next == done + 1
<1>1. /\ config \in Config /\ LeftOf(config.scenarios)
      /\ RulesSound(p) /\ ScopesSound(t) /\ ScenariosSound(done)
  BY DEF Progress
<1>2. /\ p \in Nat /\ t \in Nat /\ n \in Nat /\ DOMAIN config.scenarios = 1 .. n
  BY <1>1, Files
<1>3. /\ done \in Nat /\ next \in 1 .. n /\ Head(todo) = config.scenarios[next]
  <2>1. /\ Len(todo) <= n /\ Len(todo) \in Nat \ {0} /\ Head(todo) = todo[1]
        /\ todo[1] = config.scenarios[n - Len(todo) + 1]
    BY <1>1, Tailed DEF LeftOf
  <2>2. QED
    BY <1>2, <2>1 DEF Done
<1>4. /\ \A i \in 1 .. p : Faults[i] = RuleFault(config.policy_rules[i])
      /\ \A i \in 1 .. t : Faults[p + i] = ScopeFault(config.tool_scopes[i])
      /\ \A i \in 1 .. n : Faults[p + t + i] = ScenarioFault(config.scenarios[i])
      /\ DOMAIN Faults = 1 .. p + t + n
  BY <1>1, FaultsByList
<1>5. /\ \A i \in 1 .. p : RuleFault(config.policy_rules[i]) = "no"
      /\ \A i \in 1 .. t : ScopeFault(config.tool_scopes[i]) = "no"
      /\ \A i \in 1 .. done : ScenarioFault(config.scenarios[i]) = "no"
  BY <1>1 DEF RulesSound, ScopesSound, ScenariosSound
<1>6. next = done + 1
  OBVIOUS
<1> HIDE DEF p, t, n, done, next
<1>7. /\ p + t + next \in 1 .. p + t + n /\ next \in Nat
      /\ \A i \in 1 .. p + t + next - 1 :
             \/ i \in 1 .. p
             \/ i - p \in 1 .. t /\ i = p + (i - p)
             \/ i - p - t \in 1 .. done /\ i - p - t \in 1 .. n /\ i = p + t + (i - p - t)
  BY <1>2, <1>3, <1>6
<1>8. \A i \in 1 .. p + t + next - 1 : Faults[i] = "no"
  BY <1>4, <1>5, <1>7
<1> DEFINE k == p + t + next
<1> HIDE DEF k
<1>9. k \in DOMAIN Faults /\ Faults[k] = ScenarioFault(Head(todo))
  BY <1>3, <1>4, <1>7 DEF k
<1>10. \A i \in 1 .. k - 1 : Faults[i] = "no"
  <2>1. 1 .. k - 1 = 1 .. p + t + next - 1
    BY <1>2, <1>7 DEF k
  <2>2. QED
    BY <1>8, <2>1
<1>11. QED
  BY <1>9, <1>10

LEMMA ScenariosAdvance ==
    ASSUME Progress, RunScenario \/ ScenarioRaises
    PROVE  Progress' /\ Verdict'
<1>1. PICK file : file = config
  OBVIOUS
<1>2. /\ file \in Config /\ phase = "scenarios" /\ exit = None /\ todo # << >>
      /\ LeftOf(file.scenarios) /\ RulesSound(Len(file.policy_rules))
      /\ ScopesSound(Len(file.tool_scopes)) /\ ScenariosSound(Done(file.scenarios))
  BY <1>1 DEF Progress, RunScenario, ScenarioRaises
<1>3. CASE ScenarioRaises
  <2>1. PICK k \in DOMAIN Faults : /\ Faults[k] = ScenarioFault(Head(todo))
                                   /\ \A i \in 1 .. k - 1 : Faults[i] = "no"
    BY <1>2, ScenarioAhead
  <2>2. ScenarioFault(Head(todo)) # "no" /\ Raise(ScenarioFault(Head(todo)))
    BY <1>3 DEF ScenarioRaises
  <2>3. Verdict'
    BY <1>1, <1>2, <2>1, <2>2, FirstFaultStops DEF Verdict
  <2>4. QED
    BY <2>2, <2>3, Stopped DEF Raise
<1>4. CASE RunScenario
  <2> DEFINE done == Done(file.scenarios)
  <2>1. /\ ScenarioFault(Head(todo)) = "no" /\ todo' = Tail(todo)
        /\ UNCHANGED <<config, phase, exit>>
    BY <1>4 DEF RunScenario
  <2>2. IsList(file.scenarios)
    BY <1>2, Files
  <2>3. PICK now \in Nat : /\ now = done + 1 /\ done \in Nat
                           /\ Head(todo) = file.scenarios[now]
                           /\ LeftOf(file.scenarios)' /\ Done(file.scenarios)' = now
    BY <1>2, <2>1, <2>2, TakenFirst
  <2>4. \A i \in 1 .. now : ScenarioFault(file.scenarios[i]) = "no"
    <3>1. \A i \in 1 .. done : ScenarioFault(file.scenarios[i]) = "no"
      BY <1>1, <1>2 DEF ScenariosSound
    <3> HIDE DEF done
    <3>2. \A i \in 1 .. now : i \in 1 .. done \/ i = now
      BY <2>3
    <3>3. QED
      BY <2>1, <2>3, <3>1, <3>2
  <2>5. /\ \A i \in 1 .. Len(file.policy_rules) : RuleFault(file.policy_rules[i]) = "no"
        /\ \A i \in 1 .. Len(file.tool_scopes) : ScopeFault(file.tool_scopes[i]) = "no"
    BY <1>1, <1>2 DEF RulesSound, ScopesSound
  <2>6. config' = file /\ phase' = "scenarios" /\ exit' = None
    BY <1>1, <1>2, <2>1
  <2>7. Progress'
    BY <1>2, <2>3, <2>4, <2>5, <2>6 DEF Progress, RulesSound, ScopesSound, ScenariosSound
  <2>8. QED
    BY <2>6, <2>7, Undecided DEF Verdict
<1>5. QED
  BY <1>3, <1>4

LEMMA ReportAdvances ==
    ASSUME Progress, Results, Report
    PROVE  Progress' /\ Verdict'
<1>1. /\ config \in Config /\ phase = "scenarios" /\ todo = << >>
      /\ RulesSound(Len(config.policy_rules)) /\ ScopesSound(Len(config.tool_scopes))
      /\ ScenariosSound(Done(config.scenarios)) /\ Len(results) = Done(config.scenarios)
  BY DEF Progress, Results, Report
<1> DEFINE p == Len(config.policy_rules)
           t == Len(config.tool_scopes)
           n == Len(config.scenarios)
<1>2. /\ p \in Nat /\ t \in Nat /\ n \in Nat /\ DOMAIN config.scenarios = 1 .. n
      /\ config # Unreadable
  BY <1>1, Files
<1>3. Done(config.scenarios) = n
  BY <1>1, <1>2 DEF Done
<1>4. /\ UNCHANGED <<config, results>> /\ exit' = IF AllPassed THEN 0 ELSE 1
  BY DEF Report, Stop
<1>5. DOMAIN results = 1 .. n
  BY <1>1, <1>3, Appended DEF Results
<1>6. \A i \in DOMAIN Faults : Faults[i] = "no"
  <2>1. /\ \A i \in 1 .. p : Faults[i] = RuleFault(config.policy_rules[i])
        /\ \A i \in 1 .. t : Faults[p + i] = ScopeFault(config.tool_scopes[i])
        /\ \A i \in 1 .. n : Faults[p + t + i] = ScenarioFault(config.scenarios[i])
        /\ DOMAIN Faults = 1 .. p + t + n
    BY <1>1, FaultsByList
  <2>2. /\ \A i \in 1 .. p : RuleFault(config.policy_rules[i]) = "no"
        /\ \A i \in 1 .. t : ScopeFault(config.tool_scopes[i]) = "no"
        /\ \A i \in 1 .. n : ScenarioFault(config.scenarios[i]) = "no"
    BY <1>1, <1>3 DEF RulesSound, ScopesSound, ScenariosSound
  <2> HIDE DEF p, t, n
  <2>3. \A i \in 1 .. p + t + n :
            \/ i \in 1 .. p
            \/ i - p \in 1 .. t /\ i = p + (i - p)
            \/ i - p - t \in 1 .. n /\ i = p + t + (i - p - t)
    BY <1>2
  <2>4. QED
    BY <2>1, <2>2, <2>3
<1>7. FaultsNeverPass'
  <2>1. Faults' = Faults
    BY <1>4 DEF Faults
  <2>2. exit' # 2
    BY <1>4
  <2>3. QED
    BY <1>6, <2>1, <2>2 DEF FaultsNeverPass
<1>8. ApprovedMeansAsExpected'
  <2>1. ASSUME exit' = 0
        PROVE  /\ config.scenarios # << >>
               /\ [i \in DOMAIN results |-> results[i].actual]
                      = [i \in DOMAIN config.scenarios |-> config.scenarios[i].expect]
    <3>1. AllPassed
      BY <1>4, <2>1
    <3>2. n # 0
      <4>1. results # << >> /\ IsList(results) /\ Len(results) = n
        BY <1>1, <1>3, <3>1 DEF AllPassed, Results
      <4> HIDE DEF n
      <4>2. QED
        BY <4>1, Tailed
    <3>3. \A i \in 1 .. n : results[i].actual = config.scenarios[i].expect
      BY <1>5, <3>1 DEF AllPassed, Passed, Results
    <3>4. QED
      BY <1>2, <1>5, <3>2, <3>3
  <2>2. QED
    BY <1>2, <1>4, <2>1 DEF ApprovedMeansAsExpected
<1>9. QED
  BY <1>7, <1>8, Stopped DEF Report, Verdict

-----------------------------------------------------------------------------
(* The results follow the scenarios. *)

LEMMA ScenarioTaken ==
    ASSUME Progress, Results, RunScenario
    PROVE  /\ config \in Config /\ phase = "scenarios"
           /\ UNCHANGED <<config, phase, rules>>
           /\ IsList(results) /\ Len(results) \in Nat /\ DOMAIN results = 1 .. Len(results)
           /\ Len(results) + 1 \in DOMAIN config.scenarios
           /\ Head(todo) = config.scenarios[Len(results) + 1]
           /\ \E done \in Nat : /\ done = Len(results) + 1
                                /\ (\A l : l = config.scenarios => Done(l) = done)'
<1>1. PICK file : file = config
  OBVIOUS
<1>2. /\ file \in Config /\ phase = "scenarios" /\ LeftOf(file.scenarios)
      /\ todo # << >> /\ todo' = Tail(todo) /\ UNCHANGED <<config, phase, rules>>
      /\ IsList(results) /\ Len(results) = Done(file.scenarios)
  BY <1>1 DEF Progress, Results, RunScenario
<1>3. Len(results) \in Nat /\ DOMAIN results = 1 .. Len(results)
  BY <1>2, Appended
<1>4. IsList(file.scenarios)
  BY <1>2, Files
<1>5. /\ Len(results) + 1 \in DOMAIN file.scenarios
      /\ Head(todo) = file.scenarios[Len(results) + 1]
  BY <1>2, <1>4, TakenFirst
<1>6. PICK done \in Nat : done = Len(results) + 1 /\ Done(file.scenarios)' = done
  BY <1>2, <1>4, TakenFirst
<1>7. QED
  BY <1>1, <1>2, <1>3, <1>5, <1>6

LEMMA ResultsKept ==
    ASSUME Progress, Results, [Next]_vars
    PROVE  Results'
<1>1. CASE UNCHANGED <<results, config>> /\ phase' \in {phase, "stopped"} /\ phase # "scenarios"
  BY <1>1 DEF Results
<1>2. CASE UNCHANGED <<results, config, phase, todo>>
  BY <1>2 DEF Results, Done
<1>3. CASE UNCHANGED <<results, config>> /\ phase' = "stopped"
  BY <1>3 DEF Results
<1>4. CASE UNCHANGED <<results, config>> /\ phase = "load" /\ phase' = "rules"
  BY <1>4 DEF Results
<1>5. CASE UNCHANGED <<results, config>> /\ phase = "rules" /\ phase' = "scopes"
  BY <1>5 DEF Results
<1>6. CASE phase = "scopes" /\ Enter("scenarios", config.scenarios)
  <2>1. /\ UNCHANGED <<results, config>> /\ phase' = "scenarios" /\ todo' = config.scenarios
        /\ results = << >> /\ config \in Config
    BY <1>6 DEF Enter, Results, Progress
  <2>2. Len(config.scenarios) \in Nat
    BY <2>1, Files
  <2>3. Len(results) = 0 /\ Done(config.scenarios)' = 0
    BY <2>1, <2>2 DEF Done
  <2>4. QED
    BY <2>1, <2>3 DEF Results
<1>7. CASE RunScenario
  <2> DEFINE n == Len(results)
             actual == ActualOf(Head(todo),
                 Permitted(ToolOf(Head(todo)), LevelOf(Head(todo)), ParamsOf(Head(todo))))
             result == [expected |-> Head(todo).expect, actual |-> actual]
  <2>1. /\ config \in Config /\ phase' = "scenarios" /\ config' = config
        /\ IsList(results) /\ n \in Nat /\ DOMAIN results = 1 .. n
        /\ n + 1 \in DOMAIN config.scenarios /\ Head(todo) = config.scenarios[n + 1]
    BY <1>7, ScenarioTaken
  <2>2. Done(config.scenarios)' = n + 1
    BY <1>7, <2>1, ScenarioTaken
  <2>3. results' = Append(results, result) /\ result.expected = Head(todo).expect
    BY <1>7 DEF RunScenario
  <2> HIDE DEF result, actual
  <2>4. /\ IsList(results') /\ Len(results') = n + 1 /\ DOMAIN results' = 1 .. n + 1
        /\ results' # << >>
        /\ \A i \in 1 .. n : results'[i] = results[i]
        /\ results'[n + 1] = result
    BY <2>1, <2>3, Appended
  <2>5. \A i \in DOMAIN results' : /\ i \in DOMAIN config.scenarios
                                   /\ results'[i].expected = config.scenarios[i].expect
    <3>1. \A i \in 1 .. n + 1 : i \in 1 .. n \/ i = n + 1
      BY <2>1
    <3> HIDE DEF n
    <3>2. QED
      BY <2>1, <2>3, <2>4, <3>1 DEF Results
  <2>6. QED
    BY <2>1, <2>2, <2>4, <2>5 DEF Results
<1>8. CASE Next
  <2>1. CASE LoadGateConfig
    BY <1>3, <1>4, <2>1 DEF LoadGateConfig, Enter, Raise, Stop
  <2>2. CASE BuildPolicyEngine
    BY <1>1, <1>3, <1>5, <2>2 DEF BuildPolicyEngine, Enter, Raise, Stop
  <2>3. CASE BuildToolScopes
    BY <1>1, <1>3, <1>6, <2>3 DEF BuildToolScopes, Enter, Raise, Stop
  <2>4. CASE ScenarioRaises \/ Report
    BY <1>3, <2>4 DEF ScenarioRaises, Report, Raise, Stop
  <2>5. QED
    BY <1>7, <1>8, <2>1, <2>2, <2>3, <2>4 DEF Next
<1>9. CASE UNCHANGED vars
  BY <1>2, <1>9 DEF vars
<1>10. QED
  BY <1>8, <1>9

-----------------------------------------------------------------------------
(* The registry counts the allowed results, and its scopes stay put.       *)

LEMMA NoLimitApplies ==
    ASSUME Counting, NEW tool
    PROVE  ApplicableLimits(tool) = {} /\ Fresh!ApplicableLimits(tool) = {}
BY DEF Counting, ApplicableLimits, Fresh!ApplicableLimits

(* What check_and_record asks of a scope, but for its call cap; and a cap  *)
(* that lets no call through at all.                                       *)
Fits(tool, level, params) ==
    /\ scopes[tool] # None
    /\ AtLeast(level, scopes[tool].minimum_autonomy)
    /\ params \in scopes[tool].accepts
    /\ scopes[tool].max_calls_per_session # None => 0 < scopes[tool].max_calls_per_session

UsedUp(i, tool) ==
    /\ tool # None
    /\ scopes[tool].max_calls_per_session # None
    /\ scopes[tool].max_calls_per_session <= Cardinality(AllowedBefore(i, tool))

LEMMA CountsAreNatural ==
    ASSUME NEW i \in Nat, NEW tool
    PROVE  IsFiniteSet(AllowedBefore(i, tool)) /\ Cardinality(AllowedBefore(i, tool)) \in Nat
<1>1. IsFiniteSet(1 .. i - 1)
  BY FS_Interval
<1>2. AllowedBefore(i, tool) \in SUBSET (1 .. i - 1)
  BY DEF AllowedBefore
<1>3. QED
  BY <1>1, <1>2, FS_Subset, FS_CardinalityType

LEMMA FreshPermits ==
    ASSUME Counting, NEW tool \in Tool, NEW level, NEW params
    PROVE  Fresh!Permitted(tool, level, params) <=> Fits(tool, level, params)
BY NoLimitApplies DEF Fresh!Permitted, Fresh!UnderCallCap, Fresh!WithinLimits, Fresh!AtLeast,
       AtLeast, Fits

LEMMA PermitsUntilUsedUp ==
    ASSUME Counting, IsList(results), NEW tool \in Tool, NEW level, NEW params
    PROVE  Permitted(tool, level, params) <=>
               Fits(tool, level, params) /\ ~UsedUp(Len(results) + 1, tool)
<1> DEFINE used == Cardinality(AllowedBefore(Len(results) + 1, tool))
           cap == scopes[tool].max_calls_per_session
<1>1. used \in Nat
  BY Appended, CountsAreNatural
<1>2. call_counts[tool] = used
  BY DEF Counting
<1>3. tool # None
  BY ToolAssumption
<1>4. scopes[tool] # None => cap \in Int \cup {None}
  BY DEF Counting
<1>5. WithinLimits(tool, params)
  BY NoLimitApplies DEF WithinLimits
<1> HIDE DEF used
<1>6. UnderCallCap(tool) <=> (cap # None => used < cap)
  BY <1>2 DEF UnderCallCap
<1>7. UsedUp(Len(results) + 1, tool) <=> cap # None /\ cap <= used
  BY <1>3 DEF UsedUp, used
<1> HIDE DEF cap
<1>8. scopes[tool] # None =>
          ((cap # None => used < cap) <=>
           (cap # None => 0 < cap) /\ ~(cap # None /\ cap <= used))
  BY <1>1, <1>4
<1>9. QED
  BY <1>5, <1>6, <1>7, <1>8 DEF Permitted, Fits, cap

(* What OutcomesAreFresh says of one scenario. *)
Outcome(i) ==
    LET scenario == config.scenarios[i]
        fresh == ActualOf(scenario,
            Fits(ToolOf(scenario), LevelOf(scenario), ParamsOf(scenario)))
    IN  results[i].actual =
            IF fresh = "allowed" /\ UsedUp(i, ToolOf(scenario)) THEN "blocked" ELSE fresh

LEMMA ScenarioTools ==
    ASSUME NEW file \in Config, NEW i \in DOMAIN file.scenarios
    PROVE  ToolOf(file.scenarios[i]) \in Tool \cup {None}
BY GateAssumption DEF ToolOf, Get

LEMMA FreshOutcomes ==
    Results /\ Counting => (OutcomesAreFresh <=> \A i \in DOMAIN results : Outcome(i))
<1> SUFFICES ASSUME Results, Counting
             PROVE  OutcomesAreFresh <=> \A i \in DOMAIN results : Outcome(i)
  OBVIOUS
<1>1. ASSUME NEW i \in DOMAIN results
      PROVE  ActualOf(config.scenarios[i],
                 Fresh!Permitted(ToolOf(config.scenarios[i]), LevelOf(config.scenarios[i]),
                                 ParamsOf(config.scenarios[i])))
             = ActualOf(config.scenarios[i],
                 Fits(ToolOf(config.scenarios[i]), LevelOf(config.scenarios[i]),
                      ParamsOf(config.scenarios[i])))
  <2> DEFINE scenario == config.scenarios[i]
             tool == ToolOf(scenario)
  <2>1. results # << >> /\ IsList(results)
    <3>1. IsList(results) /\ DOMAIN results # {}
      BY DEF Results
    <3>2. QED
      BY <3>1
  <2>2. config \in Config /\ i \in DOMAIN config.scenarios
    BY <2>1 DEF Results
  <2>3. tool \in Tool \cup {None}
    BY <2>2, ScenarioTools
  <2> HIDE DEF scenario, tool
  <2>4. tool # None => (Fresh!Permitted(tool, LevelOf(scenario), ParamsOf(scenario))
                            <=> Fits(tool, LevelOf(scenario), ParamsOf(scenario)))
    BY <2>3, FreshPermits
  <2>5. ActualOf(scenario, Fresh!Permitted(tool, LevelOf(scenario), ParamsOf(scenario)))
            = ActualOf(scenario, Fits(tool, LevelOf(scenario), ParamsOf(scenario)))
    BY <2>4 DEF ActualOf, tool
  <2>6. QED
    BY <2>5 DEF scenario, tool
<1>2. QED
  BY <1>1 DEF OutcomesAreFresh, Outcome, UsedUp, AllowedBefore

(* One more result. *)
LEMMA ResultAdded ==
    ASSUME Progress, Results, RunScenario
    PROVE  /\ DOMAIN results' = 1 .. Len(results) + 1 /\ Len(results') = Len(results) + 1
           /\ \A i \in 1 .. Len(results) : results'[i] = results[i]
           /\ results'[Len(results) + 1].actual =
                  ActualOf(Head(todo), Permitted(ToolOf(Head(todo)), LevelOf(Head(todo)),
                                                 ParamsOf(Head(todo))))
           /\ \A i \in 1 .. Len(results) + 1 :
                  \A tool : AllowedBefore(i, tool)' = AllowedBefore(i, tool)
<1> DEFINE n == Len(results)
           result == [expected |-> Head(todo).expect,
                      actual |-> ActualOf(Head(todo),
                          Permitted(ToolOf(Head(todo)), LevelOf(Head(todo)),
                                    ParamsOf(Head(todo))))]
<1>1. IsList(results) /\ results' = Append(results, result) /\ n \in Nat /\ config' = config
  BY ScenarioTaken DEF RunScenario
<1>2. result.actual = ActualOf(Head(todo), Permitted(ToolOf(Head(todo)), LevelOf(Head(todo)),
                                                     ParamsOf(Head(todo))))
  OBVIOUS
<1> HIDE DEF result
<1>3. /\ DOMAIN results' = 1 .. n + 1 /\ Len(results') = n + 1
      /\ \A i \in 1 .. n : results'[i] = results[i]
      /\ results'[n + 1] = result
  BY <1>1, Appended
<1>4. ASSUME NEW i \in 1 .. n + 1, NEW tool
      PROVE  AllowedBefore(i, tool)' = AllowedBefore(i, tool)
  <2>1. \A j \in 1 .. i - 1 : j \in 1 .. n
    BY <1>1
  <2> HIDE DEF n
  <2>2. QED
    BY <1>1, <1>3, <2>1 DEF AllowedBefore
<1>5. QED
  BY <1>2, <1>3, <1>4

LEMMA ScenarioCounted ==
    ASSUME Progress, Results, Counting, RunScenario
    PROVE  Counting'
<1>0. PICK n : n = Len(results)
  OBVIOUS
<1> DEFINE scenario == Head(todo)
           called == ToolOf(scenario)
           actual == ActualOf(scenario, Permitted(called, LevelOf(scenario), ParamsOf(scenario)))
           counted == actual = "allowed"
<1>1. /\ n \in Nat /\ config' = config /\ config \in Config
      /\ n + 1 \in DOMAIN config.scenarios /\ scenario = config.scenarios[n + 1]
  BY <1>0, ScenarioTaken
<1>2. /\ Len(results') = n + 1
      /\ \A i \in 1 .. n : results'[i] = results[i]
      /\ results'[n + 1].actual = actual
      /\ \A i \in 1 .. n + 1 : \A tool : AllowedBefore(i, tool)' = AllowedBefore(i, tool)
  BY <1>0, ResultAdded
<1>3. Charge(scenario, actual)
  BY DEF RunScenario
<1>4. called \in Tool \cup {None}
  <2>1. ToolOf(config.scenarios[n + 1]) \in Tool \cup {None}
    BY <1>1, ScenarioTools
  <2>2. QED
    BY <1>1, <2>1
<1>5. called = ToolOf(config.scenarios[n + 1])
  BY <1>1
<1> HIDE DEF actual, called, scenario
<1>6. /\ scopes' = scopes /\ cumulative_limits' = cumulative_limits
      /\ call_counts' = [tool \in Tool |->
             IF counted /\ tool = called THEN call_counts[tool] + 1 ELSE call_counts[tool]]
  <2>1. call_counts = [tool \in Tool |-> call_counts[tool]]
    BY DEF Counting
  <2>2. CASE counted /\ called # None
    <3>1. RecordCall(called, ParamsOf(scenario))
      BY <1>3, <2>2 DEF Charge, called
    <3>2. QED
      BY <1>4, <2>1, <2>2, <3>1 DEF RecordCall
  <2>3. CASE ~(counted /\ called # None)
    <3>1. UNCHANGED permissionVars
      BY <1>3, <2>3 DEF Charge, called
    <3>2. QED
      BY <2>1, <2>3, <3>1, ToolAssumption DEF permissionVars
  <2>4. QED
    BY <2>2, <2>3
<1>7. ASSUME NEW tool \in Tool
      PROVE  call_counts'[tool] = Cardinality(AllowedBefore(n + 2, tool)')
  <2>1. /\ call_counts[tool] = Cardinality(AllowedBefore(n + 1, tool))
        /\ IsFiniteSet(AllowedBefore(n + 1, tool))
        /\ Cardinality(AllowedBefore(n + 1, tool)) \in Nat
    BY <1>0, <1>1, CountsAreNatural DEF Counting
  <2>2. AllowedBefore(n + 2, tool)' =
            AllowedBefore(n + 1, tool) \cup
                (IF counted /\ tool = called THEN {n + 1} ELSE {})
    <3>1. PICK next : next = n + 1
      OBVIOUS
    <3>2. AllowedBefore(next, tool)' = AllowedBefore(next, tool)
      BY <1>1, <1>2, <3>1
    <3>3. PICK after : after = n + 2
      OBVIOUS
    <3>4. /\ 1 .. after - 1 = (1 .. next - 1) \cup {next}
          /\ results'[next].actual = "allowed" <=> counted
          /\ ToolOf(config'.scenarios[next]) = called
      BY <1>1, <1>2, <1>5, <3>1, <3>3
    <3> HIDE DEF counted
    <3>5. AllowedBefore(after, tool)' =
              AllowedBefore(next, tool)' \cup (IF counted /\ tool = called THEN {next} ELSE {})
      BY <3>4 DEF AllowedBefore
    <3>6. QED
      BY <3>1, <3>2, <3>3, <3>5
  <2>3. n + 1 \notin AllowedBefore(n + 1, tool)
    BY <1>1 DEF AllowedBefore
  <2> DEFINE before == AllowedBefore(n + 1, tool)
  <2> HIDE DEF before, counted
  <2>4. CASE counted /\ tool = called
    <3>1. Cardinality(before \cup {n + 1}) = Cardinality(before) + 1
      BY <2>1, <2>3, FS_AddElement DEF before
    <3>2. QED
      BY <1>6, <2>1, <2>2, <2>4, <3>1 DEF before
  <2>5. CASE ~(counted /\ tool = called)
    BY <1>6, <2>1, <2>2, <2>5
  <2>6. QED
    BY <2>4, <2>5
<1>8. call_counts' = [tool \in Tool |-> Cardinality(AllowedBefore(Len(results) + 1, tool))']
  <2>1. Len(results') + 1 = n + 2
    BY <1>1, <1>2
  <2>2. DOMAIN call_counts' = Tool /\ call_counts' = [tool \in Tool |-> call_counts'[tool]]
    BY <1>6
  <2>3. ASSUME NEW tool \in Tool
        PROVE  call_counts'[tool] = Cardinality(AllowedBefore(Len(results) + 1, tool))'
    BY <1>7, <2>1 DEF AllowedBefore
  <2>4. QED
    BY <2>2, <2>3
<1>9. QED
  BY <1>6, <1>8 DEF Counting

LEMMA CountingKept ==
    ASSUME Progress, Results, Counting, [Next]_vars
    PROVE  Counting'
<1>1. ASSUME UNCHANGED <<config, results, permissionVars>> PROVE Counting'
  BY <1>1 DEF Counting, permissionVars, AllowedBefore
<1>2. CASE /\ phase = "scopes" /\ todo # << >> /\ UNCHANGED <<config, results>>
           /\ Register(Head(todo).tool_name, CompileScope(Head(todo)))
  <2> DEFINE name == Head(todo).tool_name
             scope == CompileScope(Head(todo))
  <2>1. /\ scopes' = [scopes EXCEPT ![name] = scope]
        /\ UNCHANGED <<cumulative_limits, call_counts>>
    BY <1>2 DEF Register
  <2>2. scope.max_calls_per_session \in Int \cup {None}
    <3>1. PICK file : file = config
      OBVIOUS
    <3>2. file \in Config /\ LeftOf(file.tool_scopes) /\ IsList(file.tool_scopes)
      BY <1>2, <3>1, Files DEF Progress
    <3>3. todo[1] = Head(todo) /\ Len(todo) \in Nat \ {0}
      BY <1>2, <3>2, Tailed DEF LeftOf
    <3>4. PICK i \in DOMAIN file.tool_scopes : Head(todo) = file.tool_scopes[i]
      <4>1. /\ Len(file.tool_scopes) \in Nat
            /\ DOMAIN file.tool_scopes = 1 .. Len(file.tool_scopes)
        BY <3>2, Files
      <4>2. /\ Len(todo) <= Len(file.tool_scopes)
            /\ todo[1] = file.tool_scopes[Len(file.tool_scopes) - Len(todo) + 1]
        BY <3>2, <3>3 DEF LeftOf
      <4>3. Len(file.tool_scopes) - Len(todo) + 1 \in DOMAIN file.tool_scopes
        BY <3>3, <4>1, <4>2
      <4>4. QED
        BY <3>3, <4>2, <4>3
    <3>5. scope.max_calls_per_session = Get(Head(todo), "max_calls_per_session", None)
      BY DEF CompileScope
    <3>6. QED
      BY <3>2, <3>4, <3>5, GateAssumption DEF Get
  <2> HIDE DEF scope
  <2>3. /\ DOMAIN scopes' = Tool
        /\ \A tool \in Tool : scopes'[tool] # None =>
               scopes'[tool].max_calls_per_session \in Int \cup {None}
    BY <2>1, <2>2 DEF Counting
  <2>4. QED
    BY <1>2, <2>1, <2>3 DEF Counting, AllowedBefore
<1>3. CASE Next
  <2>1. CASE LoadGateConfig
    BY <1>1, <2>1 DEF LoadGateConfig, Enter, Raise, Stop
  <2>2. CASE BuildPolicyEngine
    BY <1>1, <2>2 DEF BuildPolicyEngine, Enter, Raise, Stop
  <2>3. CASE BuildToolScopes
    BY <1>1, <1>2, <2>3 DEF BuildToolScopes, Enter, Raise, Stop
  <2>4. CASE ScenarioRaises \/ Report
    BY <1>1, <2>4 DEF ScenarioRaises, Report, Raise, Stop
  <2>5. QED
    BY <1>3, <2>1, <2>2, <2>3, <2>4, ScenarioCounted DEF Next
<1>4. CASE UNCHANGED vars
  BY <1>1, <1>4 DEF vars
<1>5. QED
  BY <1>3, <1>4

-----------------------------------------------------------------------------
(* What a scenario decides is what it would decide of a governor of its    *)
(* own, and the steps after it change nothing the two read.                *)

LEMMA OutcomesKept ==
    ASSUME Progress, Results, Counting, \A i \in DOMAIN results : Outcome(i), [Next]_vars
    PROVE  (\A i \in DOMAIN results : Outcome(i))'
<1>1. CASE results' = << >>
  BY <1>1
<1>2. CASE UNCHANGED <<config, results, rules, scopes>>
  BY <1>2 DEF Outcome, ActualOf, Decide, Fits, UsedUp, AllowedBefore
<1>3. CASE RunScenario
  <2>0. PICK n : n = Len(results)
    OBVIOUS
  <2>1. /\ n \in Nat /\ DOMAIN results = 1 .. n
        /\ config \in Config /\ config' = config /\ rules' = rules
        /\ n + 1 \in DOMAIN config.scenarios /\ Head(todo) = config.scenarios[n + 1]
    BY <1>3, <2>0, ScenarioTaken
  <2>2. scopes' = scopes
    BY <1>3 DEF RunScenario, Charge, RecordCall, permissionVars
  <2>3. /\ DOMAIN results' = 1 .. n + 1
        /\ \A i \in 1 .. n : results'[i] = results[i]
        /\ results'[n + 1].actual =
               ActualOf(Head(todo), Permitted(ToolOf(Head(todo)), LevelOf(Head(todo)),
                                              ParamsOf(Head(todo))))
        /\ \A i \in 1 .. n + 1 : \A tool : AllowedBefore(i, tool)' = AllowedBefore(i, tool)
    BY <1>3, <2>0, ResultAdded
  <2>4. /\ \A tool, level, params : Fits(tool, level, params)' <=> Fits(tool, level, params)
        /\ \A scenario : Decide(scenario)' = Decide(scenario)
    BY <2>1, <2>2 DEF Fits, Decide
  <2>5. ASSUME NEW i \in 1 .. n PROVE Outcome(i)'
    <3>1. Outcome(i) /\ results'[i] = results[i] /\ i \in 1 .. n + 1
      BY <2>1, <2>3
    <3>2. \A tool : AllowedBefore(i, tool)' = AllowedBefore(i, tool)
      BY <2>3, <3>1
    <3>3. \A tool : UsedUp(i, tool)' <=> UsedUp(i, tool)
      BY <2>2, <3>2 DEF UsedUp
    <3>4. QED
      BY <2>1, <2>4, <3>1, <3>3 DEF Outcome, ActualOf
  <2>6. ASSUME NEW i, i = n + 1 PROVE Outcome(i)'
    <3>1. PICK scenario : scenario = Head(todo)
      OBVIOUS
    <3> DEFINE tool == ToolOf(scenario)
               fits == Fits(tool, LevelOf(scenario), ParamsOf(scenario))
    <3>2. tool \in Tool \cup {None} /\ scenario = config'.scenarios[i]
      BY <2>1, <2>6, <3>1, ScenarioTools
    <3>3. tool # None =>
              (Permitted(tool, LevelOf(scenario), ParamsOf(scenario))
                   <=> fits /\ ~UsedUp(i, tool))
      BY <2>0, <2>6, <3>2, PermitsUntilUsedUp DEF Results
    <3>4. UsedUp(i, tool) => tool # None
      BY DEF UsedUp
    <3>5. results'[i].actual =
              ActualOf(scenario, Permitted(tool, LevelOf(scenario), ParamsOf(scenario)))
      BY <2>3, <2>6, <3>1
    <3>6. UsedUp(i, tool)' <=> UsedUp(i, tool)
      <4>1. AllowedBefore(i, tool)' = AllowedBefore(i, tool)
        BY <2>1, <2>3, <2>6
      <4>2. QED
        BY <2>2, <4>1 DEF UsedUp
    <3> HIDE DEF fits, tool
    <3>7. results'[i].actual =
              IF ActualOf(scenario, fits) = "allowed" /\ UsedUp(i, tool) THEN "blocked"
              ELSE ActualOf(scenario, fits)
      BY <3>3, <3>4, <3>5 DEF ActualOf, tool
    <3>8. ActualOf(scenario, fits)' = ActualOf(scenario, fits)
      BY <2>4 DEF ActualOf, fits
    <3>9. QED
      BY <3>2, <3>6, <3>7, <3>8 DEF Outcome, fits, tool
  <2>7. \A i \in 1 .. n + 1 : i \in 1 .. n \/ i = n + 1
    BY <2>1
  <2>8. QED
    BY <2>3, <2>5, <2>6, <2>7
<1>4. CASE Next
  <2>1. CASE LoadGateConfig
    BY <1>1, <2>1 DEF LoadGateConfig, Enter, Raise, Stop, Results
  <2>2. CASE BuildPolicyEngine
    BY <1>1, <2>2 DEF BuildPolicyEngine, Enter, Raise, Stop, Results
  <2>3. CASE BuildToolScopes
    BY <1>1, <2>3 DEF BuildToolScopes, Enter, Raise, Stop, Results
  <2>4. CASE ScenarioRaises \/ Report
    BY <1>2, <2>4 DEF ScenarioRaises, Report, Raise, Stop, permissionVars
  <2>5. QED
    BY <1>3, <1>4, <2>1, <2>2, <2>3, <2>4 DEF Next
<1>5. CASE UNCHANGED vars
  BY <1>2, <1>5 DEF vars, permissionVars
<1>6. QED
  BY <1>4, <1>5

-----------------------------------------------------------------------------
LEMMA GateStarts == Init => GateInv
<1> SUFFICES ASSUME Init PROVE GateInv
  OBVIOUS
<1>1. exit = None /\ phase = "load" /\ results = << >>
  BY DEF Init
<1>2. Progress
  BY DEF Init, Progress
<1>3. Results
  BY <1>1 DEF Results, IsList
<1>4. Counting
  <2>1. ASSUME NEW tool \in Tool PROVE Cardinality(AllowedBefore(Len(results) + 1, tool)) = 0
    <3>1. AllowedBefore(Len(results) + 1, tool) = {}
      BY <1>1 DEF AllowedBefore
    <3>2. QED
      BY <3>1, FS_EmptySet
  <2>2. /\ scopes = [tool \in Tool |-> None] /\ cumulative_limits = [l \in LimitId |-> None]
        /\ call_counts = [tool \in Tool |-> 0]
    BY DEF Init, PermissionInit
  <2>3. QED
    BY <2>1, <2>2 DEF Counting
<1>5. ApprovedMeansAsExpected /\ FaultsNeverPass /\ OutcomesAreFresh
  BY <1>1, NoneAssumption DEF ApprovedMeansAsExpected, FaultsNeverPass, OutcomesAreFresh
<1>6. QED
  BY <1>2, <1>3, <1>4, <1>5 DEF GateInv

LEMMA GateKept == GateInv /\ [Next]_vars => GateInv'
<1> SUFFICES ASSUME GateInv, [Next]_vars PROVE GateInv'
  OBVIOUS
<1> USE DEF GateInv
<1>1. Progress' /\ Verdict'
  <2>1. CASE UNCHANGED vars
    <3>1. UNCHANGED <<config, phase, todo, results, exit>>
      BY <2>1 DEF vars
    <3>2. Progress'
      BY <3>1 DEF Progress, LeftOf, Done, RulesSound, ScopesSound, ScenariosSound
    <3>3. Verdict'
      <4>1. ApprovedMeansAsExpected'
        BY <3>1 DEF ApprovedMeansAsExpected
      <4>2. Faults' = Faults
        BY <3>1 DEF Faults
      <4>3. FaultsNeverPass'
        BY <3>1, <4>2 DEF FaultsNeverPass
      <4>4. QED
        BY <4>1, <4>3 DEF Verdict
    <3>4. QED
      BY <3>2, <3>3
  <2>2. CASE Next
    BY <2>2, LoadAdvances, RulesAdvance, ScopesAdvance, ScenariosAdvance, ReportAdvances DEF Next
  <2>3. QED
    BY <2>1, <2>2
<1>2. Results' /\ Counting'
  BY ResultsKept, CountingKept
<1>3. OutcomesAreFresh'
  <2>1. \A i \in DOMAIN results : Outcome(i)
    BY FreshOutcomes
  <2>2. (\A i \in DOMAIN results : Outcome(i))'
    BY <2>1, OutcomesKept
  <2>3. (Results /\ Counting => (OutcomesAreFresh <=> \A i \in DOMAIN results : Outcome(i)))'
    BY FreshOutcomes, PTL
  <2>4. QED
    BY <1>2, <2>2, <2>3
<1>4. QED
  BY <1>1, <1>2, <1>3 DEF Verdict

(* THEOREM: the gate keeps its invariant: where in the file it is, that    *)
(* all behind it is sound, and that the registry counts what it allowed.   *)
THEOREM GateAgrees == Spec => []GateInv
BY GateStarts, GateKept, PTL DEF Spec

(* "Exits 0 if every scenario passed (deployment approved), 1 otherwise"   *)
(* (cli.py:6-8): for any file, exit code 0 means that it declares          *)
(* scenarios and that each came out as it says.                            *)
THEOREM ApprovalIsEarned == Spec => []ApprovedMeansAsExpected
<1>1. GateInv => ApprovedMeansAsExpected
  BY DEF GateInv
<1>2. QED
  BY <1>1, GateAgrees, PTL

(* GateConfigError is "for any malformed or invalid gate configuration"    *)
(* (gate.py:35-38): no file with a dict the gate cannot use is approved,   *)
(* and exit code 2 always means such a dict and no earlier one of another  *)
(* kind.                                                                   *)
THEOREM BrokenFilesNeverPass == Spec => []FaultsNeverPass
<1>1. GateInv => FaultsNeverPass
  BY DEF GateInv
<1>2. QED
  BY <1>1, GateAgrees, PTL

(* A scenario stands for what the deployed agent will do (gate.py:7-16):   *)
(* its outcome is the one a governor just started would give, but for a    *)
(* call cap used up by allowed scenarios before it, which only blocks.     *)
THEOREM ScenariosStandAlone == Spec => []OutcomesAreFresh
<1>1. GateInv => OutcomesAreFresh
  BY DEF GateInv
<1>2. QED
  BY <1>1, GateAgrees, PTL

=============================================================================
