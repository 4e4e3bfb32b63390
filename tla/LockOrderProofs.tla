--------------------------- MODULE LockOrderProofs ---------------------------
(***************************************************************************)
(* What the nesting of the locks guarantees, for any number of threads,    *)
(* calls and failing writes and whatever a constraint calls back: locks    *)
(* are taken in one order, some thread in a call can always go on, and     *)
(* whoever looks at the kill switch finds what the log says of it.         *)
(*                                                                         *)
(* The argument is a discipline every method keeps: a stage says what a    *)
(* thread holds, which word on the switch it owes the log and whether its  *)
(* write is behind it, and each step takes it from one stage to the next.  *)
(***************************************************************************)
EXTENDS LockOrder, FiniteSetTheorems, SequenceTheorems, TLAPS

-----------------------------------------------------------------------------
(* The discipline *)

Stage ==
    {st \in [held : SUBSET Lock, owed : SwitchEvent \cup {"nothing"},
            write : {"ahead", "behind"}] :
         st.owed # "nothing" => "switch" \in st.held}

(* The event that tells the log what the flag was set to. *)
EventFor(flag) == IF flag THEN "kill_switch_engaged" ELSE "kill_switch_cleared"

Takes(lock, b, a) ==
    /\ b.write # "behind"
    /\ \A held \in b.held : Rank[held] < Rank[lock]
    /\ a = [b EXCEPT !.held = @ \cup {lock}]

Leaves(lock, b, a) ==
    /\ lock \in b.held
    /\ lock = "switch" => b.owed = "nothing"
    /\ a = [b EXCEPT !.held = @ \ {lock}]

AtSwitch(b) == b.write # "behind" /\ "switch" \in b.held /\ b.owed = "nothing"

Says(event, b, a) ==
    /\ b.write # "behind"
    /\ event \in SwitchEvent => b.owed = event
    /\ a = IF event \in SwitchEvent THEN [b EXCEPT !.owed = "nothing"] ELSE b

(* What a step may do in stage b, and the stage a it leads to. *)
Follows(step, b, a) ==
    \/ \E lock \in Lock : step = <<"acquire", lock>> /\ Takes(lock, b, a)
    \/ \E lock \in Lock : step = <<"release", lock>> /\ Leaves(lock, b, a)
    \/ \E flag \in BOOLEAN :
           step = <<"set", flag>> /\ AtSwitch(b) /\ a = [b EXCEPT !.owed = EventFor(flag)]
    \/ step = <<"look", None>> /\ AtSwitch(b) /\ a = b
    \/ \E event \in Event : step = <<"append", event>> /\ Says(event, b, a)
    \/ \E event \in Event :
           step = <<"write", event>> /\ b.write # "behind" /\ a = [b EXCEPT !.write = "behind"]

(* Some stages lead through s from stage b to stage a. *)
Leads(h, s) ==
    /\ h \in [1 .. Len(s) + 1 -> Stage]
    /\ \A k \in 1 .. Len(s) : Follows(s[k], h[k], h[k + 1])
    /\ \A k \in 1 .. Len(s) + 1 : \A l \in k .. Len(s) + 1 :
           h[k].write = "behind" => h[l].write = "behind"

Runs(s, b, a) ==
    /\ s \in Seq(Step)
    /\ \E h : Leads(h, s) /\ h[1] = b /\ h[Len(s) + 1] = a

Free(st) == st \in Stage /\ st.held = {} /\ st.owed = "nothing"

Returns(s, b) == \E a \in Stage : Free(a) /\ Runs(s, b, a)

-----------------------------------------------------------------------------
(* How runs are put together and taken apart. *)

LEMMA Locks ==
    /\ Lock = {"registry", "store", "switch", "file", "log"}
    /\ Rank["registry"] = 1 /\ Rank["store"] = 2 /\ Rank["switch"] = 2
    /\ Rank["file"] = 3 /\ Rank["log"] = 4
BY DEF Lock, Rank

LEMMA StepsFollow ==
    ASSUME NEW step, NEW b \in Stage, NEW a, Follows(step, b, a)
    PROVE  /\ step \in Step
           /\ b.write = "behind" => a.write = "behind"
           /\ a \in Stage
<1>1. b = [held |-> b.held, owed |-> b.owed, write |-> b.write]
  BY DEF Stage
<1>2. /\ b.held \in SUBSET Lock /\ b.owed \in SwitchEvent \cup {"nothing"}
      /\ b.write \in {"ahead", "behind"}
      /\ b.owed # "nothing" => "switch" \in b.held
  BY DEF Stage
<1>3. ASSUME NEW lock \in Lock, step = <<"acquire", lock>>, Takes(lock, b, a)
      PROVE  step \in Step /\ (b.write = "behind" => a.write = "behind") /\ a \in Stage
  BY <1>1, <1>2, <1>3 DEF Takes, Stage, Step
<1>4. ASSUME NEW lock \in Lock, step = <<"release", lock>>, Leaves(lock, b, a)
      PROVE  step \in Step /\ (b.write = "behind" => a.write = "behind") /\ a \in Stage
  BY <1>1, <1>2, <1>4 DEF Leaves, Stage, Step
<1>5. ASSUME NEW flag \in BOOLEAN, step = <<"set", flag>>, AtSwitch(b),
             a = [b EXCEPT !.owed = EventFor(flag)]
      PROVE  step \in Step /\ (b.write = "behind" => a.write = "behind") /\ a \in Stage
  BY <1>1, <1>2, <1>5 DEF AtSwitch, Stage, Step, EventFor, SwitchEvent
<1>6. ASSUME step = <<"look", None>>, a = b
      PROVE  step \in Step /\ (b.write = "behind" => a.write = "behind") /\ a \in Stage
  BY <1>6 DEF Step
<1>7. ASSUME NEW event \in Event, step = <<"append", event>>, Says(event, b, a)
      PROVE  step \in Step /\ (b.write = "behind" => a.write = "behind") /\ a \in Stage
  BY <1>1, <1>2, <1>7 DEF Says, Stage, Step
<1>8. ASSUME NEW event \in Event, step = <<"write", event>>, b.write # "behind",
             a = [b EXCEPT !.write = "behind"]
      PROVE  step \in Step /\ (b.write = "behind" => a.write = "behind") /\ a \in Stage
  BY <1>1, <1>2, <1>8 DEF Stage, Step
<1>9. QED
  BY <1>3, <1>4, <1>5, <1>6, <1>7, <1>8 DEF Follows

LEMMA NoStep ==
    ASSUME NEW b \in Stage
    PROVE  Runs(<< >>, b, b)
<1> DEFINE h == [k \in 1 .. 1 |-> b]
<1>1. Len(<< >>) = 0 /\ << >> \in Seq(Step)
  OBVIOUS
<1>2. Leads(h, << >>) /\ h[1] = b
  BY <1>1 DEF Leads
<1>3. QED
  BY <1>1, <1>2 DEF Runs

LEMMA OneStep ==
    ASSUME NEW step, NEW b \in Stage, NEW a, Follows(step, b, a)
    PROVE  Runs(<<step>>, b, a) /\ a \in Stage
<1> DEFINE h == [k \in 1 .. 2 |-> IF k = 1 THEN b ELSE a]
           s == <<step>>
<1>1. step \in Step /\ a \in Stage /\ (b.write = "behind" => a.write = "behind")
  BY StepsFollow
<1>2. s \in Seq(Step) /\ Len(s) = 1 /\ s[1] = step
  BY <1>1
<1>3. h \in [1 .. 2 -> Stage] /\ h[1] = b /\ h[2] = a
  BY <1>1
<1> HIDE DEF h, s
<1>4. Leads(h, s)
  BY <1>1, <1>2, <1>3 DEF Leads
<1>5. Runs(s, b, a)
  BY <1>2, <1>3, <1>4 DEF Runs
<1>6. QED
  BY <1>1, <1>5 DEF s

LEMMA RunsEndInStages ==
    ASSUME NEW s, NEW b, NEW a, Runs(s, b, a)
    PROVE  b \in Stage /\ a \in Stage /\ s \in Seq(Step)
<1>1. PICK h : Leads(h, s) /\ h[1] = b /\ h[Len(s) + 1] = a
  BY DEF Runs
<1>2. s \in Seq(Step) /\ Len(s) \in Nat
  BY DEF Runs
<1>3. QED
  BY <1>1, <1>2 DEF Leads

LEMMA Joined ==
    ASSUME NEW P, NEW r \in Seq(P), NEW s \in Seq(P)
    PROVE  /\ r \o s \in Seq(P) /\ Len(r \o s) = Len(r) + Len(s)
           /\ \A i \in 1 .. Len(r) : (r \o s)[i] = r[i]
           /\ \A i \in 1 .. Len(s) : (r \o s)[Len(r) + i] = s[i]
<1>1. r \o s \in Seq(P) /\ Len(r \o s) = Len(r) + Len(s)
  OBVIOUS
<1>2. \A i \in 1 .. Len(r) : (r \o s)[i] = r[i]
  OBVIOUS
<1>3. \A i \in 1 .. Len(s) : (r \o s)[Len(r) + i] = s[i]
  OBVIOUS
<1>4. QED
  BY <1>1, <1>2, <1>3

LEMMA OneAfterAnother ==
    ASSUME NEW r, NEW s, NEW b, NEW c, NEW a, Runs(r, b, c), Runs(s, c, a)
    PROVE  Runs(r \o s, b, a)
<1>1. PICK f : Leads(f, r) /\ f[1] = b /\ f[Len(r) + 1] = c
  BY DEF Runs
<1>2. PICK g : Leads(g, s) /\ g[1] = c /\ g[Len(s) + 1] = a
  BY DEF Runs
<1> DEFINE m == Len(r)
           n == Len(s)
           t == r \o s
           h == [k \in 1 .. m + n + 1 |-> IF k <= m THEN f[k] ELSE g[k - m]]
<1>3. r \in Seq(Step) /\ s \in Seq(Step) /\ m \in Nat /\ n \in Nat
  BY DEF Runs
<1>4. /\ t \in Seq(Step) /\ Len(t) = m + n
      /\ \A i \in 1 .. m : t[i] = r[i]
      /\ \A i \in 1 .. n : t[m + i] = s[i]
  BY ONLY <1>3, Joined
<1>5. /\ f \in [1 .. m + 1 -> Stage] /\ f[m + 1] = c
      /\ \A k \in 1 .. m : Follows(r[k], f[k], f[k + 1])
      /\ \A k \in 1 .. m + 1 : \A l \in k .. m + 1 : f[k].write = "behind" => f[l].write = "behind"
  BY <1>1 DEF Leads
<1>6. /\ g \in [1 .. n + 1 -> Stage] /\ g[1] = c
      /\ \A k \in 1 .. n : Follows(s[k], g[k], g[k + 1])
      /\ \A k \in 1 .. n + 1 : \A l \in k .. n + 1 : g[k].write = "behind" => g[l].write = "behind"
  BY <1>2 DEF Leads
<1>7. /\ \A k \in 1 .. m + 1 : h[k] = f[k]
      /\ \A k \in 1 .. n + 1 : h[m + k] = g[k]
      /\ h \in [1 .. m + n + 1 -> Stage]
  <2> HIDE DEF m, n
  <2>1. \A k \in 1 .. m + n + 1 : (k <= m /\ k \in 1 .. m + 1) \/ (~(k <= m) /\ k - m \in 1 .. n + 1)
    BY <1>3
  <2>2. \A k \in 1 .. m + n + 1 : h[k] \in Stage
    BY <1>5, <1>6, <2>1
  <2>3. \A k \in 1 .. m + 1 : h[k] = f[k]
    <3>1. \A k \in 1 .. m + 1 : k \in 1 .. m + n + 1 /\ (k <= m \/ (k = m + 1 /\ k - m = 1))
      BY <1>3
    <3>2. QED
      BY <1>5, <1>6, <3>1
  <2>4. \A k \in 1 .. n + 1 : h[m + k] = g[k]
    <3>1. \A k \in 1 .. n + 1 : m + k \in 1 .. m + n + 1 /\ ~(m + k <= m) /\ (m + k) - m = k
      BY <1>3
    <3>2. QED
      BY <3>1
  <2>5. QED
    BY <2>2, <2>3, <2>4
<1> HIDE DEF m, n, t, h
<1>8. \A k \in 1 .. m + n : Follows(t[k], h[k], h[k + 1])
  <2> SUFFICES ASSUME NEW k \in 1 .. m + n PROVE Follows(t[k], h[k], h[k + 1])
    OBVIOUS
  <2>1. CASE k \in 1 .. m
    <3>1. k + 1 \in 1 .. m + 1 /\ k \in 1 .. m + 1
      BY <1>3, <2>1
    <3>2. QED
      BY <1>4, <1>5, <1>7, <2>1, <3>1
  <2>2. CASE k \notin 1 .. m
    <3>1. PICK i \in 1 .. n : k = m + i /\ k + 1 = m + (i + 1) /\ i \in 1 .. n + 1
                              /\ i + 1 \in 1 .. n + 1
      <4>1. k - m \in 1 .. n /\ k = m + (k - m) /\ k + 1 = m + ((k - m) + 1)
            /\ k - m \in 1 .. n + 1 /\ (k - m) + 1 \in 1 .. n + 1
        BY <1>3, <2>2
      <4>2. QED
        BY <4>1
    <3>2. t[k] = s[i] /\ h[k] = g[i] /\ h[k + 1] = g[i + 1]
      BY <1>4, <1>7, <3>1
    <3>3. QED
      BY <1>6, <3>1, <3>2
  <2>3. QED
    BY <2>1, <2>2
<1>9. ASSUME NEW k \in 1 .. m + n + 1, NEW l \in k .. m + n + 1, h[k].write = "behind"
      PROVE  h[l].write = "behind"
  <2>1. CASE l <= m
    <3>1. k \in 1 .. m + 1 /\ l \in k .. m + 1 /\ l \in 1 .. m + 1
      BY <1>3, <2>1
    <3>2. QED
      BY <1>5, <1>7, <1>9, <3>1
  <2>2. CASE ~(k <= m)
    <3>1. /\ k - m \in 1 .. n + 1 /\ l - m \in k - m .. n + 1 /\ l - m \in 1 .. n + 1
          /\ k = m + (k - m) /\ l = m + (l - m)
      BY <1>3, <2>2
    <3>2. h[k] = g[k - m] /\ h[l] = g[l - m]
      BY <1>7, <3>1
    <3>3. QED
      BY <1>6, <1>9, <3>1, <3>2
  <2>3. CASE k <= m /\ ~(l <= m)
    <3>1. /\ k \in 1 .. m + 1 /\ m + 1 \in k .. m + 1
          /\ 1 \in 1 .. n + 1 /\ l - m \in 1 .. n + 1 /\ l = m + (l - m)
      BY <1>3, <2>3
    <3>2. h[k] = f[k] /\ h[l] = g[l - m]
      BY <1>7, <3>1
    <3>3. c.write = "behind"
      BY <1>5, <1>9, <3>1, <3>2
    <3>4. QED
      BY <1>6, <3>1, <3>2, <3>3
  <2>4. QED
    BY <1>3, <2>1, <2>2, <2>3
<1>10. Leads(h, t)
  BY <1>4, <1>7, <1>8, <1>9 DEF Leads
<1>11. h[1] = b /\ h[Len(t) + 1] = a
  <2>1. 1 \in 1 .. m + 1 /\ n + 1 \in 1 .. n + 1 /\ m + (n + 1) = m + n + 1
    BY <1>3
  <2>2. QED
    BY <1>1, <1>2, <1>4, <1>7, <2>1 DEF n
<1>12. QED
  BY <1>4, <1>10, <1>11 DEF Runs, t

LEMMA OneStepOn ==
    ASSUME NEW s, NEW b, NEW a, Runs(s, b, a)
    PROVE  /\ s = << >> => a = b
           /\ s # << >> =>
                \E c \in Stage :
                    /\ Follows(Head(s), b, c)
                    /\ Runs(Tail(s), c, a)
                    /\ c.write = "behind" => a.write = "behind"
           /\ b.write = "behind" => \A k \in 1 .. Len(s) : s[k][1] = "release"
<1>1. PICK h : Leads(h, s) /\ h[1] = b /\ h[Len(s) + 1] = a
  BY DEF Runs
<1>2. s \in Seq(Step) /\ Len(s) \in Nat
  BY DEF Runs
<1> DEFINE n == Len(s)
           r == Tail(s)
           g == [k \in 1 .. n |-> h[k + 1]]
<1>3. /\ h \in [1 .. n + 1 -> Stage]
      /\ \A k \in 1 .. n : Follows(s[k], h[k], h[k + 1])
      /\ \A k \in 1 .. n + 1 : \A l \in k .. n + 1 : h[k].write = "behind" => h[l].write = "behind"
  BY <1>1 DEF Leads
<1>4. s = << >> => a = b
  BY <1>1
<1>5. ASSUME s # << >>
      PROVE  \E c \in Stage :
                 Follows(Head(s), b, c) /\ Runs(r, c, a) /\ (c.write = "behind" => a.write = "behind")
  <2>1. /\ n \in Nat /\ n >= 1 /\ Head(s) = s[1]
        /\ r \in Seq(Step) /\ Len(r) = n - 1
        /\ \A k \in 1 .. n - 1 : r[k] = s[k + 1]
    BY <1>2, <1>5
  <2> HIDE DEF n, r
  <2>2. (n - 1) + 1 = n /\ 1 .. (n - 1) + 1 = 1 .. n
    BY <2>1
  <2>3. /\ g \in [1 .. n -> Stage]
        /\ \A k \in 1 .. n : g[k] = h[k + 1]
    <3>1. \A k \in 1 .. n : k + 1 \in 1 .. n + 1
      BY <2>1
    <3>2. QED
      BY <1>3, <3>1
  <2> HIDE DEF g
  <2>4. ASSUME NEW k \in 1 .. n - 1 PROVE Follows(r[k], g[k], g[k + 1])
    <3>1. k + 1 \in 1 .. n /\ k \in 1 .. n
      BY <2>1
    <3>2. QED
      BY <1>3, <2>1, <2>3, <3>1
  <2>5. ASSUME NEW k \in 1 .. n, NEW l \in k .. n, g[k].write = "behind" PROVE g[l].write = "behind"
    <3>1. k + 1 \in 1 .. n + 1 /\ l + 1 \in (k + 1) .. (n + 1) /\ l \in 1 .. n
      BY <2>1
    <3>2. QED
      BY <1>3, <2>3, <2>5, <3>1
  <2>6. Leads(g, r)
    BY <2>1, <2>2, <2>3, <2>4, <2>5 DEF Leads
  <2>7. 1 \in 1 .. n /\ n \in 1 .. n /\ 1 + 1 = 2 /\ 2 \in 1 .. n + 1 /\ n + 1 \in 2 .. n + 1
    BY <2>1
  <2>8. h[2] \in Stage /\ g[1] = h[2] /\ g[Len(r) + 1] = a
    BY <1>1, <1>3, <2>1, <2>2, <2>3, <2>7 DEF n
  <2>9. Follows(Head(s), b, h[2]) /\ (h[2].write = "behind" => a.write = "behind")
    BY <1>1, <1>3, <2>1, <2>7 DEF n
  <2>10. Runs(r, h[2], a)
    BY <2>1, <2>6, <2>8 DEF Runs
  <2>11. QED
    BY <2>8, <2>9, <2>10
<1>6. ASSUME b.write = "behind", NEW k \in 1 .. n PROVE s[k][1] = "release"
  <2>1. 1 \in 1 .. n + 1 /\ k \in 1 .. n + 1
    BY <1>2
  <2>2. h[k].write = "behind" /\ Follows(s[k], h[k], h[k + 1])
    BY <1>1, <1>3, <1>6, <2>1
  <2>3. QED
    BY <2>2 DEF Follows, Takes, AtSwitch, Says
<1>7. QED
  BY <1>4, <1>5, <1>6

-----------------------------------------------------------------------------
(* Every method keeps the discipline. *)

At(held, owed, write) == [held |-> held, owed |-> owed, write |-> write]

LEMMA Fields ==
    ASSUME NEW held, NEW owed, NEW write, NEW new
    PROVE  /\ At(held, owed, write).held = held
           /\ At(held, owed, write).owed = owed
           /\ At(held, owed, write).write = write
           /\ [At(held, owed, write) EXCEPT !.held = new] = At(new, owed, write)
           /\ [At(held, owed, write) EXCEPT !.owed = new] = At(held, new, write)
           /\ [At(held, owed, write) EXCEPT !.write = new] = At(held, owed, new)
<1>1. /\ At(held, owed, write).held = held
      /\ At(held, owed, write).owed = owed
      /\ At(held, owed, write).write = write
  BY DEF At
<1>2. [At(held, owed, write) EXCEPT !.held = new] = At(new, owed, write)
  BY DEF At
<1>3. [At(held, owed, write) EXCEPT !.owed = new] = At(held, new, write)
  BY DEF At
<1>4. [At(held, owed, write) EXCEPT !.write = new] = At(held, owed, new)
  BY DEF At
<1>5. QED
  BY <1>1, <1>2, <1>3, <1>4

LEMMA Within ==
    ASSUME NEW lock \in Lock, NEW body, NEW held \in SUBSET Lock, NEW owed, NEW then, NEW write,
           At(held, owed, "ahead") \in Stage,
           \A other \in held : Rank[other] < Rank[lock],
           Runs(body, At(held \cup {lock}, owed, "ahead"), At(held \cup {lock}, then, write)),
           lock = "switch" => then = "nothing"
    PROVE  Runs(With(lock, body), At(held, owed, "ahead"), At(held, then, write))
<1> DEFINE inside == At(held \cup {lock}, owed, "ahead")
           end == At(held \cup {lock}, then, write)
<1>1. lock \notin held
  BY Locks
<1>2. Follows(<<"acquire", lock>>, At(held, owed, "ahead"), inside)
  <2>1. At(held, owed, "ahead").write # "behind" /\ At(held, owed, "ahead").held = held
    BY ONLY Fields
  <2>2. inside = [At(held, owed, "ahead") EXCEPT !.held = @ \cup {lock}]
    BY DEF At
  <2> HIDE DEF inside
  <2>3. Takes(lock, At(held, owed, "ahead"), inside)
    BY <2>1, <2>2 DEF Takes
  <2>4. QED
    BY <2>3 DEF Follows
<1>3. Runs(<< <<"acquire", lock>> >>, At(held, owed, "ahead"), inside)
  BY ONLY <1>2, OneStep, At(held, owed, "ahead") \in Stage
<1>4. end \in Stage
  BY RunsEndInStages
<1>5. Follows(<<"release", lock>>, end, At(held, then, write))
  <2>1. At(held, then, write) = [end EXCEPT !.held = @ \ {lock}]
    BY <1>1 DEF At
  <2>2. Leaves(lock, end, At(held, then, write))
    BY <2>1 DEF Leaves, At
  <2>3. QED
    BY <2>2 DEF Follows
<1>6. Runs(<< <<"release", lock>> >>, end, At(held, then, write))
  BY ONLY <1>4, <1>5, OneStep
<1> HIDE DEF inside, end
<1>7. Runs(body, inside, end)
  BY DEF inside, end
<1>8. Runs(<< <<"acquire", lock>> >> \o body, At(held, owed, "ahead"), end)
  BY ONLY <1>3, <1>7, OneAfterAnother
<1>9. Runs((<< <<"acquire", lock>> >> \o body) \o << <<"release", lock>> >>,
           At(held, owed, "ahead"), At(held, then, write))
  BY ONLY <1>6, <1>8, OneAfterAnother
<1>10. QED
  BY <1>9 DEF With

LEMMA AppendRuns ==
    ASSUME NEW event \in Event, NEW held \in SUBSET {"registry", "store", "switch"}, NEW owed,
           At(held, owed, "ahead") \in Stage,
           event \in SwitchEvent => owed = event
    PROVE  Runs(AuditAppend(event), At(held, owed, "ahead"),
                At(held, IF event \in SwitchEvent THEN "nothing" ELSE owed, "behind"))
<1> DEFINE then == IF event \in SwitchEvent THEN "nothing" ELSE owed
           fileheld == held \cup {"file"}
           bothheld == fileheld \cup {"log"}
<1>1. /\ held \in SUBSET Lock /\ fileheld \in SUBSET Lock
      /\ "file" \in Lock /\ "log" \in Lock
      /\ \A other \in held : Rank[other] < Rank["file"]
      /\ \A other \in fileheld : Rank[other] < Rank["log"]
  BY Locks
<1>2. /\ owed \in SwitchEvent \cup {"nothing"}
      /\ owed # "nothing" => "switch" \in held
  BY DEF At, Stage
<1>3. /\ At(fileheld, owed, "ahead") \in Stage /\ At(bothheld, owed, "ahead") \in Stage
      /\ At(fileheld, then, "ahead") \in Stage /\ At(bothheld, then, "ahead") \in Stage
  BY <1>1, <1>2 DEF At, Stage
<1>4. Follows(<<"append", event>>, At(bothheld, owed, "ahead"), At(bothheld, then, "ahead"))
  <2>1. Says(event, At(bothheld, owed, "ahead"), At(bothheld, then, "ahead"))
    BY DEF Says, At
  <2>2. QED
    BY <2>1 DEF Follows
<1>5. Follows(<<"write", event>>, At(fileheld, then, "ahead"), At(fileheld, then, "behind"))
  <2> HIDE DEF fileheld, then
  <2>1. /\ At(fileheld, then, "behind") = [At(fileheld, then, "ahead") EXCEPT !.write = "behind"]
        /\ At(fileheld, then, "ahead").write # "behind"
    BY ONLY Fields
  <2>2. QED
    BY <2>1 DEF Follows
<1> HIDE DEF bothheld, fileheld, then
<1>6. Runs(<< <<"append", event>> >>, At(bothheld, owed, "ahead"), At(bothheld, then, "ahead"))
  BY ONLY <1>3, <1>4, OneStep
<1>7. Runs(<< <<"append", event>> >>, At(fileheld \cup {"log"}, owed, "ahead"),
           At(fileheld \cup {"log"}, then, "ahead"))
  BY <1>6 DEF bothheld
<1>8. Runs(With("log", << <<"append", event>> >>), At(fileheld, owed, "ahead"),
           At(fileheld, then, "ahead"))
  <2>1. "log" # "switch"
    OBVIOUS
  <2>2. QED
    BY ONLY <1>1, <1>3, <1>7, <2>1, Within
<1>9. Runs(<< <<"write", event>> >>, At(fileheld, then, "ahead"), At(fileheld, then, "behind"))
  BY ONLY <1>3, <1>5, OneStep
<1>10. Runs(With("log", << <<"append", event>> >>) \o << <<"write", event>> >>,
            At(fileheld, owed, "ahead"), At(fileheld, then, "behind"))
  BY ONLY <1>8, <1>9, OneAfterAnother
<1>11. Runs(With("log", << <<"append", event>> >>) \o << <<"write", event>> >>,
            At(held \cup {"file"}, owed, "ahead"), At(held \cup {"file"}, then, "behind"))
  BY <1>10 DEF fileheld
<1>12. Runs(With("file", With("log", << <<"append", event>> >>) \o << <<"write", event>> >>),
            At(held, owed, "ahead"), At(held, then, "behind"))
  <2>1. "file" # "switch"
    OBVIOUS
  <2>2. QED
    BY ONLY <1>1, <1>11, <2>1, Within, At(held, owed, "ahead") \in Stage
<1>13. QED
  BY <1>12 DEF AuditAppend, then

Start == At({}, "nothing", "ahead")

LEMMA Starts ==
    /\ Start \in Stage
    /\ At({"registry"}, "nothing", "ahead") \in Stage
    /\ \A write \in {"ahead", "behind"} : Free(At({}, "nothing", write))
BY Locks DEF Start, At, Stage, Free

(* A method a constraint may call, made with or without the registry held. *)
LEMMA ReadersRun ==
    ASSUME NEW held \in SUBSET {"registry"}
    PROVE  /\ Runs(Entries, At(held, "nothing", "ahead"), At(held, "nothing", "ahead"))
           /\ Runs(Look, At(held, "nothing", "ahead"), At(held, "nothing", "ahead"))
           /\ Runs(Get, At(held, "nothing", "ahead"), At(held, "nothing", "ahead"))
<1>1. /\ held \in SUBSET Lock /\ "log" \in Lock /\ "store" \in Lock /\ "switch" \in Lock
      /\ \A other \in held : Rank[other] < Rank["log"]
      /\ \A other \in held : Rank[other] < Rank["store"]
      /\ \A other \in held : Rank[other] < Rank["switch"]
  BY Locks
<1>2. /\ At(held, "nothing", "ahead") \in Stage
      /\ \A lock \in Lock : At(held \cup {lock}, "nothing", "ahead") \in Stage
  BY <1>1 DEF At, Stage
<1>3. \A lock \in Lock :
          Runs(<< >>, At(held \cup {lock}, "nothing", "ahead"),
               At(held \cup {lock}, "nothing", "ahead"))
  BY ONLY <1>2, NoStep
<1>4. ASSUME NEW lock \in Lock, \A other \in held : Rank[other] < Rank[lock]
      PROVE  Runs(With(lock, << >>), At(held, "nothing", "ahead"), At(held, "nothing", "ahead"))
  BY ONLY <1>1, <1>2, <1>3, <1>4, Within
<1>5. Runs(With("log", << >>), At(held, "nothing", "ahead"), At(held, "nothing", "ahead"))
      /\ Runs(With("store", << >>), At(held, "nothing", "ahead"), At(held, "nothing", "ahead"))
  BY ONLY <1>1, <1>4
<1>6. Runs(<< <<"look", None>> >>, At(held \cup {"switch"}, "nothing", "ahead"),
           At(held \cup {"switch"}, "nothing", "ahead"))
  <2>1. AtSwitch(At(held \cup {"switch"}, "nothing", "ahead"))
    BY DEF AtSwitch, At
  <2>2. Follows(<<"look", None>>, At(held \cup {"switch"}, "nothing", "ahead"),
                At(held \cup {"switch"}, "nothing", "ahead"))
    BY <2>1 DEF Follows
  <2>3. QED
    BY ONLY <1>1, <1>2, <2>2, OneStep
<1>7. Runs(With("switch", << <<"look", None>> >>), At(held, "nothing", "ahead"),
           At(held, "nothing", "ahead"))
  BY ONLY <1>1, <1>2, <1>6, Within
<1>8. QED
  BY <1>5, <1>7 DEF Entries, Look, Get

(* engage() and clear() say in the log what they did to the flag before    *)
(* they let go of the switch.                                              *)
LEMMA SwitchRuns ==
    ASSUME NEW flag \in BOOLEAN
    PROVE  Runs(With("switch", << <<"set", flag>> >> \o AuditAppend(EventFor(flag))),
                Start, At({}, "nothing", "behind"))
<1>1. /\ {} \in SUBSET Lock /\ "switch" \in Lock /\ {} \cup {"switch"} = {"switch"}
      /\ {"switch"} \in SUBSET {"registry", "store", "switch"}
      /\ \A other \in {} : Rank[other] < Rank["switch"]
  BY Locks
<1>2. EventFor(flag) \in SwitchEvent /\ EventFor(flag) \in Event
  BY DEF EventFor, SwitchEvent, Event
<1>3. /\ At({"switch"}, "nothing", "ahead") \in Stage
      /\ At({"switch"}, EventFor(flag), "ahead") \in Stage
  BY <1>1, <1>2 DEF At, Stage
<1>4. Runs(<< <<"set", flag>> >>, At({"switch"}, "nothing", "ahead"),
           At({"switch"}, EventFor(flag), "ahead"))
  <2>1. /\ AtSwitch(At({"switch"}, "nothing", "ahead"))
        /\ At({"switch"}, EventFor(flag), "ahead")
               = [At({"switch"}, "nothing", "ahead") EXCEPT !.owed = EventFor(flag)]
    BY Fields DEF AtSwitch
  <2>2. Follows(<<"set", flag>>, At({"switch"}, "nothing", "ahead"),
                At({"switch"}, EventFor(flag), "ahead"))
    BY <2>1 DEF Follows
  <2>3. QED
    BY ONLY <1>3, <2>2, OneStep
<1>5. Runs(AuditAppend(EventFor(flag)), At({"switch"}, EventFor(flag), "ahead"),
           At({"switch"}, "nothing", "behind"))
  <2>1. Runs(AuditAppend(EventFor(flag)), At({"switch"}, EventFor(flag), "ahead"),
             At({"switch"}, IF EventFor(flag) \in SwitchEvent THEN "nothing" ELSE EventFor(flag),
                "behind"))
    BY ONLY <1>1, <1>2, <1>3, AppendRuns
  <2>2. QED
    BY <1>2, <2>1
<1>6. Runs(<< <<"set", flag>> >> \o AuditAppend(EventFor(flag)),
           At({} \cup {"switch"}, "nothing", "ahead"), At({} \cup {"switch"}, "nothing", "behind"))
  BY ONLY <1>1, <1>4, <1>5, OneAfterAnother
<1>7. At({}, "nothing", "ahead") \in Stage
  BY Starts DEF Start
<1>8. Runs(With("switch", << <<"set", flag>> >> \o AuditAppend(EventFor(flag))),
           At({}, "nothing", "ahead"), At({}, "nothing", "behind"))
  BY ONLY <1>1, <1>6, <1>7, Within
<1>9. QED
  BY <1>8 DEF Start

LEMMA LoggedAfter ==
    ASSUME NEW body, NEW event \in Event \ SwitchEvent, Runs(body, Start, Start)
    PROVE  Runs(body \o AuditAppend(event), Start, At({}, "nothing", "behind"))
<1>1. {} \in SUBSET {"registry", "store", "switch"} /\ event \in Event /\ event \notin SwitchEvent
  OBVIOUS
<1>2. At({}, "nothing", "ahead") \in Stage
  BY Starts DEF Start
<1>3. Runs(AuditAppend(event), At({}, "nothing", "ahead"),
           At({}, IF event \in SwitchEvent THEN "nothing" ELSE "nothing", "behind"))
  BY ONLY <1>1, <1>2, AppendRuns
<1>4. Runs(AuditAppend(event), Start, At({}, "nothing", "behind"))
  BY <1>3 DEF Start
<1>5. QED
  BY ONLY <1>4, OneAfterAnother, Runs(body, Start, Start)

(* The constraints that leave the registry alone. *)
Quiet == {<< >>, Entries, Look, Get}

LEMMA ConstraintsRun ==
    ASSUME NEW constraint \in Quiet
    PROVE  Runs(constraint, At({"registry"}, "nothing", "ahead"), At({"registry"}, "nothing", "ahead"))
<1>1. \/ constraint = << >>
      \/ constraint = Entries
      \/ constraint = Look
      \/ constraint = Get
  BY DEF Quiet
<1>2. CASE constraint = << >>
  BY ONLY <1>2, NoStep, Starts
<1>3. CASE constraint # << >>
  <2>1. {"registry"} \in SUBSET {"registry"}
    OBVIOUS
  <2>2. /\ Runs(Entries, At({"registry"}, "nothing", "ahead"), At({"registry"}, "nothing", "ahead"))
        /\ Runs(Look, At({"registry"}, "nothing", "ahead"), At({"registry"}, "nothing", "ahead"))
        /\ Runs(Get, At({"registry"}, "nothing", "ahead"), At({"registry"}, "nothing", "ahead"))
    BY ONLY <2>1, ReadersRun
  <2>3. QED
    BY <1>1, <1>3, <2>2
<1>4. QED
  BY <1>2, <1>3

(* A thread that would wait for itself: it asks for the registry to check  *)
(* a call and then, from the constraint, once more.                        *)
Entangled(s, b) ==
    /\ "requires_approval" \in Callback
    /\ s \in Seq(Step) /\ b \in Stage /\ b.owed = "nothing" /\ b.write = "ahead"
    /\ \/ b.held = {} /\ Len(s) >= 2
          /\ s[1] = <<"acquire", "registry">> /\ s[2] = <<"acquire", "registry">>
       \/ b.held = {"registry"} /\ Len(s) >= 1 /\ s[1] = <<"acquire", "registry">>

Keeps(s, b) == Returns(s, b) \/ Entangled(s, b)

LEMMA RegistryRuns ==
    ASSUME NEW body,
           Runs(body, At({"registry"}, "nothing", "ahead"), At({"registry"}, "nothing", "ahead"))
    PROVE  Runs(With("registry", body), Start, Start)
<1>1. /\ {} \in SUBSET Lock /\ "registry" \in Lock /\ {} \cup {"registry"} = {"registry"}
      /\ \A other \in {} : Rank[other] < Rank["registry"]
      /\ "registry" # "switch"
  BY Locks
<1>2. At({}, "nothing", "ahead") \in Stage
  BY Starts DEF Start
<1>3. Runs(body, At({} \cup {"registry"}, "nothing", "ahead"),
           At({} \cup {"registry"}, "nothing", "ahead"))
  BY <1>1
<1>4. Runs(With("registry", body), At({}, "nothing", "ahead"), At({}, "nothing", "ahead"))
  BY ONLY <1>1, <1>2, <1>3, Within
<1>5. QED
  BY <1>4 DEF Start

LEMMA PermitRuns ==
    ASSUME NEW constraint \in Quiet
    PROVE  Runs(Permit(constraint), Start, At({}, "nothing", "behind"))
<1>1. Runs(With("registry", constraint), Start, Start)
  BY ConstraintsRun, RegistryRuns
<1>2. "tool_call_allowed" \in Event \ SwitchEvent
  BY DEF Event, SwitchEvent
<1>3. Runs(With("registry", constraint) \o AuditAppend("tool_call_allowed"), Start,
           At({}, "nothing", "behind"))
  BY ONLY <1>1, <1>2, LoggedAfter
<1>4. QED
  BY <1>3 DEF Permit

LEMMA RefuseRuns ==
    ASSUME NEW constraint \in Quiet
    PROVE  Runs(Refuse(constraint), Start, At({}, "nothing", "behind"))
<1>1. /\ {} \in SUBSET Lock /\ "registry" \in Lock /\ {} \cup {"registry"} = {"registry"}
      /\ {"registry"} \in SUBSET {"registry", "store", "switch"}
      /\ \A other \in {} : Rank[other] < Rank["registry"]
      /\ "registry" # "switch"
  BY Locks
<1>2. "tool_call_denied" \in Event /\ "tool_call_denied" \notin SwitchEvent
  BY DEF Event, SwitchEvent
<1>3. At({"registry"}, "nothing", "ahead") \in Stage /\ At({}, "nothing", "ahead") \in Stage
  BY Starts DEF Start
<1>4. Runs(AuditAppend("tool_call_denied"), At({"registry"}, "nothing", "ahead"),
           At({"registry"}, IF "tool_call_denied" \in SwitchEvent THEN "nothing" ELSE "nothing",
              "behind"))
  BY ONLY <1>1, <1>2, <1>3, AppendRuns
<1>5. Runs(AuditAppend("tool_call_denied"), At({"registry"}, "nothing", "ahead"),
           At({"registry"}, "nothing", "behind"))
  BY <1>4
<1>6. Runs(constraint, At({"registry"}, "nothing", "ahead"), At({"registry"}, "nothing", "ahead"))
  BY ConstraintsRun
<1>7. Runs(constraint \o AuditAppend("tool_call_denied"),
           At({} \cup {"registry"}, "nothing", "ahead"), At({} \cup {"registry"}, "nothing", "behind"))
  BY ONLY <1>1, <1>5, <1>6, OneAfterAnother
<1>8. Runs(With("registry", constraint \o AuditAppend("tool_call_denied")),
           At({}, "nothing", "ahead"), At({}, "nothing", "behind"))
  BY ONLY <1>1, <1>3, <1>7, Within
<1>9. QED
  BY <1>8 DEF Refuse, Start

LEMMA SeqOfSteps ==
    /\ \A lock \in Lock : << <<"acquire", lock>> >> \in Seq(Step)
    /\ \A lock \in Lock : << <<"release", lock>> >> \in Seq(Step)
    /\ \A event \in Event : << <<"append", event>> >> \in Seq(Step)
    /\ \A event \in Event : << <<"write", event>> >> \in Seq(Step)
    /\ \A lock \in Lock, body \in Seq(Step) : With(lock, body) \in Seq(Step)
    /\ \A event \in Event : AuditAppend(event) \in Seq(Step)
<1>1. /\ \A lock \in Lock : << <<"acquire", lock>> >> \in Seq(Step)
      /\ \A lock \in Lock : << <<"release", lock>> >> \in Seq(Step)
      /\ \A event \in Event : << <<"append", event>> >> \in Seq(Step)
      /\ \A event \in Event : << <<"write", event>> >> \in Seq(Step)
  BY DEF Step
<1>2. ASSUME NEW lock \in Lock, NEW body \in Seq(Step) PROVE With(lock, body) \in Seq(Step)
  <2>1. << <<"acquire", lock>> >> \o body \in Seq(Step)
    BY ONLY <1>1, Joined
  <2>2. (<< <<"acquire", lock>> >> \o body) \o << <<"release", lock>> >> \in Seq(Step)
    BY ONLY <1>1, <2>1, Joined
  <2>3. QED
    BY <2>2 DEF With
<1>3. ASSUME NEW event \in Event PROVE AuditAppend(event) \in Seq(Step)
  <2>1. "log" \in Lock /\ "file" \in Lock
    BY Locks
  <2>2. With("log", << <<"append", event>> >>) \in Seq(Step)
    BY ONLY <1>1, <1>2, <2>1
  <2>3. With("log", << <<"append", event>> >>) \o << <<"write", event>> >> \in Seq(Step)
    BY ONLY <1>1, <2>2, Joined
  <2>4. With("file", With("log", << <<"append", event>> >>) \o << <<"write", event>> >>)
            \in Seq(Step)
    BY ONLY <1>2, <2>1, <2>3
  <2>5. QED
    BY <2>4 DEF AuditAppend
<1>4. QED
  BY <1>1, <1>2, <1>3

LEMMA StepBefore ==
    ASSUME NEW step \in Step, NEW q \in Seq(Step)
    PROVE  /\ <<step>> \o q \in Seq(Step) /\ Len(<<step>> \o q) >= 1
           /\ (<<step>> \o q)[1] = step
           /\ Len(q) >= 1 => /\ Len(<<step>> \o q) >= 2
                              /\ (<<step>> \o q)[2] = q[1]
<1> DEFINE p == <<step>>
<1>1. p \in Seq(Step) /\ Len(p) = 1 /\ p[1] = step
  OBVIOUS
<1> HIDE DEF p
<1>2. /\ p \o q \in Seq(Step) /\ Len(p \o q) = Len(p) + Len(q)
      /\ \A i \in 1 .. Len(p) : (p \o q)[i] = p[i]
      /\ \A i \in 1 .. Len(q) : (p \o q)[Len(p) + i] = q[i]
  BY ONLY <1>1, Joined, q \in Seq(Step)
<1>3. Len(q) \in Nat
  OBVIOUS
<1>4. Len(p \o q) >= 1 /\ (p \o q)[1] = step
  BY ONLY <1>1, <1>2, <1>3
<1>5. ASSUME Len(q) >= 1 PROVE Len(p \o q) >= 2 /\ (p \o q)[2] = q[1]
  <2>1. 1 \in 1 .. Len(q) /\ Len(p) + 1 = 2
    BY ONLY <1>1, <1>3, <1>5
  <2>2. (p \o q)[Len(p) + 1] = q[1]
    BY ONLY <1>2, <2>1
  <2>3. (p \o q)[2] = q[1]
    BY ONLY <2>1, <2>2
  <2>4. QED
    BY ONLY <1>1, <1>2, <1>3, <1>5, <2>3
<1>6. QED
  BY <1>2, <1>4, <1>5 DEF p

LEMMA StepsAfter ==
    ASSUME NEW p \in Seq(Step), NEW q \in Seq(Step)
    PROVE  /\ p \o q \in Seq(Step)
           /\ Len(p) >= 1 => Len(p \o q) >= 1 /\ (p \o q)[1] = p[1]
           /\ Len(p) >= 2 => Len(p \o q) >= 2 /\ (p \o q)[2] = p[2]
<1>1. /\ p \o q \in Seq(Step) /\ Len(p \o q) = Len(p) + Len(q)
      /\ \A i \in 1 .. Len(p) : (p \o q)[i] = p[i]
  BY ONLY Joined, p \in Seq(Step), q \in Seq(Step)
<1>2. Len(p) \in Nat /\ Len(q) \in Nat
  OBVIOUS
<1>3. Len(p) >= 1 => 1 \in 1 .. Len(p) /\ Len(p \o q) >= 1
  BY ONLY <1>1, <1>2
<1>4. Len(p) >= 2 => 2 \in 1 .. Len(p) /\ Len(p \o q) >= 2
  BY ONLY <1>1, <1>2
<1>5. QED
  BY ONLY <1>1, <1>3, <1>4

LEMMA EntangledBefore ==
    ASSUME NEW s, Entangled(s, Start), NEW r \in Seq(Step)
    PROVE  Entangled(s \o r, Start)
<1>1. Start.held = {} /\ {} # {"registry"}
  BY Fields DEF Start
<1>2. /\ "requires_approval" \in Callback
      /\ Start \in Stage /\ Start.owed = "nothing" /\ Start.write = "ahead"
      /\ s \in Seq(Step) /\ Len(s) >= 2
      /\ s[1] = <<"acquire", "registry">> /\ s[2] = <<"acquire", "registry">>
  BY <1>1 DEF Entangled
<1>3. Len(s) \in Nat /\ Len(s) >= 1
  BY <1>2
<1>4. /\ s \o r \in Seq(Step) /\ Len(s \o r) >= 2
      /\ (s \o r)[1] = s[1] /\ (s \o r)[2] = s[2]
  BY ONLY <1>2, <1>3, StepsAfter, r \in Seq(Step)
<1> DEFINE whole == s \o r
<1>5. whole \in Seq(Step) /\ Len(whole) >= 2 /\ whole[1] = s[1] /\ whole[2] = s[2]
  BY ONLY <1>4
<1> HIDE DEF whole
<1>6. Entangled(whole, Start)
  BY <1>1, <1>2, <1>5 DEF Entangled
<1>7. QED
  BY <1>6 DEF whole

LEMMA Entangles ==
    ASSUME "requires_approval" \in Callback, NEW r \in Seq(Step)
    PROVE  Entangled(With("registry", RequiresApproval \o r), Start)
<1> DEFINE ask == <<"acquire", "registry">>
           answer == << <<"release", "registry">> >>
           again == RequiresApproval \o r
           twice == <<ask>> \o again
<1>1. "registry" \in Lock /\ << >> \in Seq(Step) /\ ask \in Step
  BY Locks DEF Step
<1>2. answer \in Seq(Step)
  BY ONLY <1>1, SeqOfSteps
<1>3. RequiresApproval = (<<ask>> \o << >>) \o answer
  BY DEF RequiresApproval, With
<1>4. With("registry", again) = twice \o answer
  BY DEF With
<1> HIDE DEF ask, answer, again, twice
<1>5. /\ <<ask>> \o << >> \in Seq(Step) /\ Len(<<ask>> \o << >>) >= 1
      /\ (<<ask>> \o << >>)[1] = ask
  BY ONLY <1>1, StepBefore
<1>6. /\ (<<ask>> \o << >>) \o answer \in Seq(Step)
      /\ Len((<<ask>> \o << >>) \o answer) >= 1
      /\ ((<<ask>> \o << >>) \o answer)[1] = (<<ask>> \o << >>)[1]
  BY ONLY <1>2, <1>5, StepsAfter
<1>7. /\ RequiresApproval \in Seq(Step) /\ Len(RequiresApproval) >= 1
      /\ RequiresApproval[1] = ask
  BY ONLY <1>3, <1>5, <1>6, Zenon
<1>8. again \in Seq(Step) /\ Len(again) >= 1 /\ again[1] = RequiresApproval[1]
  BY ONLY <1>7, StepsAfter, r \in Seq(Step) DEF again
<1>9. /\ twice \in Seq(Step) /\ Len(twice) >= 2
      /\ twice[1] = ask /\ twice[2] = again[1]
  BY ONLY <1>1, <1>8, StepBefore DEF twice
<1>10. Start \in Stage /\ Start.owed = "nothing" /\ Start.write = "ahead" /\ Start.held = {}
  BY Starts, Fields DEF Start
<1>11. Entangled(twice, Start)
  BY <1>7, <1>8, <1>9, <1>10 DEF Entangled, ask
<1>12. Entangled(twice \o answer, Start)
  BY ONLY <1>2, <1>11, EntangledBefore
<1>13. With("registry", again) = With("registry", RequiresApproval \o r)
  BY DEF again
<1>14. QED
  BY ONLY <1>4, <1>12, <1>13, Zenon

LEMMA MethodsKeep ==
    ASSUME NEW method \in Method
    PROVE  Keeps(method, Start)
<1>1. Free(Start) /\ Free(At({}, "nothing", "behind"))
  BY Starts DEF Start
<1>2. \/ method \in {Engage, Clear, Look, Entries, Resolve, RequiresApproval}
      \/ \E constraint \in Constraint : method \in {Permit(constraint), Refuse(constraint)}
  BY DEF Method
<1>3. Start \in Stage /\ Start = At({}, "nothing", "ahead")
  BY Starts DEF Start
<1>4. CASE method \in {Engage, Clear}
  <2>1. EventFor(TRUE) = "kill_switch_engaged" /\ EventFor(FALSE) = "kill_switch_cleared"
    BY DEF EventFor
  <2>2. /\ Runs(With("switch", << <<"set", TRUE>> >> \o AuditAppend(EventFor(TRUE))),
                Start, At({}, "nothing", "behind"))
        /\ Runs(With("switch", << <<"set", FALSE>> >> \o AuditAppend(EventFor(FALSE))),
                Start, At({}, "nothing", "behind"))
    BY SwitchRuns
  <2>3. Runs(Engage, Start, At({}, "nothing", "behind"))
        /\ Runs(Clear, Start, At({}, "nothing", "behind"))
    BY <2>1, <2>2 DEF Engage, Clear
  <2>4. QED
    BY <1>1, <1>4, <2>3, Starts DEF Keeps, Returns, Free
<1>5. CASE method \in {Look, Entries}
  <2>1. {} \in SUBSET {"registry"}
    OBVIOUS
  <2>2. Runs(Look, Start, Start) /\ Runs(Entries, Start, Start)
    BY <1>3, <2>1, ReadersRun
  <2>3. QED
    BY <1>1, <1>3, <1>5, <2>2 DEF Keeps, Returns
<1>6. CASE method = Resolve
  <2>1. {} \in SUBSET {"registry"} /\ "hitl_checkpoint" \in Event \ SwitchEvent
    BY DEF Event, SwitchEvent
  <2>2. Runs(With("store", << >>), Start, Start)
    BY <1>3, <2>1, ReadersRun DEF Get
  <2>3. Runs(With("store", << >>) \o AuditAppend("hitl_checkpoint"), Start,
             At({}, "nothing", "behind"))
    BY ONLY <2>1, <2>2, LoggedAfter
  <2>4. QED
    BY <1>1, <1>6, <2>3 DEF Keeps, Returns, Free, Resolve
<1>7. CASE method = RequiresApproval
  <2>1. Runs(With("registry", << >>), Start, Start)
    BY ONLY NoStep, RegistryRuns, Starts
  <2>2. QED
    BY <1>1, <1>3, <1>7, <2>1 DEF Keeps, Returns, RequiresApproval
<1>8. ASSUME NEW constraint \in Constraint, method \in {Permit(constraint), Refuse(constraint)}
      PROVE  Keeps(method, Start)
  <2>1. CASE constraint \in Quiet
    <3>1. Runs(Permit(constraint), Start, At({}, "nothing", "behind"))
          /\ Runs(Refuse(constraint), Start, At({}, "nothing", "behind"))
      BY ONLY <2>1, PermitRuns, RefuseRuns
    <3>2. QED
      BY <1>1, <1>8, <3>1 DEF Keeps, Returns, Free
  <2>2. CASE constraint = RequiresApproval /\ "requires_approval" \in Callback
    <3>1. /\ AuditAppend("tool_call_allowed") \in Seq(Step)
          /\ AuditAppend("tool_call_denied") \in Seq(Step)
      BY SeqOfSteps DEF Event
    <3>2. CASE method = Refuse(constraint)
      <4>1. Entangled(With("registry", RequiresApproval \o AuditAppend("tool_call_denied")), Start)
        BY <2>2, <3>1, Entangles
      <4>2. QED
        BY <2>2, <3>2, <4>1 DEF Keeps, Refuse
    <3>3. CASE method = Permit(constraint)
      <4>1. "registry" \in Lock /\ << >> \in Seq(Step)
        BY Locks
      <4>2. RequiresApproval \in Seq(Step)
        BY ONLY <4>1, SeqOfSteps DEF RequiresApproval
      <4> DEFINE whole == With("registry", RequiresApproval)
      <4>3. RequiresApproval \o << >> = RequiresApproval
        BY <4>2
      <4>4. Entangled(whole, Start)
        BY <2>2, <4>1, <4>3, Entangles
      <4> HIDE DEF whole
      <4>5. Entangled(whole \o AuditAppend("tool_call_allowed"), Start)
        BY ONLY <3>1, <4>4, EntangledBefore
      <4>6. QED
        BY <2>2, <3>3, <4>5 DEF Keeps, Permit, whole
    <3>4. QED
      BY <1>8, <3>2, <3>3
  <2>3. ASSUME constraint # << >>
        PROVE  \/ constraint \in Quiet
               \/ constraint = RequiresApproval /\ "requires_approval" \in Callback
    <3>1. PICK name \in Callback : constraint = Body[name]
      BY <2>3 DEF Constraint
    <3>2. /\ Body["entries"] = Entries /\ Body["look"] = Look /\ Body["get"] = Get
          /\ Body["requires_approval"] = RequiresApproval
      BY DEF Body
    <3>3. name \in {"entries", "look", "get", "requires_approval"}
      BY LockAssumption
    <3>4. QED
      BY <3>1, <3>2, <3>3 DEF Quiet
  <2>4. << >> \in Quiet
    BY DEF Quiet
  <2>5. QED
    BY <2>1, <2>2, <2>3, <2>4
<1>9. QED
  BY <1>2, <1>4, <1>5, <1>6, <1>7, <1>8

(* A write that raises leaves what comes after a write that does not: all  *)
(* that is left of a method after its write is releases.                   *)
LEMMA RaisingIsReturning ==
    ASSUME NEW s, NEW b, NEW a, Runs(s, b, a), s # << >>, Head(s)[1] = "write"
    PROVE  Releases(s) = Tail(s)
<1> DEFINE n == Len(s)
           places == {i \in DOMAIN s : s[i][1] = "release"}
           at(k) == CHOOSE i \in places : Cardinality({j \in places : j <= i}) = k
<1>1. /\ s \in Seq(Step) /\ n \in Nat /\ n >= 1 /\ DOMAIN s = 1 .. n
      /\ Head(s) = s[1] /\ Tail(s) \in Seq(Step) /\ Len(Tail(s)) = n - 1
      /\ \A k \in 1 .. n - 1 : Tail(s)[k] = s[k + 1]
  <2>1. s \in Seq(Step)
    BY DEF Runs
  <2>2. QED
    BY <2>1
<1>2. PICK c \in Stage : Follows(Head(s), b, c) /\ Runs(Tail(s), c, a)
  BY OneStepOn
<1>3. c.write = "behind"
  <2>1. b \in Stage
    BY RunsEndInStages
  <2>2. b = [held |-> b.held, owed |-> b.owed, write |-> b.write]
    BY <2>1 DEF Stage
  <2>3. PICK event \in Event : Head(s) = <<"write", event>> /\ c = [b EXCEPT !.write = "behind"]
    BY <1>2 DEF Follows
  <2>4. QED
    BY <2>2, <2>3
<1>4. \A k \in 1 .. n - 1 : Tail(s)[k][1] = "release"
  <2>1. \A k \in 1 .. Len(Tail(s)) : Tail(s)[k][1] = "release"
    BY ONLY <1>2, <1>3, OneStepOn
  <2>2. QED
    BY ONLY <1>1, <2>1
<1> HIDE DEF n
<1>5. \A i \in 2 .. n : s[i][1] = "release"
  <2>1. \A i \in 2 .. n : i - 1 \in 1 .. n - 1 /\ (i - 1) + 1 = i
    BY <1>1
  <2>2. QED
    BY <1>1, <1>4, <2>1
<1>6. places = 2 .. n
  <2>1. \A i \in 1 .. n : i # 1 => i \in 2 .. n
    BY <1>1
  <2>2. \A i \in 2 .. n : i \in 1 .. n
    BY <1>1
  <2>3. 1 \notin places
    BY <1>1
  <2>4. QED
    BY <1>1, <1>5, <2>1, <2>2, <2>3
<1>7. Cardinality(places) = n - 1
  <2>1. Cardinality(2 .. n) = IF 2 > n THEN 0 ELSE n - 2 + 1
    BY <1>1, FS_Interval
  <2>2. Cardinality(2 .. n) = n - 1
    BY ONLY <1>1, <2>1
  <2> HIDE DEF places
  <2>3. QED
    BY ONLY <1>6, <2>2, Zenon
<1>8. \A i \in places : Cardinality({j \in places : j <= i}) = i - 1
  <2> SUFFICES ASSUME NEW i \in 2 .. n PROVE Cardinality({j \in 2 .. n : j <= i}) = i - 1
    BY <1>6
  <2>1. {j \in 2 .. n : j <= i} = 2 .. i
    BY <1>1
  <2>2. Cardinality(2 .. i) = IF 2 > i THEN 0 ELSE i - 2 + 1
    BY <1>1, FS_Interval
  <2>3. Cardinality(2 .. i) = i - 1
    BY ONLY <1>1, <2>2, i \in 2 .. n
  <2>4. QED
    BY ONLY <2>1, <2>3, Zenon
<1>9. ASSUME NEW k \in 1 .. n - 1 PROVE at(k) = k + 1
  <2>1. k + 1 \in 2 .. n /\ (k + 1) - 1 = k
    BY <1>1
  <2>2. \A i \in 2 .. n : i - 1 = k => i = k + 1
    BY <1>1
  <2>3. k + 1 \in places /\ Cardinality({j \in places : j <= k + 1}) = k
    BY <1>6, <1>8, <2>1
  <2>4. at(k) \in places /\ Cardinality({j \in places : j <= at(k)}) = k
    BY <2>3
  <2> HIDE DEF at, places
  <2>5. QED
    BY <1>6, <1>8, <2>2, <2>4
<1>10. Releases(s) = [k \in 1 .. Cardinality(places) |-> s[at(k)]]
  BY DEF Releases
<1> HIDE DEF at, places
<1>11. Releases(s) = [k \in 1 .. n - 1 |-> s[k + 1]]
  BY <1>7, <1>9, <1>10
<1>12. Tail(s) = [k \in 1 .. n - 1 |-> s[k + 1]]
  <2>1. Tail(s) \in [1 .. n - 1 -> Step]
    BY ONLY <1>1, LenProperties
  <2>2. Tail(s) = [k \in 1 .. n - 1 |-> Tail(s)[k]]
    BY ONLY <2>1
  <2>3. QED
    BY ONLY <1>1, <2>2
<1>13. QED
  BY <1>11, <1>12

LEMMA NextStage ==
    ASSUME NEW s, NEW b, Keeps(s, b)
    PROVE  /\ s \in Seq(Step) /\ b \in Stage
           /\ s = << >> => Free(b)
           /\ s # << >> =>
                \/ \E c \in Stage : Follows(Head(s), b, c) /\ Keeps(Tail(s), c)
                \/ /\ "requires_approval" \in Callback
                   /\ "registry" \in b.held /\ Head(s) = <<"acquire", "registry">>
           /\ s # << >> /\ Head(s)[1] = "write" => Releases(s) = Tail(s)
<1>1. CASE Returns(s, b)
  <2>1. PICK a \in Stage : Free(a) /\ Runs(s, b, a)
    BY <1>1 DEF Returns
  <2>2. s \in Seq(Step) /\ b \in Stage
    BY ONLY <2>1, RunsEndInStages
  <2>3. s = << >> => Free(b)
    BY <2>1, OneStepOn
  <2>4. s # << >> => \E c \in Stage : Follows(Head(s), b, c) /\ Runs(Tail(s), c, a)
    BY ONLY <2>1, OneStepOn
  <2>5. s # << >> => \E c \in Stage : Follows(Head(s), b, c) /\ Keeps(Tail(s), c)
    BY <2>1, <2>4 DEF Keeps, Returns
  <2>6. s # << >> /\ Head(s)[1] = "write" => Releases(s) = Tail(s)
    BY ONLY <2>1, RaisingIsReturning
  <2>7. QED
    BY <2>2, <2>3, <2>5, <2>6
<1>2. CASE Entangled(s, b)
  <2>1. /\ "requires_approval" \in Callback
        /\ s \in Seq(Step) /\ b \in Stage /\ b.owed = "nothing" /\ b.write = "ahead"
        /\ Len(s) >= 1 /\ s[1] = <<"acquire", "registry">>
    BY <1>2 DEF Entangled
  <2>2. /\ s # << >> /\ Head(s) = <<"acquire", "registry">>
        /\ Tail(s) \in Seq(Step) /\ Len(Tail(s)) = Len(s) - 1 /\ Len(s) \in Nat
        /\ \A i \in 1 .. Len(s) - 1 : Tail(s)[i] = s[i + 1]
    BY <2>1
  <2>3. CASE b.held = {"registry"}
    BY <2>1, <2>2, <2>3
  <2>4. CASE b.held = {} /\ Len(s) >= 2 /\ s[2] = <<"acquire", "registry">>
    <3> DEFINE c == At({"registry"}, "nothing", "ahead")
    <3>1. b = At({}, "nothing", "ahead")
      BY <2>1, <2>4 DEF At, Stage
    <3>2. c = [b EXCEPT !.held = @ \cup {"registry"}]
      BY <3>1 DEF At
    <3>3. c \in Stage /\ c.held = {"registry"} /\ c.owed = "nothing" /\ c.write = "ahead"
      BY Starts, Fields
    <3> HIDE DEF c
    <3>4. Takes("registry", b, c)
      BY <2>1, <2>4, <3>2 DEF Takes
    <3>5. Follows(Head(s), b, c)
      BY <2>2, <3>4, Locks DEF Follows
    <3>6. Entangled(Tail(s), c)
      <4>1. 1 \in 1 .. Len(s) - 1 /\ Len(Tail(s)) >= 1
        BY <2>2, <2>4
      <4>2. Tail(s)[1] = <<"acquire", "registry">>
        BY <2>2, <2>4, <4>1
      <4>3. QED
        BY <2>1, <2>2, <3>3, <4>1, <4>2 DEF Entangled
    <3>7. QED
      BY <2>1, <2>2, <3>3, <3>5, <3>6 DEF Keeps
  <2>5. QED
    BY <1>2, <2>3, <2>4 DEF Entangled
<1>3. QED
  BY <1>1, <1>2 DEF Keeps

-----------------------------------------------------------------------------
(* The inductive invariant: every thread is in a stage from which the rest *)
(* of its method keeps the discipline, the thread that owes the log a word *)
(* owes it what the flag says, and when none does the log has it.          *)

StagesAgree(stage) ==
    /\ stage \in [Thread -> Stage]
    /\ \A t \in Thread : stage[t].held = Held(t) /\ Keeps(todo[t], stage[t])
    /\ \A t \in Thread : stage[t].owed # "nothing" => stage[t].owed = EventFor(is_engaged)
    /\ (\A t \in Thread : stage[t].owed = "nothing") => is_engaged = recorded

LockInv == TypeOK /\ \E stage : StagesAgree(stage)

LEMMA AtTheStart ==
    ASSUME Init
    PROVE  LockInv
<1>1. TypeOK
  <2>1. << >> \in Seq(Step)
    OBVIOUS
  <2>2. todo \in [Thread -> Seq(Step)]
    BY <2>1 DEF Init
  <2>3. owner \in [Lock -> Thread \cup {None}]
    BY DEF Init
  <2>4. calls \in 0 .. MaxCalls /\ failures \in 0 .. MaxFailures
    BY LockAssumption DEF Init
  <2>5. is_engaged \in BOOLEAN /\ recorded \in BOOLEAN
    BY DEF Init
  <2>6. QED
    BY <2>2, <2>3, <2>4, <2>5 DEF TypeOK
<1> DEFINE stage == [t \in Thread |-> Start]
<1>2. Start \in Stage /\ Start.held = {} /\ Start.owed = "nothing"
  BY Starts, Fields DEF Start
<1>3. Keeps(<< >>, Start)
  BY <1>2, NoStep DEF Keeps, Returns, Free
<1>4. \A t \in Thread : Held(t) = {}
  BY LockAssumption DEF Init, Held
<1>5. StagesAgree(stage)
  BY <1>2, <1>3, <1>4 DEF StagesAgree, Init
<1> HIDE DEF stage
<1>6. QED
  BY <1>1, <1>5 DEF LockInv

(* One thread moves to stage c with r left to do. *)
LEMMA OneMoves ==
    ASSUME TypeOK, NEW stage, StagesAgree(stage),
           NEW t \in Thread, NEW c \in Stage, NEW r,
           todo' = [todo EXCEPT ![t] = r],
           Keeps(r, c),
           c.held = Held(t)',
           \A u \in Thread \ {t} : Held(u)' = Held(u),
           c.owed # "nothing" => c.owed = EventFor(is_engaged'),
           \A u \in Thread \ {t} : stage[u].owed # "nothing" => is_engaged' = is_engaged,
           c.owed = "nothing" =>
               \/ is_engaged' = recorded'
               \/ stage[t].owed = "nothing" /\ UNCHANGED <<is_engaged, recorded>>
    PROVE  (\E next : StagesAgree(next))' /\ todo' \in [Thread -> Seq(Step)]
<1> DEFINE next == [stage EXCEPT ![t] = c]
<1>1. /\ stage \in [Thread -> Stage]
      /\ \A u \in Thread : stage[u].held = Held(u) /\ Keeps(todo[u], stage[u])
      /\ \A u \in Thread : stage[u].owed # "nothing" => stage[u].owed = EventFor(is_engaged)
      /\ (\A u \in Thread : stage[u].owed = "nothing") => is_engaged = recorded
  BY DEF StagesAgree
<1>2. /\ next \in [Thread -> Stage]
      /\ next[t] = c
      /\ \A u \in Thread \ {t} : next[u] = stage[u]
  BY <1>1
<1>3. todo \in [Thread -> Seq(Step)]
  BY DEF TypeOK
<1>4. todo'[t] = r /\ \A u \in Thread \ {t} : todo'[u] = todo[u]
  BY <1>3
<1>5. r \in Seq(Step)
  BY ONLY NextStage, Keeps(r, c)
<1>6. todo' \in [Thread -> Seq(Step)]
  BY <1>3, <1>5
<1> HIDE DEF next
<1>7. \A u \in Thread : next[u].held = Held(u)' /\ Keeps(todo'[u], next[u])
  BY <1>1, <1>2, <1>4
<1>8. \A u \in Thread : next[u].owed # "nothing" => next[u].owed = EventFor(is_engaged')
  BY <1>1, <1>2
<1>9. ASSUME \A u \in Thread : next[u].owed = "nothing" PROVE is_engaged' = recorded'
  <2>1. c.owed = "nothing" /\ \A u \in Thread \ {t} : stage[u].owed = "nothing"
    BY <1>2, <1>9
  <2>2. CASE stage[t].owed = "nothing" /\ UNCHANGED <<is_engaged, recorded>>
    BY <1>1, <2>1, <2>2
  <2>3. QED
    BY <2>1, <2>2
<1>10. StagesAgree(next)'
  BY <1>2, <1>7, <1>8, <1>9 DEF StagesAgree
<1>11. QED
  BY <1>6, <1>10

(* What a thread finds when it takes its next step. *)
LEMMA StepTaken ==
    ASSUME TypeOK, NEW stage, StagesAgree(stage), NEW t \in Thread, todo[t] # << >>
    PROVE  \/ \E c \in Stage : Follows(Head(todo[t]), stage[t], c) /\ Keeps(Tail(todo[t]), c)
           \/ /\ "requires_approval" \in Callback
              /\ owner["registry"] = t /\ Head(todo[t]) = <<"acquire", "registry">>
<1>1. Keeps(todo[t], stage[t]) /\ stage[t].held = Held(t)
  BY DEF StagesAgree
<1>2. "registry" \in Held(t) => owner["registry"] = t
  BY DEF Held
<1>3. QED
  BY <1>1, <1>2, NextStage

LEMMA StepsKeepStages ==
    ASSUME LockInv, [Next]_vars
    PROVE  LockInv'
<1> USE DEF LockInv
<1>1. PICK stage : StagesAgree(stage)
  OBVIOUS
<1>2. /\ stage \in [Thread -> Stage]
      /\ \A t \in Thread : stage[t].held = Held(t) /\ Keeps(todo[t], stage[t])
      /\ \A t \in Thread : stage[t].owed # "nothing" => stage[t].owed = EventFor(is_engaged)
      /\ (\A t \in Thread : stage[t].owed = "nothing") => is_engaged = recorded
  BY <1>1 DEF StagesAgree
<1>3. /\ todo \in [Thread -> Seq(Step)]
      /\ owner \in [Lock -> Thread \cup {None}]
      /\ is_engaged \in BOOLEAN /\ recorded \in BOOLEAN
      /\ calls \in 0 .. MaxCalls /\ failures \in 0 .. MaxFailures
  BY DEF TypeOK
<1>4. \A st \in Stage :
          /\ st = [held |-> st.held, owed |-> st.owed, write |-> st.write]
          /\ st.held \in SUBSET Lock
          /\ st.owed # "nothing" => "switch" \in st.held
  BY DEF Stage
(* Who owes the log a word holds the switch, so nobody else does. *)
<1>5. \A t, u \in Thread :
          "switch" \in stage[t].held /\ stage[u].owed # "nothing" => u = t
  BY <1>2, <1>4 DEF Held
<1>6. ASSUME NEW t \in Thread, Call(t) PROVE LockInv'
  <2>1. PICK method \in Method : todo' = [todo EXCEPT ![t] = method]
    BY <1>6 DEF Call
  <2>2. todo[t] = << >> /\ UNCHANGED <<owner, is_engaged, recorded, failures>> /\ calls' \in 0 .. MaxCalls
    BY <1>3, <1>6, LockAssumption DEF Call
  <2>3. Free(stage[t])
    BY <1>2, <2>2, NextStage
  <2>4. Start \in Stage /\ Start.held = {} /\ Start.owed = "nothing"
    BY Starts, Fields DEF Start
  <2>5. Keeps(method, Start)
    BY MethodsKeep
  <2>6. \A u \in Thread : Held(u)' = Held(u)
    BY <2>2 DEF Held
  <2>7. stage[t].owed = "nothing" /\ Held(t)' = {}
    BY <1>2, <2>3, <2>6 DEF Free
  <2>8. (\E next : StagesAgree(next))' /\ todo' \in [Thread -> Seq(Step)]
    BY <1>1, <2>1, <2>2, <2>4, <2>5, <2>6, <2>7, OneMoves
  <2>9. TypeOK'
    BY <1>3, <2>2, <2>8 DEF TypeOK
  <2>10. QED
    BY <2>8, <2>9
<1>7. ASSUME NEW t \in Thread, Acquire(t) PROVE LockInv'
  <2>1. PICK lock \in Lock :
            /\ todo[t] # << >> /\ Head(todo[t]) = <<"acquire", lock>>
            /\ todo' = [todo EXCEPT ![t] = Tail(todo[t])]
            /\ owner[lock] = None
            /\ owner' = [owner EXCEPT ![lock] = t]
            /\ UNCHANGED <<is_engaged, recorded, calls, failures>>
    BY <1>7 DEF Acquire, Does
  <2>2. PICK c \in Stage : Follows(Head(todo[t]), stage[t], c) /\ Keeps(Tail(todo[t]), c)
    <3>1. CASE owner["registry"] = t /\ Head(todo[t]) = <<"acquire", "registry">>
      BY <2>1, <3>1, LockAssumption
    <3>2. QED
      BY <1>1, <2>1, <3>1, StepTaken
  <2>3. c = [stage[t] EXCEPT !.held = @ \cup {lock}]
    BY <2>1, <2>2 DEF Follows, Takes
  <2>4. c.held = stage[t].held \cup {lock} /\ c.owed = stage[t].owed
    BY <1>2, <1>4, <2>3
  <2>5. Held(t)' = Held(t) \cup {lock}
    BY <1>3, <2>1 DEF Held
  <2>6. \A u \in Thread \ {t} : Held(u)' = Held(u)
    BY <1>3, <2>1, LockAssumption DEF Held
  <2>7. c.held = Held(t)'
    BY <1>2, <2>4, <2>5
  <2>8. (\E next : StagesAgree(next))' /\ todo' \in [Thread -> Seq(Step)]
    BY <1>1, <1>2, <2>1, <2>2, <2>4, <2>6, <2>7, OneMoves
  <2>9. TypeOK'
    BY <1>3, <2>1, <2>8 DEF TypeOK
  <2>10. QED
    BY <2>8, <2>9
<1>8. ASSUME NEW t \in Thread, Release(t) PROVE LockInv'
  <2>1. PICK lock \in Lock :
            /\ todo[t] # << >> /\ Head(todo[t]) = <<"release", lock>>
            /\ todo' = [todo EXCEPT ![t] = Tail(todo[t])]
            /\ owner' = [owner EXCEPT ![lock] = None]
            /\ UNCHANGED <<is_engaged, recorded, calls, failures>>
    BY <1>8 DEF Release, Does
  <2>2. PICK c \in Stage : Follows(Head(todo[t]), stage[t], c) /\ Keeps(Tail(todo[t]), c)
    BY <1>1, <2>1, StepTaken
  <2>3. lock \in stage[t].held /\ c = [stage[t] EXCEPT !.held = @ \ {lock}]
    BY <2>1, <2>2 DEF Follows, Leaves
  <2>4. c.held = stage[t].held \ {lock} /\ c.owed = stage[t].owed
    BY <1>2, <1>4, <2>3
  <2>5. Held(t)' = Held(t) \ {lock}
    BY <1>3, <2>1, LockAssumption DEF Held
  <2>6. owner[lock] = t
    BY <1>2, <2>3 DEF Held
  <2>7. \A u \in Thread \ {t} : Held(u)' = Held(u)
    BY <1>3, <2>1, <2>6, LockAssumption DEF Held
  <2>8. c.held = Held(t)'
    BY <1>2, <2>4, <2>5
  <2>9. (\E next : StagesAgree(next))' /\ todo' \in [Thread -> Seq(Step)]
    BY <1>1, <1>2, <2>1, <2>2, <2>4, <2>7, <2>8, OneMoves
  <2>10. TypeOK'
    BY <1>3, <2>1, <2>9 DEF TypeOK
  <2>11. QED
    BY <2>9, <2>10
<1>9. ASSUME NEW t \in Thread, SetFlag(t) PROVE LockInv'
  <2>1. PICK flag \in BOOLEAN :
            /\ todo[t] # << >> /\ Head(todo[t]) = <<"set", flag>>
            /\ todo' = [todo EXCEPT ![t] = Tail(todo[t])]
            /\ is_engaged' = flag
            /\ UNCHANGED <<owner, recorded, calls, failures>>
    BY <1>9 DEF SetFlag, Does
  <2>2. PICK c \in Stage : Follows(Head(todo[t]), stage[t], c) /\ Keeps(Tail(todo[t]), c)
    BY <1>1, <2>1, StepTaken
  <2>3. AtSwitch(stage[t]) /\ c = [stage[t] EXCEPT !.owed = EventFor(flag)]
    BY <2>1, <2>2 DEF Follows
  <2>4. c.held = stage[t].held /\ c.owed = EventFor(is_engaged') /\ c.owed # "nothing"
    BY <1>2, <1>4, <2>1, <2>3 DEF EventFor
  <2>5. \A u \in Thread : Held(u)' = Held(u)
    BY <2>1 DEF Held
  <2>6. \A u \in Thread \ {t} : stage[u].owed = "nothing"
    BY <1>5, <2>3 DEF AtSwitch
  <2>7. c.held = Held(t)'
    BY <1>2, <2>4, <2>5
  <2>8. (\E next : StagesAgree(next))' /\ todo' \in [Thread -> Seq(Step)]
    BY <1>1, <2>1, <2>2, <2>4, <2>5, <2>6, <2>7, OneMoves
  <2>9. TypeOK'
    BY <1>3, <2>1, <2>8 DEF TypeOK
  <2>10. QED
    BY <2>8, <2>9
<1>10. ASSUME NEW t \in Thread, LookAtFlag(t) PROVE LockInv'
  <2>1. /\ todo[t] # << >> /\ Head(todo[t]) = <<"look", None>>
        /\ todo' = [todo EXCEPT ![t] = Tail(todo[t])]
        /\ UNCHANGED <<owner, is_engaged, recorded, calls, failures>>
    BY <1>10 DEF LookAtFlag, Does
  <2>2. PICK c \in Stage : Follows(Head(todo[t]), stage[t], c) /\ Keeps(Tail(todo[t]), c)
    BY <1>1, <2>1, StepTaken
  <2>3. c = stage[t]
    BY <2>1, <2>2 DEF Follows
  <2>4. \A u \in Thread : Held(u)' = Held(u)
    BY <2>1 DEF Held
  <2>5. c.held = Held(t)' /\ c.owed = stage[t].owed
    BY <1>2, <2>3, <2>4
  <2>6. (\E next : StagesAgree(next))' /\ todo' \in [Thread -> Seq(Step)]
    BY <1>1, <1>2, <2>1, <2>2, <2>4, <2>5, OneMoves
  <2>7. TypeOK'
    BY <1>3, <2>1, <2>6 DEF TypeOK
  <2>8. QED
    BY <2>6, <2>7
<1>11. ASSUME NEW t \in Thread, AppendEntry(t) PROVE LockInv'
  <2>1. PICK event \in Event :
            /\ todo[t] # << >> /\ Head(todo[t]) = <<"append", event>>
            /\ todo' = [todo EXCEPT ![t] = Tail(todo[t])]
            /\ recorded' = IF event \in SwitchEvent THEN event = "kill_switch_engaged" ELSE recorded
            /\ UNCHANGED <<owner, is_engaged, calls, failures>>
    BY <1>11 DEF AppendEntry, Does
  <2>2. PICK c \in Stage : Follows(Head(todo[t]), stage[t], c) /\ Keeps(Tail(todo[t]), c)
    BY <1>1, <2>1, StepTaken
  <2>3. Says(event, stage[t], c)
    BY <2>1, <2>2 DEF Follows
  <2>4. \A u \in Thread : Held(u)' = Held(u)
    BY <2>1 DEF Held
  <2>5. ASSUME event \in SwitchEvent
        PROVE  (\E next : StagesAgree(next))' /\ todo' \in [Thread -> Seq(Step)]
    <3>1. stage[t].owed = event /\ c = [stage[t] EXCEPT !.owed = "nothing"]
      BY <2>3, <2>5 DEF Says
    <3>2. c.held = stage[t].held /\ c.owed = "nothing"
      BY <1>2, <1>4, <3>1
    <3>3. event = EventFor(is_engaged)
      BY <1>2, <2>5, <3>1 DEF SwitchEvent
    <3>4. recorded' = is_engaged'
      BY <1>3, <2>1, <2>5, <3>3 DEF EventFor
    <3>5. c.held = Held(t)'
      BY <1>2, <2>4, <3>2
    <3>6. QED
      BY <1>1, <2>1, <2>2, <2>4, <3>2, <3>4, <3>5, OneMoves
  <2>6. ASSUME event \notin SwitchEvent
        PROVE  (\E next : StagesAgree(next))' /\ todo' \in [Thread -> Seq(Step)]
    <3>1. c = stage[t] /\ recorded' = recorded
      BY <2>1, <2>3, <2>6 DEF Says
    <3>2. c.held = Held(t)' /\ c.owed = stage[t].owed
      BY <1>2, <2>4, <3>1
    <3>3. QED
      BY <1>1, <1>2, <2>1, <2>2, <2>4, <3>1, <3>2, OneMoves
  <2>7. TypeOK' /\ (\E next : StagesAgree(next))'
    <3>1. recorded' \in BOOLEAN
      BY <1>3, <2>1
    <3>2. QED
      BY <1>3, <2>1, <2>5, <2>6, <3>1 DEF TypeOK
  <2>8. QED
    BY <2>7
<1>12. ASSUME NEW t \in Thread, WriteLine(t) \/ WriteRaises(t) PROVE LockInv'
  <2>1. /\ todo[t] # << >> /\ Head(todo[t])[1] = "write"
        /\ \/ todo' = [todo EXCEPT ![t] = Tail(todo[t])]
           \/ todo' = [todo EXCEPT ![t] = Releases(todo[t])]
        /\ failures' \in 0 .. MaxFailures /\ calls' \in 0 .. MaxCalls
        /\ UNCHANGED <<owner, is_engaged, recorded>>
    <3>1. CASE WriteLine(t)
      <4>1. failures' = failures /\ calls' = calls
        BY <3>1 DEF WriteLine, Does
      <4>2. QED
        BY <1>3, <3>1, <4>1 DEF WriteLine, Does
    <3>2. CASE WriteRaises(t)
      <4>1. failures' \in 0 .. MaxFailures /\ calls' = calls
        BY <1>3, <3>2, LockAssumption DEF WriteRaises
      <4>2. QED
        BY <1>3, <3>2, <4>1 DEF WriteRaises
    <3>3. QED
      BY <1>12, <3>1, <3>2
  <2>2. Keeps(todo[t], stage[t])
    BY <1>2
  <2>3. Releases(todo[t]) = Tail(todo[t])
    BY ONLY <2>1, <2>2, NextStage
  <2>4. todo' = [todo EXCEPT ![t] = Tail(todo[t])]
    BY <2>1, <2>3
  <2>5. PICK c \in Stage : Follows(Head(todo[t]), stage[t], c) /\ Keeps(Tail(todo[t]), c)
    BY <1>1, <2>1, StepTaken
  <2>6. c = [stage[t] EXCEPT !.write = "behind"]
    BY <2>1, <2>5 DEF Follows
  <2>7. \A u \in Thread : Held(u)' = Held(u)
    BY <2>1 DEF Held
  <2>8. c.held = stage[t].held /\ c.owed = stage[t].owed
    BY <1>2, <1>4, <2>6
  <2>9. c.held = Held(t)'
    BY <1>2, <2>7, <2>8
  <2>10. (\E next : StagesAgree(next))' /\ todo' \in [Thread -> Seq(Step)]
    BY <1>1, <1>2, <2>1, <2>4, <2>5, <2>7, <2>8, <2>9, OneMoves
  <2>11. TypeOK'
    BY <1>3, <2>1, <2>10 DEF TypeOK
  <2>12. QED
    BY <2>10, <2>11
<1>13. CASE UNCHANGED vars
  <2>1. \A t \in Thread : Held(t)' = Held(t)
    BY <1>13 DEF vars, Held
  <2>2. StagesAgree(stage)'
    BY <1>2, <1>13, <2>1 DEF StagesAgree, vars
  <2>3. TypeOK'
    BY <1>3, <1>13 DEF TypeOK, vars
  <2>4. QED
    BY <2>2, <2>3
<1>14. QED
  BY <1>6, <1>7, <1>8, <1>9, <1>10, <1>11, <1>12, <1>13 DEF Next, Proceed

LEMMA StagesKept == Spec => []LockInv
<1>1. Init => LockInv
  BY AtTheStart
<1>2. LockInv /\ [Next]_vars => LockInv'
  BY StepsKeepStages
<1>3. QED
  BY <1>1, <1>2, PTL DEF Spec

-----------------------------------------------------------------------------
(* What follows from it *)

LEMMA ReadersAgree == LockInv => ReadersSeeTheRecord
<1> SUFFICES ASSUME TypeOK, NEW stage, StagesAgree(stage),
                    NEW t \in Thread, todo[t] # << >>, Head(todo[t])[1] = "look"
             PROVE  is_engaged = recorded
  BY DEF LockInv, ReadersSeeTheRecord
<1>1. PICK c \in Stage : Follows(Head(todo[t]), stage[t], c)
  BY StepTaken
<1>2. "switch" \in stage[t].held /\ stage[t].owed = "nothing"
  BY <1>1 DEF Follows, AtSwitch
<1>3. \A u \in Thread : stage[u].owed # "nothing" => "switch" \in stage[u].held
  BY DEF StagesAgree, Stage
<1>4. \A u \in Thread : "switch" \in stage[u].held => u = t
  BY <1>2 DEF StagesAgree, Held
<1>5. QED
  BY <1>2, <1>3, <1>4 DEF StagesAgree

LEMMA OrderFollows ==
    ASSUME "requires_approval" \notin Callback, LockInv
    PROVE  LocksInOrder
<1> SUFFICES ASSUME TypeOK, NEW stage, StagesAgree(stage),
                    NEW t \in Thread, NEW lock \in Lock,
                    todo[t] # << >>, Head(todo[t]) = <<"acquire", lock>>,
                    NEW held \in Held(t)
             PROVE  Rank[held] < Rank[lock]
  BY DEF LockInv, LocksInOrder
<1>1. PICK c \in Stage : Follows(Head(todo[t]), stage[t], c)
  BY StepTaken
<1>2. Takes(lock, stage[t], c)
  BY <1>1 DEF Follows
<1>3. QED
  BY <1>2 DEF Takes, StagesAgree

(* Threads outside a call hold no lock. *)
LEMMA IdleHoldNothing ==
    ASSUME LockInv, NEW t \in Thread, ~InCall(t)
    PROVE  Held(t) = {}
<1>1. PICK stage : StagesAgree(stage)
  BY DEF LockInv
<1>2. Keeps(todo[t], stage[t]) /\ stage[t].held = Held(t) /\ todo[t] = << >>
  BY <1>1 DEF StagesAgree, InCall
<1>3. Free(stage[t])
  BY <1>2, NextStage
<1>4. QED
  BY <1>2, <1>3 DEF Free

(* A thread that waits for a lock another thread holds. *)
Waits(t, lock) ==
    /\ InCall(t)
    /\ Head(todo[t]) = <<"acquire", lock>>
    /\ owner[lock] # None

(* While some thread is in a call, one of them is at a step that no other  *)
(* thread stands in the way of: nobody waits in a circle.                  *)
SomeoneProceeds ==
    (\E t \in Thread : InCall(t)) =>
        \E t \in Thread : InCall(t) /\ \A lock \in Lock : ~Waits(t, lock)

LEMMA LastToBeWaitedFor ==
    ASSUME NEW R \in SUBSET (1 .. 4), R # {}
    PROVE  \E r \in R : \A q \in R : q <= r
<1>1. CASE 4 \in R
  BY <1>1
<1>2. CASE 4 \notin R /\ 3 \in R
  BY <1>2
<1>3. CASE 4 \notin R /\ 3 \notin R /\ 2 \in R
  BY <1>3
<1>4. CASE 4 \notin R /\ 3 \notin R /\ 2 \notin R
  <2>1. PICK r \in R : TRUE
    OBVIOUS
  <2>2. \A q \in R : q = 1
    BY <1>4
  <2>3. QED
    BY <2>1, <2>2
<1>5. QED
  BY <1>1, <1>2, <1>3, <1>4

LEMMA NoCircle ==
    ASSUME LockInv, LocksInOrder
    PROVE  SomeoneProceeds
<1> SUFFICES ASSUME NEW s \in Thread, InCall(s),
                    \A t \in Thread : InCall(t) => \E lock \in Lock : Waits(t, lock)
             PROVE  FALSE
  BY DEF SomeoneProceeds
<1> DEFINE R == {Rank[lock] : lock \in {l \in Lock : \E t \in Thread : Waits(t, l)}}
<1>1. R \in SUBSET (1 .. 4) /\ R # {}
  <2>1. \A lock \in Lock : Rank[lock] \in 1 .. 4
    BY Locks
  <2>2. \E lock \in Lock : Waits(s, lock)
    OBVIOUS
  <2>3. QED
    BY <2>1, <2>2
<1>2. PICK r \in R : \A q \in R : q <= r
  BY ONLY <1>1, LastToBeWaitedFor
<1>3. PICK lock \in Lock, t \in Thread : Waits(t, lock) /\ r = Rank[lock]
  BY <1>2
(* Whoever holds the last lock waited for waits for a later one. *)
<1>4. PICK u \in Thread : owner[lock] = u
  BY <1>3 DEF Waits, LockInv, TypeOK
<1>5. lock \in Held(u)
  BY <1>4 DEF Held
<1>6. InCall(u)
  BY <1>5, IdleHoldNothing
<1>7. PICK later \in Lock : Waits(u, later)
  BY <1>6
<1>8. Rank[lock] < Rank[later]
  BY <1>5, <1>7 DEF LocksInOrder, Waits, InCall
<1>9. Rank[later] \in R
  BY <1>7
<1>10. Rank[lock] \in Int /\ Rank[later] \in Int
  BY Locks
<1> HIDE DEF R
<1>11. QED
  BY <1>2, <1>3, <1>8, <1>9, <1>10

-----------------------------------------------------------------------------
(* Locks, the flag, the log and what is left of every method stay what     *)
(* they are, whatever a constraint calls back.                             *)
THEOREM LocksTyped == Spec => []TypeOK
<1>1. LockInv => TypeOK
  BY DEF LockInv
<1>2. QED
  BY <1>1, StagesKept, PTL

(* Nobody reads the kill switch between its change and the entry about it  *)
(* (kill_switch.py:51-57), for any number of threads and also after writes *)
(* that raised.                                                            *)
THEOREM SwitchOnRecord == Spec => []ReadersSeeTheRecord
BY ReadersAgree, StagesKept, PTL

(* Every method of the governor's five parts takes its locks in one order, *)
(* provided no constraint asks its own registry, which would be waiting    *)
(* for it (permissions.py:151).                                        *)
THEOREM OrderKept ==
    ASSUME "requires_approval" \notin Callback
    PROVE  Spec => []LocksInOrder
<1>1. LockInv => LocksInOrder
  BY OrderFollows
<1>2. QED
  BY <1>1, StagesKept, PTL

(* So threads never wait for each other in a circle: while calls are being *)
(* made, one of them can be carried on, whoever holds what.                *)
THEOREM NobodyWaitsInACircle ==
    ASSUME "requires_approval" \notin Callback
    PROVE  Spec => []SomeoneProceeds
<1>1. LockInv => SomeoneProceeds
  BY OrderFollows, NoCircle
<1>2. QED
  BY <1>1, StagesKept, PTL

=============================================================================
