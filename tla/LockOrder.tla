----------------------------- MODULE LockOrder ------------------------------
(***************************************************************************)
(* The five locks of one governor and who nests which.  The other modules  *)
(* take a critical section for one step; this one takes it apart: a method *)
(* is the sequence of lock operations and writes it makes, a thread runs   *)
(* one method at a time, and other threads run between any two steps.      *)
(* None of the locks is reentrant.                                         *)
(***************************************************************************)
EXTENDS Integers, Sequences, FiniteSets

CONSTANTS
    None,
    Thread,
    Callback,     \* methods a scope's constraint callable calls, if any
    MaxCalls,     \* bound on the calls the threads make together
    MaxFailures   \* bound on disk writes that raise

VARIABLES
    todo,         \* what is left of the method each thread is in
    owner,        \* who holds each lock
    is_engaged,   \* KillSwitch._is_engaged
    recorded,     \* whether the log's last word on the switch is that it was engaged
    calls,        \* calls made so far
    failures

vars == <<todo, owner, is_engaged, recorded, calls, failures>>

(* The locks, by the number a thread may not go back on: taking one, it    *)
(* holds only locks with smaller numbers.                                  *)
Rank == [registry |-> 1, store |-> 2, switch |-> 2, file |-> 3, log |-> 4]
Lock == DOMAIN Rank

SwitchEvent == {"kill_switch_engaged", "kill_switch_cleared"}
Event == SwitchEvent \cup {"tool_call_allowed", "tool_call_denied", "hitl_checkpoint"}

-----------------------------------------------------------------------------
(* The methods *)

With(lock, body) == << <<"acquire", lock>> >> \o body \o << <<"release", lock>> >>

(* PersistentAuditLog.append around AuditLog.append. *)
AuditAppend(event) ==
    With("file", With("log", << <<"append", event>> >>) \o << <<"write", event>> >>)

(* Mutant: a reader of the log keeps the file from moving under it. *)
EntriesOfFile == With("log", With("file", << >>))
Entries == With("log", << >>)

(* Mutant: the switch is released before the engagement is logged. *)
EngageThenLog ==
    With("switch", << <<"set", TRUE>> >>) \o AuditAppend("kill_switch_engaged")
Engage == With("switch", << <<"set", TRUE>> >> \o AuditAppend("kill_switch_engaged"))
(* Mutants: the flag is unset rather than cleared; clearing begins a new   *)
(* session.                                                                *)
ClearAndReset ==
    With("switch", << <<"set", FALSE>> >> \o With("registry", << >>)
                       \o AuditAppend("kill_switch_cleared"))
ClearUnset == With("switch", << <<"set", None>> >> \o AuditAppend("kill_switch_cleared"))
Clear == With("switch", << <<"set", FALSE>> >> \o AuditAppend("kill_switch_cleared"))

(* check() and state both look at the flag under its lock. *)
Look == With("switch", << <<"look", None>> >>)

(* get() and is_resolved; a change of a checkpoint is logged afterwards.   *)
Get == With("store", << >>)
Resolve == With("store", << >>) \o AuditAppend("hitl_checkpoint")

RequiresApproval == With("registry", << >>)

(* check_and_record runs the constraint under its lock; a denial is logged *)
(* there and a permitted call after it.                                    *)
Permit(constraint) ==
    With("registry", constraint) \o AuditAppend("tool_call_allowed")
Refuse(constraint) ==
    With("registry", constraint \o AuditAppend("tool_call_denied"))

Body == [entries |-> Entries, look |-> Look, get |-> Get,
         requires_approval |-> RequiresApproval]
Constraint == {<< >>} \cup {Body[method] : method \in Callback}

Method ==
    {Engage, Clear, Look, Entries, Resolve, RequiresApproval}
        \cup {Permit(constraint) : constraint \in Constraint}
        \cup {Refuse(constraint) : constraint \in Constraint}

ASSUME LockAssumption ==
    /\ Callback \subseteq {"entries", "look", "get", "requires_approval"}
    /\ MaxCalls \in Nat
    /\ MaxFailures \in Nat
    /\ None \notin Thread

Step == ({"acquire", "release"} \X Lock) \cup ({"append", "write"} \X Event)
            \cup ({"set"} \X BOOLEAN) \cup {<<"look", None>>}

TypeOK ==
    /\ todo \in [Thread -> Seq(Step)]
    /\ owner \in [Lock -> Thread \cup {None}]
    /\ is_engaged \in BOOLEAN
    /\ recorded \in BOOLEAN
    /\ calls \in 0 .. MaxCalls
    /\ failures \in 0 .. MaxFailures

Init ==
    /\ todo = [t \in Thread |-> << >>]
    /\ owner = [lock \in Lock |-> None]
    /\ is_engaged = FALSE
    /\ recorded = FALSE
    /\ calls = 0
    /\ failures = 0

-----------------------------------------------------------------------------
(* The steps *)

Held(t) == {lock \in Lock : owner[lock] = t}

Call(t) ==
    /\ todo[t] = << >>
    /\ calls < MaxCalls
    /\ calls' = calls + 1
    /\ \E method \in Method : todo' = [todo EXCEPT ![t] = method]
    /\ UNCHANGED <<owner, is_engaged, recorded, failures>>

(* Thread t takes its next step, which is to `do` something to `what`.     *)
Does(t, do, what) ==
    /\ todo[t] # << >>
    /\ Head(todo[t]) = <<do, what>>
    /\ todo' = [todo EXCEPT ![t] = Tail(@)]
    /\ UNCHANGED calls

Acquire(t) ==
    \E lock \in Lock :
        /\ Does(t, "acquire", lock)
        /\ owner[lock] = None
        /\ owner' = [owner EXCEPT ![lock] = t]
        /\ UNCHANGED <<is_engaged, recorded, failures>>

Release(t) ==
    \E lock \in Lock :
        /\ Does(t, "release", lock)
        /\ owner' = [owner EXCEPT ![lock] = None]
        /\ UNCHANGED <<is_engaged, recorded, failures>>

SetFlag(t) ==
    \E flag \in BOOLEAN :
        /\ Does(t, "set", flag)
        /\ is_engaged' = flag
        /\ UNCHANGED <<owner, recorded, failures>>

LookAtFlag(t) ==
    /\ Does(t, "look", None)
    /\ UNCHANGED <<owner, is_engaged, recorded, failures>>

AppendEntry(t) ==
    \E event \in Event :
        /\ Does(t, "append", event)
        /\ recorded' = IF event \in SwitchEvent THEN event = "kill_switch_engaged" ELSE recorded
        /\ UNCHANGED <<owner, is_engaged, failures>>

WriteLine(t) ==
    \E event \in Event :
        /\ Does(t, "write", event)
        /\ UNCHANGED <<owner, is_engaged, recorded, failures>>

(* Step k of them is the k-th release of a method. *)
Releases(method) ==
    LET places == {i \in DOMAIN method : method[i][1] = "release"}
    IN  [k \in 1 .. Cardinality(places) |->
            method[CHOOSE i \in places : Cardinality({j \in places : j <= i}) = k]]

(* A write that raises leaves every `with` block on its way out: what is   *)
(* left of the method is its releases, as append() is the last thing any   *)
(* method does.                                                            *)
WriteRaises(t) ==
    /\ todo[t] # << >>
    /\ Head(todo[t])[1] = "write"
    /\ failures < MaxFailures
    /\ failures' = failures + 1
    /\ todo' = [todo EXCEPT ![t] = Releases(@)]
    /\ UNCHANGED <<owner, is_engaged, recorded, calls>>

Proceed(t) ==
    \/ Acquire(t)
    \/ Release(t)
    \/ SetFlag(t)
    \/ LookAtFlag(t)
    \/ AppendEntry(t)
    \/ WriteLine(t)
    \/ WriteRaises(t)

Next == \E t \in Thread : Call(t) \/ Proceed(t)

(* The program goes on while some thread can; nothing says which, nothing  *)
(* gives a lock to who waits longest, and nobody has to call a method.     *)
Fairness == WF_vars(\E t \in Thread : Proceed(t))

Spec == Init /\ [][Next]_vars
FairSpec == Spec /\ Fairness

-----------------------------------------------------------------------------
(* Properties *)

(* "Nesting the call here doesn't risk a deadlock" (kill_switch.py:55-57), *)
(* for every pair of locks: a thread about to take a lock holds only locks *)
(* that come before it in one fixed order, whatever a constraint calls     *)
(* back that is not the registry itself.                                   *)
LocksInOrder ==
    \A t \in Thread, lock \in Lock :
        todo[t] # << >> /\ Head(todo[t]) = <<"acquire", lock>> =>
            \A held \in Held(t) : Rank[held] < Rank[lock]

(* Every call comes back, also when a write raised while two or three      *)
(* locks were held: threads never wait for each other in a circle.         *)
InCall(t) == todo[t] # << >>
EveryCallReturns == (\E t \in Thread : InCall(t)) ~> (\A t \in Thread : ~InCall(t))

(* "A thread reading .state in between could observe `engaged' with no     *)
(* matching audit entry yet" (kill_switch.py:51-55) cannot happen: a       *)
(* reader finds the switch engaged iff the last entry about it says so,    *)
(* although the write of that entry may have raised.                       *)
ReadersSeeTheRecord ==
    \A t \in Thread :
        todo[t] # << >> /\ Head(todo[t])[1] = "look" =>
            is_engaged = recorded

=============================================================================
