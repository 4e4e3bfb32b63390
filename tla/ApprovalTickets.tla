-------------------------- MODULE ApprovalTickets ---------------------------
(***************************************************************************)
(* What human approval promises, with nothing of how it is carried out: a  *)
(* ticket is asked for one purpose, answered once by a human or left to    *)
(* lapse, torn up when it is presented, and good for one act at most, of   *)
(* its own purpose.  An approval lost between presenting it and acting is  *)
(* lost for good.                                                          *)
(***************************************************************************)
CONSTANTS
    Ticket,
    Agent,      \* who acts; each acts once at most
    Purpose,
    None

VARIABLES
    ticket,     \* None until it is asked for
    act         \* what each agent has done on a ticket, None before

Stage == {"asked", "granted", "refused", "lapsed", "torn"}

TypeOK ==
    /\ ticket \in [Ticket -> [purpose : Purpose, stage : Stage] \cup {None}]
    /\ act \in [Agent -> [purpose : Purpose, ticket : Ticket] \cup {None}]

Init ==
    /\ ticket = [t \in Ticket |-> None]
    /\ act = [a \in Agent |-> None]

Stands(t, stage) == ticket[t] # None /\ ticket[t].stage = stage

Ask(t) ==
    \E purpose \in Purpose :
        ticket' = [ticket EXCEPT ![t] = [purpose |-> purpose, stage |-> "asked"]]

Move(t, stage) == ticket' = [ticket EXCEPT ![t].stage = stage]

Lapse ==
    \E old \in SUBSET {t \in Ticket : Stands(t, "asked")} :
        ticket' = [t \in Ticket |->
            IF t \in old THEN [ticket[t] EXCEPT !.stage = "lapsed"] ELSE ticket[t]]

Act(a, t) ==
    /\ act[a] = None
    /\ \A b \in Agent : act[b] # None => act[b].ticket # t
    /\ act' = [act EXCEPT ![a] = [purpose |-> ticket[t].purpose, ticket |-> t]]

(* Most steps of an implementation are none of these; said first, TLC need *)
(* not try the others for them.                                            *)
Idle == UNCHANGED <<ticket, act>>

Next ==
    \/ Idle
    \/ /\ UNCHANGED act
       /\ \/ \E t \in Ticket :
                 \/ ticket[t] = None /\ Ask(t)
                 \/ Stands(t, "asked") /\ (Move(t, "granted") \/ Move(t, "refused"))
                 \/ Stands(t, "granted") /\ Move(t, "torn")
          \/ Lapse
    \/ /\ UNCHANGED ticket
       /\ \E t \in Ticket, a \in Agent : Stands(t, "torn") /\ Act(a, t)

Spec == Init /\ [][Next]_<<ticket, act>>

=============================================================================
