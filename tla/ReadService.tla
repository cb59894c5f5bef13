---------------------------- MODULE ReadService ----------------------------
(***************************************************************************)
(* What submitToSq and readFromCq promise together, with neither ring nor  *)
(* memory: reads are submitted in order, each is accepted or refused; an   *)
(* accepted read is answered once, in any order; the answers are taken     *)
(* oldest first, and a good answer is printed.  A failed answer ends the   *)
(* service and is never taken, so what waits behind it is never printed.   *)
(***************************************************************************)
EXTENDS Naturals, Sequences

CONSTANT Submits  \* how many reads the program submits

Reads == 1 .. Submits

VARIABLES
  state,    \* what became of each read
  answers,  \* the answers not taken yet, oldest first: [read, ok]
  up        \* whether the service still takes answers

vars == <<state, answers, up>>

Init ==
  /\ state = [k \in Reads |-> "new"]
  /\ answers = <<>>
  /\ up = TRUE

InOrder(k) == state[k] = "new" /\ \A j \in 1 .. k - 1 : state[j] # "new"

Accept(k) ==
  /\ up /\ InOrder(k)
  /\ state' = [state EXCEPT ![k] = "running"]
  /\ UNCHANGED <<answers, up>>

Refuse(k) ==
  /\ up /\ InOrder(k)
  /\ state' = [state EXCEPT ![k] = "refused"]
  /\ UNCHANGED <<answers, up>>

(* The kernel goes on answering when nobody takes answers any more. *)
Answer(k, ok) ==
  /\ state[k] = "running"
  /\ state' = [state EXCEPT ![k] = "answered"]
  /\ answers' = Append(answers, [read |-> k, ok |-> ok])
  /\ UNCHANGED up

PrintOldest ==
  /\ up /\ answers # <<>> /\ Head(answers).ok
  /\ \A k \in Reads : state[k] # "new"
  /\ state' = [state EXCEPT ![Head(answers).read] = "printed"]
  /\ answers' = Tail(answers)
  /\ UNCHANGED up

(* At a failed answer, at a fault, or in an endless loop. *)
Stop == up /\ up' = FALSE /\ UNCHANGED <<state, answers>>

Next ==
  \/ \E k \in Reads : Accept(k) \/ Refuse(k)
  \/ \E k \in Reads, ok \in BOOLEAN : Answer(k, ok)
  \/ PrintOldest \/ Stop

Spec == Init /\ [][Next]_vars

States == {"new", "refused", "running", "answered", "printed"}

TypeOK ==
  /\ state \in [Reads -> States]
  /\ answers \in Seq([read : Reads, ok : BOOLEAN])
  /\ up \in BOOLEAN

(* Every read that is answered has one place in the line of answers, and   *)
(* no other read has any: nothing is printed twice, nothing is dropped.    *)
OneAnswerEach ==
  /\ \A k \in Reads :
       state[k] = "answered" <=> \E i \in DOMAIN answers : answers[i].read = k
  /\ \A i, j \in DOMAIN answers : answers[i].read = answers[j].read => i = j
=============================================================================
