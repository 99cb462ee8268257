-------------------------- MODULE ValidationLedger --------------------------
(***************************************************************************)
(* What a client of the validator relies on when it later reads the result *)
(* tables: a validation is filed once, under an id larger than every id    *)
(* filed before; detail rows are added to filed validations only, under    *)
(* the id of the validation they belong to; and a client is answered with  *)
(* the id of its own validation.                                           *)
(***************************************************************************)
EXTENDS Naturals

CONSTANT Requests

VARIABLES
  filed,     \* the validations: pairs of a request and its id
  details,   \* detail rows, by request and id
  answers    \* the id each request was answered with, 0 before

vars == <<filed, details, answers>>

Entry == [req : Requests, id : Nat \ {0}]

Init ==
  /\ filed = {}
  /\ details = {}
  /\ answers = [r \in Requests |-> 0]

File(r) ==
  /\ \A e \in filed : e.req # r
  /\ \E e \in filed' \ filed :
       /\ e \in Entry
       /\ e.req = r
       /\ \A old \in filed : old.id < e.id
       /\ filed' = filed \union {e}
  /\ UNCHANGED <<details, answers>>

AddDetail(r) ==
  /\ \E e \in filed : e.req = r /\ details' = details \union {e}
  /\ UNCHANGED <<filed, answers>>

Answer(r) ==
  /\ answers[r] = 0
  /\ \E e \in filed : e.req = r /\ answers' = [answers EXCEPT ![r] = e.id]
  /\ UNCHANGED <<filed, details>>

Next == \E r \in Requests : File(r) \/ AddDetail(r) \/ Answer(r)

Spec == Init /\ [][Next]_vars
=============================================================================
