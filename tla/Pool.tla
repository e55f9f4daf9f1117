-------------------------------- MODULE Pool --------------------------------
(***************************************************************************)
(* What an arena promises: an allocator of numbered slots.  A slot keeps   *)
(* its value from the insert that hands it out to the remove that gives it *)
(* back, and no slot is handed out twice in between.                       *)
(***************************************************************************)
CONSTANTS
  Slots,   \* the numbers a slot can have
  Values,  \* what a slot can hold
  None     \* no value; not a member of Values

VARIABLES
  held,    \* held[i] is the value in slot i, or None
  result   \* what the last operation returned

vars == <<held, result>>

Init == held = [i \in Slots |-> None] /\ result = None

Insert(v) ==
  \E i \in Slots :
    /\ held[i] = None
    /\ held' = [held EXCEPT ![i] = v]
    /\ result' = <<"insert", v, i>>

Remove(i) ==
  /\ result' = <<"remove", i, held[i]>>
  /\ held' = [held EXCEPT ![i] = None]

Write(i, v) ==
  /\ result' = <<"write", i, held[i] # None>>
  /\ held' = IF held[i] = None THEN held ELSE [held EXCEPT ![i] = v]

Get(i) ==
  /\ result' = <<"get", i, held[i]>>
  /\ UNCHANGED held

GetPair(i, j) ==
  /\ result' = <<"pair", i, j, IF i = j THEN <<>> ELSE <<held[i], held[j]>> >>
  /\ UNCHANGED held

Next ==
  \/ \E v \in Values : Insert(v)
  \/ \E i \in Slots : Remove(i) \/ Get(i) \/ \E v \in Values : Write(i, v)
  \/ \E i, j \in Slots : GetPair(i, j)

Spec == Init /\ [][Next]_vars
=============================================================================
