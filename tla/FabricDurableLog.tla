--------------------------- MODULE FabricDurableLog ---------------------------
(***************************************************************************)
(* What the local store of a Fabric stream promises whoever writes to it:  *)
(* one flat log that only grows, a committed boundary and one cursor per   *)
(* consumer, none of which ever moves backwards or beyond the log.         *)
(***************************************************************************)
EXTENDS Naturals, Sequences

CONSTANTS Payload, Consumer

VARIABLES records,   \* the records, their sequence number is their index
          boundary,  \* the committed boundary
          position   \* position[c]: the cursor of consumer c

Init ==
    /\ records = <<>>
    /\ boundary = 0
    /\ position = [c \in Consumer |-> 0]

Put ==
    /\ \E p \in Payload : records' = Append(records, p)
    /\ UNCHANGED <<boundary, position>>

Commit ==
    /\ boundary' \in (boundary + 1)..Len(records)
    /\ UNCHANGED <<records, position>>

Move(c) ==
    /\ \E k \in position[c]..Len(records) :
          position' = [position EXCEPT ![c] = k]
    /\ UNCHANGED <<records, boundary>>

Next == Put \/ Commit \/ \E c \in Consumer : Move(c)

Spec == Init /\ [][Next]_<<records, boundary, position>>
=============================================================================
