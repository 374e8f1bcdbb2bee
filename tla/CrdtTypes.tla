----------------------------- MODULE CrdtTypes -----------------------------
(***************************************************************************)
(* The replicated data types of src/runtime/crdt.rs and crdt_reg.rs: what  *)
(* a replica holds, its merge, its delta, its tombstone collection and     *)
(* what the wire format keeps.  A hash map is a function on all its        *)
(* possible keys, with 0 or NoTime at the keys that it lacks: no count and *)
(* no stamp that is ever stored has these values.                          *)
(***************************************************************************)
EXTENDS Naturals, FiniteSetsExt

CONSTANTS Peer,      \* node ids
          Element,   \* elements of the sets
          Tag        \* pairs <<node, counter>> that mark the adds of an ORSet

ASSUME PeerAssumption == Peer \subseteq Nat

----------------------------------------------------------------------------
(* LamportTime: <<counter, node>>, in the derived lexicographic order.     *)

Time == Nat \X Nat

NoTime == <<0, 0>>

Later(s, t) == s[1] > t[1] \/ (s[1] = t[1] /\ s[2] > t[2])

----------------------------------------------------------------------------
(* GCounter: a count for each node.  PNCounter is a pair of them.          *)

Counts == [Peer -> Nat]

ZeroCounts == [p \in Peer |-> 0]

CountsMerge(a, b) == [p \in Peer |-> IF b[p] > a[p] THEN b[p] ELSE a[p]]

CountsDelta(a, base) == [p \in Peer |-> IF a[p] > base[p] THEN a[p] ELSE 0]

CountsValue(a) == MapThenSumSet(LAMBDA p : a[p], Peer)

----------------------------------------------------------------------------
(* Maps to stamps, where the later stamp of a key wins: both maps of an    *)
(* AWORSet, and the tombstones of an ORSet.                                *)

StampsMerge(a, b) ==
  [k \in DOMAIN a |-> IF Later(b[k], a[k]) THEN b[k] ELSE a[k]]

StampsDelta(a, base) ==
  [k \in DOMAIN a |-> IF Later(a[k], base[k]) THEN a[k] ELSE NoTime]

NoStamps(K) == [k \in K |-> NoTime]

\* gc_tombstones: keep the tombstones above the watermark.
StampsAbove(a, watermark) ==
  [k \in DOMAIN a |->
     IF a[k] # NoTime /\ a[k][1] > watermark[a[k][2]] THEN a[k] ELSE NoTime]

----------------------------------------------------------------------------
(* MatrixClock: matrix[p][s] is the latest time of s that p has observed,  *)
(* as far as the owner of the matrix knows.                                *)

NoMatrix == [p \in Peer |-> ZeroCounts]

TickLocal(matrix, n) == [matrix EXCEPT ![n][n] = @ + 1]

\* The owner absorbs every row of the other matrix into its own row too.
MatrixMerge(matrix, other, n) ==
  [p \in Peer |->
     IF p = n
     THEN [s \in Peer |-> Max({matrix[n][s]} \cup {other[q][s] : q \in Peer})]
     ELSE CountsMerge(matrix[p], other[p])]

Reroot(matrix, n) == MatrixMerge(NoMatrix, matrix, n)

Prune(matrix, keep) ==
  [p \in Peer |-> IF p \in keep THEN matrix[p] ELSE ZeroCounts]

\* Mutant of Watermark: one replica that has observed a removal is enough.
WatermarkOfAny(matrix, keep) ==
  [s \in Peer |-> Max({matrix[p][s] : p \in keep})]

Watermark(matrix, keep) == [s \in Peer |-> Min({matrix[p][s] : p \in keep})]

----------------------------------------------------------------------------
(* ORSet: the live tags of each element, and the tombstones of tags.  An   *)
(* element stays among the keys of the map when a merge takes its last     *)
(* tag.                                                                    *)

NewORSet ==
  [type |-> "orset", keys |-> {}, entries |-> [e \in Element |-> {}],
   removed |-> NoStamps(Tag), tag |-> 0, matrix |-> NoMatrix]

ORSetAdd(a, n, e) ==
  [a EXCEPT !.keys = @ \cup {e}, !.entries[e] = @ \cup {<<n, a.tag>>},
            !.tag = @ + 1]

\* One tick stamps all tags of the element.
ORSetRemove(a, n, e) ==
  IF e \notin a.keys THEN a
  ELSE LET matrix == TickLocal(a.matrix, n) IN
       [a EXCEPT !.keys = @ \ {e}, !.entries[e] = {},
                 !.removed = [t \in Tag |-> IF t \in a.entries[e]
                                            THEN <<matrix[n][n], n>>
                                            ELSE a.removed[t]],
                 !.matrix = matrix]

\* A tag removed on either side does not survive.
TagsMerge(a, b) ==
  [e \in Element |->
     {t \in a.entries[e] : b.removed[t] = NoTime} \cup
     {t \in b.entries[e] : StampsMerge(a.removed, b.removed)[t] = NoTime}]

ORSetMerge(a, b, n) ==
  [a EXCEPT !.keys = a.keys \cup b.keys,
            !.entries = TagsMerge(a, b),
            !.removed = StampsMerge(a.removed, b.removed),
            !.tag = Max({a.tag, b.tag}),
            !.matrix = MatrixMerge(a.matrix, b.matrix, n)]

\* A tombstone that the base has is left out, whatever its stamp.
ORSetDelta(a, base) ==
  [a EXCEPT
     !.keys = {e \in Element : ~ (a.entries[e] \subseteq base.entries[e])},
     !.entries = [e \in Element |-> a.entries[e] \ base.entries[e]],
     !.removed = [t \in Tag |-> IF base.removed[t] = NoTime
                                THEN a.removed[t] ELSE NoTime]]

ORSetValue(a) == {e \in Element : a.entries[e] # {}}

----------------------------------------------------------------------------
(* AWORSet: the latest add and the latest removal of each element.  Its    *)
(* Lamport clock stamps nothing and is left out.                           *)

NewAWORSet ==
  [type |-> "aworset", entries |-> NoStamps(Element),
   removed |-> NoStamps(Element), matrix |-> NoMatrix]

AWORSetAdd(a, n, e) ==
  LET matrix == TickLocal(a.matrix, n) IN
  [a EXCEPT !.entries[e] = <<matrix[n][n], n>>, !.matrix = matrix]

AWORSetRemove(a, n, e) ==
  LET matrix == TickLocal(a.matrix, n) IN
  [a EXCEPT !.removed[e] = <<matrix[n][n], n>>, !.matrix = matrix]

AWORSetMerge(a, b, n) ==
  [a EXCEPT !.entries = StampsMerge(a.entries, b.entries),
            !.removed = StampsMerge(a.removed, b.removed),
            !.matrix = MatrixMerge(a.matrix, b.matrix, n)]

AWORSetDelta(a, base) ==
  [a EXCEPT !.entries = StampsDelta(a.entries, base.entries),
            !.removed = StampsDelta(a.removed, base.removed)]

AWORSetValue(a) == {e \in Element : Later(a.entries[e], a.removed[e])}

----------------------------------------------------------------------------
(* The registers.  LWWRegister keeps the write with the latest stamp,      *)
(* MVRegister the writes with the greatest counter.                        *)

LWWWrite(a, n, v) ==
  [a EXCEPT !.value = v, !.ts = <<a.clock + 1, n>>, !.clock = @ + 1]

LWWMerge(a, b) ==
  [a EXCEPT !.value = IF Later(b.ts, a.ts) THEN b.value ELSE a.value,
            !.ts = IF Later(b.ts, a.ts) THEN b.ts ELSE a.ts,
            !.clock = Max({a.clock, b.clock})]

\* to_bytes keeps the node of the clock and the counter of the stamp: the
\* reader stamps the value with the node that sent it.
LWWWire(a, n) == [a EXCEPT !.ts = <<a.ts[1], n>>, !.clock = a.ts[1]]

Newest(values) == {w \in values : \A v \in values : v[2][1] <= w[2][1]}

MVWrite(a, n, v) ==
  [a EXCEPT !.values = {w \in a.values : w[2][1] >= a.clock + 1} \cup
                       {<<v, <<a.clock + 1, n>>>>},
            !.clock = @ + 1]

MVMerge(a, b) ==
  [a EXCEPT !.values = Newest(a.values \cup b.values),
            !.clock = Max({a.clock, b.clock})]

MVDelta(a, base) == [a EXCEPT !.values = a.values \ base.values]

MVValue(a) == {w[1] : w \in Newest(a.values)}
=============================================================================
