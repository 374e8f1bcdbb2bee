-------------------------- MODULE FabricStreamStore --------------------------
(***************************************************************************)
(* FileFabricStreamStore for one stream (fabric_stream.rs): a log cut into *)
(* segment files, the state cached in memory about it, the committed       *)
(* boundary and the consumer cursors, with an I/O error or a crash at any  *)
(* point of an operation.                                                  *)
(*                                                                         *)
(* A segment is its base sequence, whether its header is complete, its     *)
(* frames, the length of the file, and how many frames a successful sync   *)
(* covers.  A frame is its payload, or Torn when only a part of it was     *)
(* written; frame k carries sequence base + k - 1, and checksums tell the  *)
(* two apart and have no state of their own.  A JSON file replaced by      *)
(* write_json_atomic is its content.                                       *)
(* The epoch, policy, intent and progress files are in                     *)
(* FabricStreamReplication and FabricStreamEpoch.                          *)
(***************************************************************************)
EXTENDS Integers, FiniteSets, SequencesExt

CONSTANTS Payload,      \* what a record carries
          Torn,         \* a frame that is not complete
          Consumer,     \* consumer names
          Size,         \* Size[p]: bytes of the frame of p
          SegmentMax,   \* segment_max_bytes
          MaxSequence   \* bound: records of the stream

ASSUME StoreAssumption ==
    /\ Torn \notin Payload
    /\ Size \in [Payload -> Nat \ {0}]
    /\ SegmentMax \in Nat
    /\ MaxSequence \in Nat

VARIABLES
    created,    \* meta.json exists
    segs,       \* the segment files, by base sequence
    cache,      \* the StreamState of the stream, or NoState
    committed,  \* commit.json
    cursors,    \* cursors.json
    acked       \* the records whose append was reported as a success

vars == <<created, segs, cache, committed, cursors, acked>>

\* SEGMENT_HEADER_LEN: the sizes of frames are relative to it.
Header == 1

Frames == Payload \cup {Torn}

Segments ==
    [base : Nat \ {0}, whole : BOOLEAN, frames : Seq(Frames), bytes : Nat,
     synced : Nat]

NoState == [next |-> 0, base |-> 0, len |-> 0]

States == [next : Nat, base : Nat, len : Nat]

\* create_segment.
NewSegment(base) ==
    [base |-> base, whole |-> TRUE, frames |-> <<>>, bytes |-> Header,
     synced |-> 0]

FrameSize(f) == IF f = Torn THEN 1 ELSE Size[f]

\* decode_segment without repair.
Decodes(s) == s.whole /\ Torn \notin Range(s.frames)

\* The sequence after the last record of a segment.
NextOf(s) == s.base + Len(s.frames)

-----------------------------------------------------------------------------
(* ensure_state and recover_stream.                                        *)

\* Mutant: the last frame is cut off even when it is complete.
RepairAlways(s) ==
    IF s.frames # <<>>
    THEN [s EXCEPT !.frames = Front(@), !.bytes = @ - FrameSize(Last(s.frames)),
                   !.synced = Len(s.frames) - 1]
    ELSE s

\* truncate_segment, which syncs the file; only the last frame of the last
\* segment may be incomplete.
Repair(s) ==
    IF s.frames # <<>> /\ Last(s.frames) = Torn
    THEN [s EXCEPT !.frames = Front(@), !.bytes = @ - FrameSize(Torn),
                   !.synced = Len(s.frames) - 1]
    ELSE s

Repaired ==
    [i \in 1..Len(segs) |-> IF i = Len(segs) THEN Repair(segs[i]) ELSE segs[i]]

\* The scan succeeds: every segment starts where the one before it ends.
Recovers ==
    /\ created
    /\ \A i \in 1..Len(segs) :
          /\ segs[i].base = IF i = 1 THEN 1 ELSE NextOf(Repaired[i - 1])
          /\ Decodes(Repaired[i])

Recovered ==
    [next |-> IF segs = <<>> THEN 1 ELSE NextOf(Last(Repaired)),
     base |-> IF segs = <<>> THEN 1 ELSE Last(segs).base,
     len  |-> IF segs = <<>> THEN 0 ELSE Last(Repaired).bytes]

\* Segment i has the complete record of sequence s.
Has(i, s) ==
    LET k == s - segs[i].base + 1
    IN  k \in DOMAIN segs[i].frames /\ segs[i].frames[k] # Torn

\* The complete records of the files, by sequence.
Records ==
    [s \in 1..(Recovered.next - 1) |->
        LET i == CHOOSE i \in DOMAIN segs : Has(i, s)
        IN  segs[i].frames[s - segs[i].base + 1]]

CanOpen == cache # NoState \/ Recovers

\* The state and the files once ensure_state has returned.
Opened == IF cache # NoState THEN cache ELSE Recovered

OpenSegs == IF cache # NoState THEN segs ELSE Repaired

LocalTail == Opened.next - 1

\* An operation that does no more than ensure_state: a read, a refused append,
\* a boundary that is already there.
Ensure ==
    /\ cache = NoState
    /\ Recovers
    /\ cache' = Recovered
    /\ segs' = Repaired
    /\ UNCHANGED <<created, committed, cursors, acked>>
-----------------------------------------------------------------------------
CreateStream ==
    /\ ~created
    /\ created' = TRUE
    /\ cache' = [next |-> 1, base |-> 1, len |-> 0]
    /\ UNCHANGED <<segs, committed, cursors, acked>>

\* The metadata is in place, but the directory could not be synced.
CreateStreamStops ==
    /\ ~created
    /\ created' = TRUE
    /\ UNCHANGED <<segs, cache, committed, cursors, acked>>

\* The frame goes to a new segment: there is none yet, or the current one has
\* records and the frame does not fit.
Rotates(st, p) ==
    \/ st.len = 0
    \/ st.len > Header /\ st.len + Size[p] > SegmentMax

\* The files with a new segment when one is needed.
Target(st, p) ==
    IF Rotates(st, p) THEN Append(OpenSegs, NewSegment(st.next)) ELSE OpenSegs

\* The segment with one more frame.
WithFrame(s, f) ==
    [s EXCEPT !.frames = Append(@, f), !.bytes = @ + FrameSize(f)]

\* The files with one more frame in the last segment.
Written(ss, f) == [ss EXCEPT ![Len(ss)] = WithFrame(@, f)]

Synced(ss) == [ss EXCEPT ![Len(ss)].synced = Len(ss[Len(ss)].frames)]

\* append_exact that succeeds.
AppendExact(p) ==
    LET st == Opened
        ss == Synced(Written(Target(st, p), p))
    IN  /\ CanOpen
        /\ st.next <= MaxSequence
        /\ segs' = ss
        /\ cache' = [next |-> st.next + 1,
                     base |-> IF Rotates(st, p) THEN st.next ELSE st.base,
                     len  |-> (IF Rotates(st, p) THEN Header ELSE st.len)
                                + Size[p]]
        /\ acked' = acked \cup {[seq |-> st.next, payload |-> p]}
        /\ UNCHANGED <<created, committed, cursors>>

\* Mutant: an error leaves the cached state as it was.
AfterErrorKept == Opened

\* "Force the next operation to rescan/recover rather than trusting cached
\* state"; a crash loses it anyway.
AfterError == NoState

\* append_exact fails, or the process dies in it: the segment file is there
\* with a part of its header, or all of it, or the frame is written in part,
\* or in full without a sync.
AppendExactStops(p) ==
    LET st == Opened
        new == Target(st, p)
    IN  /\ CanOpen
        /\ st.next <= MaxSequence
        /\ \/ /\ Rotates(st, p)
              /\ segs' = [new EXCEPT ![Len(new)] = [@ EXCEPT !.whole = FALSE,
                                                             !.bytes = 0]]
           \/ Rotates(st, p) /\ segs' = new
           \/ segs' = Written(new, Torn)
           \/ segs' = Written(new, p)
        /\ cache' = AfterError
        /\ UNCHANGED <<created, committed, cursors, acked>>

\* append_replica of a record that is already there is a success.
AppendReplicaAgain(s) ==
    /\ CanOpen
    /\ s \in 1..LocalTail
    /\ cache' = Opened
    /\ segs' = OpenSegs
    /\ acked' = acked \cup {[seq |-> s, payload |-> Records[s]]}
    /\ UNCHANGED <<created, committed, cursors>>

\* The checks of commit_through that do not return at once.
MayCommit(s) == s > committed /\ s <= LocalTail

\* commit_through.  A failure after the rename has the same effect, and one
\* before it has none.
CommitThrough(s) ==
    /\ CanOpen
    /\ MayCommit(s)
    /\ committed' = s
    /\ cache' = Opened
    /\ segs' = OpenSegs
    /\ UNCHANGED <<created, cursors, acked>>

\* Mutant: a cursor may move backwards.
MayMoveAnywhere(c, s) == s <= LocalTail

MayMove(c, s) == s >= cursors[c] /\ s <= LocalTail

\* commit_cursor.
CommitCursor(c, s) ==
    /\ CanOpen
    /\ MayMove(c, s)
    /\ cursors' = [cursors EXCEPT ![c] = s]
    /\ cache' = Opened
    /\ segs' = OpenSegs
    /\ UNCHANGED <<created, committed, acked>>

\* The process is restarted: nothing is cached.
Restart ==
    /\ cache # NoState
    /\ cache' = NoState
    /\ UNCHANGED <<created, segs, committed, cursors, acked>>
-----------------------------------------------------------------------------
Init ==
    /\ created = FALSE
    /\ segs = <<>>
    /\ cache = NoState
    /\ committed = 0
    /\ cursors = [c \in Consumer |-> 0]
    /\ acked = {}

Next ==
    \/ CreateStream
    \/ CreateStreamStops
    \/ Ensure
    \/ \E p \in Payload : AppendExact(p) \/ AppendExactStops(p)
    \/ \E s \in 1..MaxSequence : \/ AppendReplicaAgain(s)
                                 \/ CommitThrough(s)
                                 \/ \E c \in Consumer : CommitCursor(c, s)
    \/ Restart

Spec == Init /\ [][Next]_vars
-----------------------------------------------------------------------------
(* Properties.                                                             *)

\* Types of the files and of the cached state; the base of a segment is the
\* sequence of its first record.
TypeOK ==
    /\ created \in BOOLEAN
    /\ segs \in Seq(Segments)
    /\ \A i \in 1..Len(segs) : segs[i].synced <= Len(segs[i].frames)
    /\ cache \in States
    /\ committed \in Nat
    /\ cursors \in [Consumer -> Nat]
    /\ acked \subseteq [seq : Nat, payload : Payload]

\* While the state of a stream is cached, appends trust it without a look at
\* the files and reads decode them without repair: it is what a scan of the
\* files would find, and every segment decodes.  (append_exact drops the state
\* on any error for this.)
CachedStateIsExact ==
    cache # NoState => /\ cache = Recovered
                       /\ \A i \in 1..Len(segs) : Decodes(segs[i])

\* A reported record stays in the files with its payload, through failed
\* appends, repairs and restarts.
AckedRecordsSurvive ==
    \A a \in acked : a.seq <= Len(Records) /\ Records[a.seq] = a.payload

\* The files as one flat log.
FlatLog == INSTANCE FabricDurableLog
    WITH records <- Records, boundary <- committed, position <- cursors

\* Segments, torn frames, repair and caching are invisible: the store is an
\* append-only log whose boundary and cursors never move back or beyond it.
ImplementsDurableLog == FlatLog!Spec

\* "An incomplete final frame is treated as a torn tail and truncated to the
\* last complete record": a crash in an append never makes a stream unusable.
CrashedStreamReopens == created => CanOpen

\* A replica application ACK means "the follower validated placement and
\* fsynced the exact sequence".
AckedRecordsAreSynced ==
    \A a \in acked :
        \A i \in 1..Len(segs) :
            LET k == a.seq - segs[i].base + 1
            IN  k \in 1..Len(segs[i].frames) => k <= segs[i].synced
=============================================================================
