----------------------- MODULE FabricStreamStoreProofs -----------------------
(***************************************************************************)
(* Proofs about the store of a Fabric stream, for any payloads, frame      *)
(* sizes, segment bound, consumers and number of records: the cached state *)
(* is what a scan of the files would find, reported records survive, and   *)
(* the files are a flat durable log.                                       *)
(*                                                                         *)
(* The definitions of FabricStreamStore that read the files are restated   *)
(* for a sequence ss of segments, so that lemmas about the steps that an   *)
(* operation is made of (repair, a new segment, a frame, a sync) can be    *)
(* put together.                                                           *)
(***************************************************************************)
EXTENDS FabricStreamStore, SequenceTheorems, TLAPS

-----------------------------------------------------------------------------
(* Files.                                                                  *)

RepairIn(ss) ==
    [i \in 1..Len(ss) |-> IF i = Len(ss) THEN Repair(ss[i]) ELSE ss[i]]

NextIn(ss) == IF ss = <<>> THEN 1 ELSE NextOf(Repair(ss[Len(ss)]))

HasIn(ss, i, s) ==
    /\ s - ss[i].base + 1 \in DOMAIN ss[i].frames
    /\ ss[i].frames[s - ss[i].base + 1] # Torn

LogIn(ss) ==
    [s \in 1..(NextIn(ss) - 1) |->
        LET i == CHOOSE i \in DOMAIN ss : HasIn(ss, i, s)
        IN  ss[i].frames[s - ss[i].base + 1]]

\* A segment file: a torn frame is the last one, and the length tells whether
\* there are frames.
SegmentOK(g) ==
    /\ g \in Segments /\ g.synced <= Len(g.frames)
    /\ \A k \in DOMAIN g.frames : g.frames[k] = Torn => k = Len(g.frames)
    /\ ~g.whole => g.frames = <<>>
    /\ g.whole => g.bytes >= Header + Len(g.frames)
    /\ g.whole /\ g.frames = <<>> => g.bytes = Header
    /\ g.frames = <<Torn>> => g.bytes = Header + 1

\* Segments but the last are complete and not empty, and a segment starts
\* where the one before it ends.
ChainOK(ss) ==
    /\ ss \in Seq(Segments)
    /\ \A i \in DOMAIN ss : SegmentOK(ss[i])
    /\ ss # <<>> => ss[1].base = 1
    /\ \A i \in DOMAIN ss : i # Len(ss) =>
          /\ ss[i + 1].base = NextOf(ss[i])
          /\ Decodes(ss[i]) /\ ss[i].frames # <<>>
    /\ \A i, j \in DOMAIN ss : i < j => NextOf(ss[i]) <= ss[j].base

\* Every sequence before the next one has a segment.
CoverOK(ss) == \A s \in 1..(NextIn(ss) - 1) : \E i \in DOMAIN ss : HasIn(ss, i, s)

FilesOK(ss) == ChainOK(ss) /\ CoverOK(ss)

AllDecode(ss) == \A i \in DOMAIN ss : Decodes(ss[i])

\* The complete frames of ss are in the same places of tt.
Keeps(ss, tt) ==
    \A i \in DOMAIN ss :
        /\ i \in DOMAIN tt /\ tt[i].base = ss[i].base
        /\ \A k \in DOMAIN ss[i].frames : ss[i].frames[k] # Torn =>
              k \in DOMAIN tt[i].frames /\ tt[i].frames[k] = ss[i].frames[k]

\* The fields of a segment.
LEMMA SegmentFields ==
  ASSUME NEW g \in Segments
  PROVE  /\ DOMAIN g = {"base", "whole", "frames", "bytes", "synced"}
         /\ g.base \in Nat \ {0} /\ g.whole \in BOOLEAN
         /\ g.frames \in Seq(Frames) /\ g.bytes \in Nat /\ g.synced \in Nat
         /\ Len(g.frames) \in Nat /\ DOMAIN g.frames = 1..Len(g.frames)
         /\ NextOf(g) = g.base + Len(g.frames) /\ NextOf(g) \in Nat \ {0}
BY DEF Segments, NextOf

\* A segment of a chain is in order.
LEMMA FilesSegment ==
  ASSUME NEW ss, ChainOK(ss), NEW i \in DOMAIN ss
  PROVE  /\ ss[i] \in Segments /\ SegmentOK(ss[i]) /\ i \in Nat
         /\ Len(ss) \in Nat /\ DOMAIN ss = 1..Len(ss)
BY DEF ChainOK

\* A repaired segment ends with a complete record; nothing complete is lost.
LEMMA RepairOK ==
  ASSUME NEW g, SegmentOK(g)
  PROVE  /\ SegmentOK(Repair(g)) /\ Repair(g).base = g.base
         /\ Repair(g).whole = g.whole
         /\ \A k \in DOMAIN Repair(g).frames : Repair(g).frames[k] # Torn
         /\ \A k \in DOMAIN Repair(g).frames :
               k \in DOMAIN g.frames /\ Repair(g).frames[k] = g.frames[k]
         /\ \A k \in DOMAIN g.frames : g.frames[k] # Torn =>
               k \in DOMAIN Repair(g).frames
         /\ Decodes(g) => Repair(g) = g
         /\ g.whole => Decodes(Repair(g))
<1> DEFINE n == Len(g.frames)
<1>1. /\ g \in Segments /\ n \in Nat /\ DOMAIN g.frames = 1..n
      /\ DOMAIN g = {"base", "whole", "frames", "bytes", "synced"}
      /\ g.base \in Nat \ {0} /\ g.whole \in BOOLEAN
      /\ g.frames \in Seq(Frames) /\ g.bytes \in Nat /\ g.synced \in Nat
  BY SegmentFields DEF SegmentOK
<1>0. /\ g.synced <= n
      /\ \A k \in DOMAIN g.frames : g.frames[k] = Torn => k = n
      /\ ~g.whole => g.frames = <<>>
      /\ g.whole => g.bytes >= 1 + n
      /\ g.frames = <<Torn>> => g.bytes = 1 + 1
  BY Zenon DEF SegmentOK, Header
<1>2. CASE g.frames # <<>> /\ Last(g.frames) = Torn
  <2>1. n >= 1 /\ g.frames[n] = Torn
    BY <1>1, <1>2 DEF Last
  <2>2. PICK h, fr : h = Repair(g) /\ fr = SubSeq(g.frames, 1, n - 1)
    BY Zenon
  <2>3. /\ fr \in Seq(Frames) /\ Len(fr) = n - 1
        /\ DOMAIN fr = 1..(n - 1)
        /\ \A k \in 1..(n - 1) : fr[k] = g.frames[k]
    <3>1. \A i \in 1..(n - 1) : g.frames[i] \in Frames
      BY <1>1
    <3>2. n - 1 \in Nat
      BY <1>1, <2>1
    <3> HIDE DEF n
    <3>3. /\ fr \in Seq(Frames)
          /\ Len(fr) = IF 1 <= n - 1 THEN n - 1 - 1 + 1 ELSE 0
          /\ \A i \in 1..(n - 1 - 1 + 1) : fr[i] = g.frames[1 + i - 1]
      BY <2>2, <3>1, <3>2, SubSeqProperties
    <3>4. QED
      BY <3>2, <3>3
  <2>4. h = [base |-> g.base, whole |-> g.whole, frames |-> fr,
             bytes |-> g.bytes - 1, synced |-> n - 1]
    <3>1. g = [base |-> g.base, whole |-> g.whole, frames |-> g.frames,
               bytes |-> g.bytes, synced |-> g.synced]
      BY <1>1 DEF Segments
    <3>2. h = [g EXCEPT !.frames = fr, !.bytes = g.bytes - 1, !.synced = n - 1]
      BY <1>1, <1>2, <2>1, <2>2 DEF Repair, FrameSize, Front
    <3>3. QED
      BY <3>1, <3>2, Zenon
  <2>5. \A k \in 1..(n - 1) : g.frames[k] # Torn
    BY <1>0, <1>1
  <2>6. g.whole /\ g.bytes >= 1 + n
    BY <1>0, <1>1, <1>2
  <2>7. /\ h \in Segments
        /\ h.base = g.base /\ h.whole = g.whole /\ h.frames = fr
        /\ h.bytes = g.bytes - 1 /\ h.synced = n - 1
    BY <1>1, <2>1, <2>3, <2>4, <2>6 DEF Segments
  <2>8. SegmentOK(h)
    <3>1. \A k \in DOMAIN h.frames : h.frames[k] # Torn
      BY <2>3, <2>5, <2>7
    <3>2. /\ h.synced <= Len(h.frames) /\ h.whole
          /\ h.bytes >= 1 + Len(h.frames)
      BY <1>1, <2>1, <2>3, <2>6, <2>7
    <3>3. h.frames = <<>> => h.bytes = 1
      <4>1. ASSUME h.frames = <<>> PROVE g.frames = <<Torn>>
        BY <1>1, <2>1, <2>3, <2>7, <4>1
      <4>2. QED
        BY <1>0, <2>7, <4>1
    <3>5. h.frames # <<Torn>>
      BY <3>1
    <3>4. QED
      BY <2>7, <3>1, <3>2, <3>3, <3>5 DEF SegmentOK, Header
  <2>9. ~Decodes(g)
    BY <1>1, <2>1 DEF Decodes, Range
  <2>10. Decodes(h)
    BY <2>3, <2>5, <2>6, <2>7 DEF Decodes, Range
  <2>11. QED
    BY <1>1, <2>1, <2>2, <2>3, <2>5, <2>7, <2>8, <2>9, <2>10
<1>3. CASE ~(g.frames # <<>> /\ Last(g.frames) = Torn)
  <2>1. Repair(g) = g
    BY <1>3 DEF Repair
  <2>2. \A k \in DOMAIN g.frames : g.frames[k] # Torn
    BY <1>1, <1>3 DEF SegmentOK, Last
  <2>3. g.whole => Decodes(g)
    BY <2>2 DEF Decodes, Range
  <2>4. QED
    BY <2>1, <2>2, <2>3
<1>4. QED
  BY <1>2, <1>3


\* The next sequence is a number, given by the last segment.
LEMMA NextInFacts ==
  ASSUME NEW ss, ChainOK(ss)
  PROVE  /\ NextIn(ss) \in Nat \ {0}
         /\ ss = <<>> => NextIn(ss) = 1
         /\ ss # <<>> => /\ Len(ss) \in DOMAIN ss
                         /\ SegmentOK(ss[Len(ss)])
                         /\ NextIn(ss) = NextOf(Repair(ss[Len(ss)]))
<1>1. CASE ss = <<>>
  BY <1>1 DEF NextIn
<1>2. CASE ss # <<>>
  <2>1. Len(ss) \in DOMAIN ss
    BY <1>2 DEF ChainOK
  <2>2. SegmentOK(ss[Len(ss)])
    BY <2>1 DEF ChainOK
  <2>3. SegmentOK(Repair(ss[Len(ss)]))
    BY <2>2, RepairOK
  <2>4. NextOf(Repair(ss[Len(ss)])) \in Nat \ {0}
    BY <2>3, SegmentFields DEF SegmentOK
  <2>5. QED
    BY <1>2, <2>1, <2>2, <2>4 DEF NextIn
<1>3. QED
  BY <1>1, <1>2

\* A record is in one segment only, so the log is what that segment has.
LEMMA LogAt ==
  ASSUME NEW ss, ChainOK(ss), NEW s \in 1..(NextIn(ss) - 1),
         NEW i \in DOMAIN ss, HasIn(ss, i, s)
  PROVE  LogIn(ss)[s] = ss[i].frames[s - ss[i].base + 1]
<1>1. PICK j : j = CHOOSE k \in DOMAIN ss : HasIn(ss, k, s)
  OBVIOUS
<1>2. j \in DOMAIN ss /\ HasIn(ss, j, s)
  BY <1>1
<1>3. LogIn(ss)[s] = ss[j].frames[s - ss[j].base + 1]
  BY <1>1 DEF LogIn
<1>4. s \in Nat
  BY NextInFacts
<1>5. ASSUME NEW k \in DOMAIN ss, HasIn(ss, k, s)
      PROVE  s >= ss[k].base /\ s < NextOf(ss[k]) /\ k \in Nat
  <2>1. ss[k] \in Segments /\ k \in Nat
    BY FilesSegment
  <2>2. /\ ss[k].base \in Nat /\ Len(ss[k].frames) \in Nat
        /\ DOMAIN ss[k].frames = 1..Len(ss[k].frames)
        /\ NextOf(ss[k]) = ss[k].base + Len(ss[k].frames)
    BY <2>1, SegmentFields
  <2>3. s - ss[k].base + 1 \in 1..Len(ss[k].frames)
    BY <1>5, <2>2 DEF HasIn
  <2>4. QED
    BY <1>4, <2>1, <2>2, <2>3
<1>6. i = j
  <2>1. ASSUME NEW k \in DOMAIN ss, NEW m \in DOMAIN ss, HasIn(ss, k, s),
               HasIn(ss, m, s), k < m
        PROVE  FALSE
    <3>1. NextOf(ss[k]) <= ss[m].base
      BY <2>1 DEF ChainOK
    <3>2. /\ ss[m].base \in Nat /\ NextOf(ss[k]) \in Nat
      BY FilesSegment, SegmentFields
    <3>3. QED
      BY <1>4, <1>5, <2>1, <3>1, <3>2
  <2>2. i \in Nat /\ j \in Nat
    BY <1>2, <1>5
  <2>3. QED
    BY <1>2, <2>1, <2>2
<1>7. QED
  BY <1>3, <1>6

\* Files that keep the complete frames keep the log.
LEMMA LogKept ==
  ASSUME NEW ss, FilesOK(ss), NEW tt, ChainOK(tt), Keeps(ss, tt),
         NextIn(ss) <= NextIn(tt)
  PROVE  \A s \in 1..(NextIn(ss) - 1) :
           /\ \E i \in DOMAIN tt : HasIn(tt, i, s)
           /\ LogIn(tt)[s] = LogIn(ss)[s]
<1> SUFFICES ASSUME NEW s \in 1..(NextIn(ss) - 1)
             PROVE  /\ \E i \in DOMAIN tt : HasIn(tt, i, s)
                    /\ LogIn(tt)[s] = LogIn(ss)[s]
  OBVIOUS
<1>1. PICK i \in DOMAIN ss : HasIn(ss, i, s)
  BY DEF FilesOK, CoverOK
<1>2. ChainOK(ss)
  BY DEF FilesOK
<1>3. NextIn(ss) \in Nat /\ NextIn(tt) \in Nat
  BY <1>2, NextInFacts
<1>4. s \in 1..(NextIn(tt) - 1)
  BY <1>3
<1>5. /\ i \in DOMAIN tt /\ HasIn(tt, i, s)
      /\ tt[i].frames[s - tt[i].base + 1] = ss[i].frames[s - ss[i].base + 1]
  BY <1>1 DEF HasIn, Keeps
<1>6. LogIn(ss)[s] = ss[i].frames[s - ss[i].base + 1]
  BY <1>1, <1>2, LogAt
<1>7. LogIn(tt)[s] = tt[i].frames[s - tt[i].base + 1]
  BY <1>4, <1>5, LogAt
<1>8. QED
  BY <1>5, <1>6, <1>7

\* The same when the log does not grow.
LEMMA LogSame ==
  ASSUME NEW ss, FilesOK(ss), NEW tt, ChainOK(tt), Keeps(ss, tt),
         NextIn(tt) = NextIn(ss)
  PROVE  FilesOK(tt) /\ LogIn(tt) = LogIn(ss)
<1>1. NextIn(ss) \in Nat
  BY NextInFacts DEF FilesOK
<1>2. \A s \in 1..(NextIn(ss) - 1) :
        /\ \E i \in DOMAIN tt : HasIn(tt, i, s)
        /\ LogIn(tt)[s] = LogIn(ss)[s]
  BY <1>1, LogKept
<1>3. CoverOK(tt)
  BY <1>2 DEF CoverOK
<1>4. LogIn(tt) = LogIn(ss)
  BY <1>2 DEF LogIn
<1>5. QED
  BY <1>3, <1>4 DEF FilesOK

\* The last segment of a chain is replaced by one that starts where it does.
LEMMA ReplaceLast ==
  ASSUME NEW ss, ChainOK(ss), ss # <<>>, NEW g, SegmentOK(g),
         g.base = ss[Len(ss)].base
  PROVE  LET tt == [ss EXCEPT ![Len(ss)] = g]
         IN /\ ChainOK(tt) /\ tt # <<>> /\ Len(tt) = Len(ss)
            /\ DOMAIN tt = DOMAIN ss
            /\ tt[Len(ss)] = g
            /\ \A i \in DOMAIN ss : i # Len(ss) => tt[i] = ss[i]
<1> DEFINE n == Len(ss)
           tt == [ss EXCEPT ![n] = g]
<1>1. ss \in Seq(Segments) /\ g \in Segments /\ n \in Nat /\ n \in DOMAIN ss
      /\ DOMAIN ss = 1..n
  BY DEF ChainOK, SegmentOK
<1>2. /\ tt \in Seq(Segments) /\ Len(tt) = n /\ DOMAIN tt = DOMAIN ss
      /\ tt[n] = g /\ tt # <<>>
      /\ \A i \in DOMAIN ss : i # n => tt[i] = ss[i]
  BY <1>1
<1>3. \A i \in DOMAIN ss : tt[i].base = ss[i].base
  BY <1>2
<1> HIDE DEF tt
<1>4. \A i \in DOMAIN tt : SegmentOK(tt[i])
  BY <1>2 DEF ChainOK
<1>5. tt[1].base = 1
  BY <1>1, <1>3 DEF ChainOK
<1>6. \A i \in DOMAIN tt : i # n =>
        /\ tt[i + 1].base = NextOf(tt[i])
        /\ Decodes(tt[i]) /\ tt[i].frames # <<>>
  <2> SUFFICES ASSUME NEW i \in DOMAIN ss, i # n
               PROVE  /\ tt[i + 1].base = NextOf(tt[i])
                      /\ Decodes(tt[i]) /\ tt[i].frames # <<>>
    BY <1>2
  <2>1. i + 1 \in DOMAIN ss
    BY <1>1
  <2>2. /\ ss[i + 1].base = NextOf(ss[i])
        /\ Decodes(ss[i]) /\ ss[i].frames # <<>>
    BY DEF ChainOK
  <2>3. QED
    BY <1>2, <1>3, <2>1, <2>2
<1>7. \A i, j \in DOMAIN tt : i < j => NextOf(tt[i]) <= tt[j].base
  BY <1>1, <1>2, <1>3 DEF ChainOK
<1>8. ChainOK(tt)
  BY <1>2, <1>4, <1>5, <1>6, <1>7 DEF ChainOK
<1>9. QED
  BY <1>2, <1>8 DEF tt


\* Files that decode need no repair.
LEMMA DecodedFiles ==
  ASSUME NEW ss, ChainOK(ss), AllDecode(ss)
  PROVE  /\ RepairIn(ss) = ss
         /\ ss # <<>> => NextIn(ss) = NextOf(ss[Len(ss)])
<1>1. \A i \in DOMAIN ss : Repair(ss[i]) = ss[i]
  BY RepairOK DEF ChainOK, AllDecode
<1>2. ss \in Seq(Segments)
  BY DEF ChainOK
<1>3. RepairIn(ss) = ss
  BY <1>1, <1>2 DEF RepairIn
<1>4. ss # <<>> => Len(ss) \in DOMAIN ss
  BY <1>2
<1>5. QED
  BY <1>1, <1>3, <1>4 DEF NextIn

\* What recover_stream does to files with complete headers.
LEMMA RepairedFiles ==
  ASSUME NEW ss, FilesOK(ss), \A i \in DOMAIN ss : ss[i].whole
  PROVE  LET tt == RepairIn(ss)
         IN /\ FilesOK(tt) /\ AllDecode(tt)
            /\ NextIn(tt) = NextIn(ss) /\ LogIn(tt) = LogIn(ss)
            /\ Len(tt) = Len(ss)
            /\ ss # <<>> => /\ tt # <<>>
                            /\ tt[Len(ss)] = Repair(ss[Len(ss)])
                            /\ tt[Len(ss)].base = ss[Len(ss)].base
            /\ ss = <<>> => tt = <<>>
<1>0. ChainOK(ss) /\ ss \in Seq(Segments)
  BY DEF FilesOK, ChainOK
<1>1. CASE ss = <<>>
  <2>1. RepairIn(ss) = ss
    BY <1>1 DEF RepairIn
  <2>2. AllDecode(ss)
    BY <1>1 DEF AllDecode
  <2>3. QED
    BY <1>1, <2>1, <2>2
<1>2. CASE ss # <<>>
  <2> DEFINE n == Len(ss)
             g == Repair(ss[n])
             tt == [ss EXCEPT ![n] = g]
  <2>1. n \in DOMAIN ss /\ SegmentOK(ss[n]) /\ NextIn(ss) = NextOf(g)
    BY <1>0, <1>2, NextInFacts
  <2>2. /\ SegmentOK(g) /\ g.base = ss[n].base /\ Decodes(g) /\ Repair(g) = g
        /\ \A k \in DOMAIN ss[n].frames : ss[n].frames[k] # Torn =>
             k \in DOMAIN g.frames /\ g.frames[k] = ss[n].frames[k]
    <3>1. ss[n].whole
      BY <2>1
    <3>2. /\ SegmentOK(g) /\ g.base = ss[n].base /\ Decodes(g)
      BY <2>1, <3>1, RepairOK
    <3>3. Repair(g) = g
      BY <3>2, RepairOK
    <3>4. QED
      BY <2>1, <3>2, <3>3, RepairOK
  <2>3. RepairIn(ss) = tt
    BY <1>0, <2>1 DEF RepairIn
  <2> HIDE DEF g
  <2>4. /\ ChainOK(tt) /\ tt # <<>> /\ Len(tt) = n /\ DOMAIN tt = DOMAIN ss
        /\ tt[n] = g /\ \A i \in DOMAIN ss : i # n => tt[i] = ss[i]
    BY <1>0, <1>2, <2>2, ReplaceLast
  <2> HIDE DEF tt
  <2>5. NextIn(tt) = NextIn(ss)
    BY <2>1, <2>2, <2>4 DEF NextIn
  <2>6. AllDecode(tt)
    BY <1>0, <2>2, <2>4 DEF AllDecode, ChainOK
  <2>7. Keeps(ss, tt)
    BY <2>2, <2>4 DEF Keeps
  <2>8. FilesOK(tt) /\ LogIn(tt) = LogIn(ss)
    BY <2>4, <2>5, <2>7, LogSame
  <2>9. QED
    BY <1>2, <2>2, <2>3, <2>4, <2>5, <2>6, <2>8, SMTT(30) DEF g
<1>3. QED
  BY <1>1, <1>2

\* A segment file is created behind records.
LEMMA NewSegmentFiles ==
  ASSUME NEW ss, FilesOK(ss), AllDecode(ss),
         ss # <<>> => ss[Len(ss)].frames # <<>>,
         NEW g, SegmentOK(g), g.base = NextIn(ss), g.frames = <<>>
  PROVE  LET tt == Append(ss, g)
         IN /\ FilesOK(tt) /\ (g.whole => AllDecode(tt))
            /\ NextIn(tt) = NextIn(ss) /\ LogIn(tt) = LogIn(ss)
            /\ tt # <<>> /\ Len(tt) = Len(ss) + 1 /\ tt[Len(tt)] = g
<1> DEFINE n == Len(ss)
           tt == Append(ss, g)
<1>1. /\ ChainOK(ss) /\ ss \in Seq(Segments) /\ g \in Segments /\ n \in Nat
      /\ DOMAIN ss = 1..n
  BY DEF FilesOK, ChainOK, SegmentOK
<1>2. /\ tt \in Seq(Segments) /\ Len(tt) = n + 1 /\ DOMAIN tt = 1..(n + 1)
      /\ tt[n + 1] = g /\ tt # <<>>
      /\ \A i \in 1..n : tt[i] = ss[i]
  <2>1. /\ tt \in Seq(Segments) /\ tt # <<>> /\ Len(tt) = n + 1
        /\ \A i \in 1..n : tt[i] = ss[i]
        /\ tt[n + 1] = g
    BY <1>1, AppendProperties
  <2>2. QED
    BY <1>1, <2>1
<1> HIDE DEF tt
<1>3. \A i \in DOMAIN tt : SegmentOK(tt[i])
  BY <1>1, <1>2 DEF ChainOK
<1>4. /\ ss # <<>> => n \in DOMAIN ss /\ g.base = NextOf(ss[n])
      /\ ss = <<>> => g.base = 1
  BY <1>1, DecodedFiles, NextInFacts
<1>5. tt[1].base = 1
  <2>1. CASE ss = <<>>
    BY <1>1, <1>2, <1>4, <2>1
  <2>2. CASE ss # <<>>
    BY <1>1, <1>2, <1>4, <2>2 DEF ChainOK
  <2>3. QED
    BY <2>1, <2>2
<1>6. ASSUME NEW i \in DOMAIN tt, i # n + 1
      PROVE  /\ tt[i + 1].base = NextOf(tt[i])
             /\ Decodes(tt[i]) /\ tt[i].frames # <<>>
  <2>1. i \in DOMAIN ss /\ ss # <<>>
    BY <1>1, <1>2, <1>6
  <2>2. CASE i = n
    BY <1>1, <1>2, <1>4, <2>1, <2>2 DEF AllDecode
  <2>3. CASE i # n
    <3>1. i + 1 \in DOMAIN ss
      BY <1>1, <2>1, <2>3
    <3>2. QED
      BY <1>1, <1>2, <2>1, <2>3, <3>1 DEF ChainOK
  <2>4. QED
    BY <2>2, <2>3
<1>7. ASSUME NEW i \in DOMAIN tt, NEW j \in DOMAIN tt, i < j
      PROVE  NextOf(tt[i]) <= tt[j].base
  <2>1. i \in DOMAIN ss
    BY <1>1, <1>2, <1>7
  <2>2. CASE j \in DOMAIN ss
    BY <1>1, <1>2, <1>7, <2>1, <2>2 DEF ChainOK
  <2>3. CASE j = n + 1
    <3>1. n \in DOMAIN ss /\ g.base = NextOf(ss[n]) /\ tt[i] = ss[i]
      BY <1>1, <1>2, <1>4, <2>1
    <3>2. /\ ss[i] \in Segments /\ ss[n] \in Segments
      BY <1>1, <2>1, <3>1
    <3>3. /\ NextOf(ss[i]) \in Nat /\ NextOf(ss[n]) \in Nat
          /\ ss[n].base \in Nat /\ NextOf(ss[n]) >= ss[n].base
      BY <3>2, SegmentFields, SMTT(30), Z3T(30)
    <3>4. i # n => NextOf(ss[i]) <= ss[n].base
      BY <1>1, <2>1, <3>1 DEF ChainOK
    <3>5. QED
      BY <1>2, <2>3, <3>1, <3>3, <3>4
  <2>4. QED
    BY <1>1, <1>2, <2>2, <2>3
<1>8. ChainOK(tt)
  BY <1>2, <1>3, <1>5, <1>6, <1>7 DEF ChainOK
<1>9. NextIn(tt) = NextIn(ss)
  <2>1. Repair(g) = g
    BY DEF Repair
  <2>2. g.base \in Nat /\ Len(g.frames) = 0
    BY <1>1, SegmentFields
  <2>3. QED
    BY <1>2, <2>1, <2>2 DEF NextIn, NextOf
<1>10. Keeps(ss, tt)
  BY <1>1, <1>2 DEF Keeps
<1>11. FilesOK(tt) /\ LogIn(tt) = LogIn(ss)
  BY <1>8, <1>9, <1>10, LogSame
<1>12. g.whole => AllDecode(tt)
  BY <1>1, <1>2 DEF AllDecode, Decodes, Range
<1>13. QED
  BY <1>2, <1>9, <1>11, <1>12 DEF tt


\* A frame is written to the last segment, in part or in full.
LEMMA WrittenFiles ==
  ASSUME NEW ss, FilesOK(ss), AllDecode(ss), ss # <<>>, NEW f \in Frames
  PROVE  LET tt == Written(ss, f)
         IN /\ FilesOK(tt) /\ tt # <<>> /\ Len(tt) = Len(ss)
            /\ tt[Len(ss)].base = ss[Len(ss)].base
            /\ f = Torn => NextIn(tt) = NextIn(ss) /\ LogIn(tt) = LogIn(ss)
            /\ f # Torn => /\ AllDecode(tt)
                           /\ NextIn(tt) = NextIn(ss) + 1
                           /\ LogIn(tt) = Append(LogIn(ss), f)
                           /\ tt[Len(ss)].bytes = ss[Len(ss)].bytes + Size[f]
<1>0. PICK n, h : n = Len(ss) /\ h = ss[n]
  OBVIOUS
<1>1. /\ ChainOK(ss) /\ ss \in Seq(Segments) /\ n \in DOMAIN ss
      /\ SegmentOK(h) /\ h \in Segments /\ NextIn(ss) = NextOf(h)
      /\ NextIn(ss) \in Nat \ {0} /\ Decodes(h)
  <2>1. ChainOK(ss) /\ ss \in Seq(Segments)
    BY DEF FilesOK, ChainOK
  <2>2. QED
    BY <1>0, <2>1, NextInFacts, DecodedFiles DEF SegmentOK, AllDecode
<1>2. /\ h.base \in Nat \ {0} /\ h.whole \in BOOLEAN /\ h.frames \in Seq(Frames)
      /\ h.bytes \in Nat /\ h.synced \in Nat
      /\ NextOf(h) = h.base + Len(h.frames)
      /\ DOMAIN h.frames = 1..Len(h.frames)
  BY <1>1, SegmentFields
<1>3. PICK fr : fr = Append(h.frames, f)
  BY Zenon
<1>4. PICK m : m = Len(h.frames)
  BY Zenon
<1>5. /\ fr \in Seq(Frames) /\ Len(fr) = m + 1 /\ m \in Nat /\ fr # <<>>
      /\ DOMAIN fr = 1..(m + 1) /\ fr[m + 1] = f
      /\ \A k \in 1..m : fr[k] = h.frames[k]
  <2>1. /\ fr \in Seq(Frames) /\ fr # <<>> /\ Len(fr) = m + 1
        /\ \A i \in 1..m : fr[i] = h.frames[i]
        /\ fr[m + 1] = f
    BY <1>2, <1>3, <1>4, AppendProperties
  <2>2. QED
    BY <1>2, <1>4, <2>1
<1>6. FrameSize(f) \in Nat \ {0} /\ (f # Torn => FrameSize(f) = Size[f])
      /\ (f = Torn => FrameSize(f) = 1)
  BY StoreAssumption DEF FrameSize, Frames
<1>7. PICK g : g = [base |-> h.base, whole |-> h.whole, frames |-> fr,
                    bytes |-> h.bytes + FrameSize(f), synced |-> h.synced]
  BY Zenon
<1>8. Written(ss, f) = [ss EXCEPT ![n] = g]
  <2>1. h = [base |-> h.base, whole |-> h.whole, frames |-> h.frames,
             bytes |-> h.bytes, synced |-> h.synced]
    BY <1>1 DEF Segments
  <2>2. PICK b : b = h.bytes + FrameSize(f)
    OBVIOUS
  <2>3. PICK x : x = WithFrame(h, f)
    OBVIOUS
  <2>4. x = [h EXCEPT !.frames = fr, !.bytes = b]
    BY <1>3, <2>2, <2>3 DEF WithFrame
  <2>5. x = [base |-> h.base, whole |-> h.whole, frames |-> fr, bytes |-> b,
             synced |-> h.synced]
    BY <2>1, <2>4, Zenon
  <2>6. Written(ss, f) = [ss EXCEPT ![n] = x]
    BY <1>0, <2>3, Zenon DEF Written
  <2>7. QED
    BY <1>7, <2>2, <2>5, <2>6, Zenon
<1>9. /\ g \in Segments /\ g.base = h.base /\ g.whole = h.whole /\ g.frames = fr
      /\ g.bytes = h.bytes + FrameSize(f) /\ g.synced = h.synced
  <2>1. h.bytes + FrameSize(f) \in Nat
    BY <1>2, <1>6
  <2>2. QED
    BY <1>2, <1>5, <1>7, <2>1 DEF Segments
<1>10. h.whole /\ \A k \in 1..m : h.frames[k] # Torn
  BY <1>1, <1>2, <1>4 DEF Decodes, Range
<1>11. SegmentOK(g)
  <2>1. g.synced <= Len(g.frames)
    BY <1>1, <1>2, <1>4, <1>5, <1>9 DEF SegmentOK
  <2>2. \A k \in DOMAIN g.frames : g.frames[k] = Torn => k = Len(g.frames)
    BY <1>5, <1>9, <1>10
  <2>3. g.bytes >= 1 + Len(g.frames)
    <3>1. h.bytes >= 1 + m
      BY <1>1, <1>4, <1>10 DEF SegmentOK, Header
    <3>2. QED
      BY <1>2, <1>5, <1>6, <1>9, <3>1
  <2>4. g.frames = <<Torn>> => g.bytes = 1 + 1
    <3>1. ASSUME g.frames = <<Torn>> PROVE f = Torn /\ m = 0
      <4>1. Len(fr) = 1 /\ fr[1] = Torn
        BY <1>9, <3>1
      <4>2. m \in Nat /\ m + 1 = 1 /\ fr[m + 1] = f
        BY <1>5, <4>1, Zenon
      <4>3. m = 0
        BY <4>2
      <4>4. QED
        BY <4>1, <4>2, <4>3
    <3>2. m = 0 => h.frames = <<>>
      BY <1>2, <1>4, EmptySeq, Zenon
    <3>3. m = 0 => h.bytes = 1
      BY <1>1, <1>10, <3>2 DEF SegmentOK, Header
    <3>4. QED
      BY <1>6, <1>9, <3>1, <3>3
  <2>5. QED
    BY <1>5, <1>9, <1>10, <2>1, <2>2, <2>3, <2>4, SMTT(30), Z3T(30) DEF SegmentOK, Header
<1>12. PICK tt : tt = [ss EXCEPT ![n] = g]
  BY Zenon
<1>13. /\ ChainOK(tt) /\ tt # <<>> /\ Len(tt) = n /\ DOMAIN tt = DOMAIN ss
       /\ tt[n] = g /\ \A i \in DOMAIN ss : i # n => tt[i] = ss[i]
  BY <1>0, <1>1, <1>9, <1>11, <1>12, ReplaceLast, Zenon
<1>14. Keeps(ss, tt)
  <2>1. \A k \in DOMAIN h.frames : k \in DOMAIN g.frames /\ g.frames[k] = h.frames[k]
    BY <1>2, <1>4, <1>5, <1>9
  <2>2. QED
    BY <1>0, <1>9, <1>13, <2>1 DEF Keeps
<1>15. NextIn(tt) = NextOf(Repair(g))
  BY <1>13 DEF NextIn
<1>16. CASE f = Torn
  <2>1. Repair(g).base = h.base /\ Len(Repair(g).frames) = m
    <3>1. /\ SegmentOK(Repair(g)) /\ Repair(g).base = g.base
          /\ \A k \in DOMAIN Repair(g).frames : Repair(g).frames[k] # Torn
          /\ \A k \in DOMAIN Repair(g).frames :
               k \in DOMAIN g.frames /\ Repair(g).frames[k] = g.frames[k]
          /\ \A k \in DOMAIN g.frames : g.frames[k] # Torn =>
               k \in DOMAIN Repair(g).frames
      BY <1>11, RepairOK
    <3>2. PICK r : r = Repair(g).frames
      OBVIOUS
    <3>3. Len(r) \in Nat /\ DOMAIN r = 1..Len(r)
      BY <3>1, <3>2, SegmentFields DEF SegmentOK
    <3>4. m + 1 \notin DOMAIN r
      BY <1>5, <1>9, <1>16, <3>1, <3>2, SMTT(30), Z3T(30)
    <3>5. m # 0 => m \in DOMAIN r
      <4>1. ASSUME m # 0 PROVE m \in DOMAIN g.frames /\ g.frames[m] # Torn
        BY <1>5, <1>9, <1>10, <4>1
      <4>2. QED
        BY <3>1, <3>2, <4>1
    <3>6. Len(r) = m
      <4>1. ~(m + 1 <= Len(r)) /\ (m # 0 => m <= Len(r))
        BY <1>5, <3>3, <3>4, <3>5
      <4>2. QED
        <5>1. PICK q : q = Len(r)
          BY Zenon
        <5>2. q \in Nat /\ m \in Nat /\ ~(m + 1 <= q) /\ (m # 0 => m <= q)
          BY <1>5, <3>3, <4>1, <5>1
        <5>3. q = m
          BY <5>2
        <5>4. QED
          BY <5>1, <5>3
    <3>7. QED
      BY <1>9, <3>1, <3>2, <3>6
  <2>2. NextIn(tt) = NextIn(ss)
    BY <1>1, <1>2, <1>4, <1>15, <2>1 DEF NextOf
  <2>3. FilesOK(tt) /\ LogIn(tt) = LogIn(ss)
    BY <1>13, <1>14, <2>2, LogSame
  <2>4. QED
    BY <1>0, <1>8, <1>9, <1>12, <1>13, <1>16, <2>2, <2>3, SMTT(30), Z3T(30)
<1>17. CASE f # Torn
  <2>1. Decodes(g)
    BY <1>5, <1>9, <1>10, <1>17 DEF Decodes, Range
  <2>2. Repair(g) = g
    BY <1>11, <2>1, RepairOK
  <2>3. NextIn(tt) = NextIn(ss) + 1
    <3>1. NextOf(g) = h.base + (m + 1)
      BY <1>5, <1>9 DEF NextOf
    <3>2. QED
      BY <1>1, <1>2, <1>4, <1>5, <1>15, <2>2, <3>1, SMTT(30), Z3T(30)
  <2>4. AllDecode(tt)
    BY <1>13, <2>1 DEF AllDecode
  <2>5. PICK N : N = NextIn(ss)
    OBVIOUS
  <2>6. \A s \in 1..(N - 1) :
          /\ \E i \in DOMAIN tt : HasIn(tt, i, s)
          /\ LogIn(tt)[s] = LogIn(ss)[s]
    BY <1>1, <1>13, <1>14, <2>3, <2>5, LogKept, SMTT(30), Z3T(30)
  <2>7. N \in Nat \ {0} /\ N - h.base + 1 = m + 1
    BY <1>1, <1>2, <1>4, <1>5, <2>5, SMTT(30), Z3T(30)
  <2>8. HasIn(tt, n, N) /\ n \in DOMAIN tt
    BY <1>1, <1>5, <1>9, <1>13, <1>17, <2>7, SMTT(30), Z3T(30) DEF HasIn
  <2>9. LogIn(tt)[N] = f
    <3>1. N \in 1..(NextIn(tt) - 1)
      BY <2>3, <2>5, <2>7
    <3>2. LogIn(tt)[N] = tt[n].frames[N - tt[n].base + 1]
      BY <1>13, <2>8, <3>1, LogAt
    <3>3. QED
      BY <1>5, <1>9, <1>13, <2>7, <3>2, SMTT(30)
  <2>10. CoverOK(tt)
    <3>1. \A s \in 1..(NextIn(tt) - 1) : s = N \/ s \in 1..(N - 1)
      BY <2>3, <2>5, <2>7
    <3>2. QED
      BY <2>6, <2>8, <3>1 DEF CoverOK
  <2>11. LogIn(tt) = Append(LogIn(ss), f)
    <3>1. PICK a, b : a = LogIn(ss) /\ b = LogIn(tt)
      OBVIOUS
    <3>2. /\ DOMAIN a = 1..(N - 1) /\ DOMAIN b = 1..N
          /\ a = [s \in 1..(N - 1) |-> a[s]] /\ b = [s \in 1..N |-> b[s]]
      BY <2>3, <2>5, <2>7, <3>1 DEF LogIn
    <3>3. Len(a) = N - 1
      BY <2>7, <3>2
    <3>4. Append(a, f) = [i \in 1..N |-> IF i = N THEN f ELSE a[i]]
      BY <2>7, <3>2, <3>3
    <3>5. \A i \in 1..N : b[i] = IF i = N THEN f ELSE a[i]
      <4>1. \A i \in 1..N : i = N \/ i \in 1..(N - 1)
        BY <2>7
      <4>2. QED
        BY <2>6, <2>9, <3>1, <4>1, SMTT(30)
    <3>6. b = [i \in 1..N |-> IF i = N THEN f ELSE a[i]]
      BY <3>2, <3>5
    <3>7. QED
      BY <3>1, <3>4, <3>6
  <2>12. QED
    BY <1>0, <1>6, <1>8, <1>9, <1>12, <1>13, <1>17, <2>3, <2>4, <2>10, <2>11, Zenon
       DEF FilesOK
<1>18. QED
  BY <1>16, <1>17


\* sync_data after the frame.
LEMMA SyncedFiles ==
  ASSUME NEW ss, FilesOK(ss), AllDecode(ss), ss # <<>>
  PROVE  LET tt == Synced(ss)
         IN /\ FilesOK(tt) /\ AllDecode(tt) /\ tt # <<>> /\ Len(tt) = Len(ss)
            /\ NextIn(tt) = NextIn(ss) /\ LogIn(tt) = LogIn(ss)
            /\ tt[Len(ss)].base = ss[Len(ss)].base
            /\ tt[Len(ss)].bytes = ss[Len(ss)].bytes
<1>0. PICK n, h : n = Len(ss) /\ h = ss[n]
  BY Zenon
<1>1. /\ ChainOK(ss) /\ ss \in Seq(Segments) /\ n \in DOMAIN ss
      /\ SegmentOK(h) /\ h \in Segments /\ NextIn(ss) = NextOf(h) /\ Decodes(h)
  <2>1. ChainOK(ss) /\ ss \in Seq(Segments)
    BY DEF FilesOK, ChainOK
  <2>2. QED
    BY <1>0, <2>1, NextInFacts, DecodedFiles DEF SegmentOK, AllDecode
<1>2. /\ h.base \in Nat \ {0} /\ h.whole \in BOOLEAN /\ h.frames \in Seq(Frames)
      /\ h.bytes \in Nat /\ Len(h.frames) \in Nat
  BY <1>1, SegmentFields
<1>3. PICK g : g = [base |-> h.base, whole |-> h.whole, frames |-> h.frames,
                    bytes |-> h.bytes, synced |-> Len(h.frames)]
  BY Zenon
<1>4. Synced(ss) = [ss EXCEPT ![n] = g]
  <2>1. h = [base |-> h.base, whole |-> h.whole, frames |-> h.frames,
             bytes |-> h.bytes, synced |-> h.synced]
    BY <1>1 DEF Segments
  <2>2. PICK x, m : m = Len(h.frames) /\ x = [h EXCEPT !.synced = m]
    BY Zenon
  <2>3. x = g
    BY <1>3, <2>1, <2>2
  <2>4. Synced(ss) = [ss EXCEPT ![n].synced = m]
    BY <1>0, <2>2 DEF Synced
  <2>5. [ss EXCEPT ![n].synced = m] = [ss EXCEPT ![n] = x]
    BY <1>0, <2>2, Zenon
  <2>6. QED
    BY <2>3, <2>4, <2>5
<1>5. /\ g \in Segments /\ g.base = h.base /\ g.whole = h.whole
      /\ g.frames = h.frames /\ g.bytes = h.bytes /\ g.synced = Len(h.frames)
  BY <1>2, <1>3 DEF Segments
<1>6. SegmentOK(g)
  BY <1>1, <1>2, <1>5 DEF SegmentOK
<1>7. Decodes(g) /\ NextOf(g) = NextOf(h)
  BY <1>1, <1>5 DEF Decodes, NextOf
<1>8. PICK tt : tt = [ss EXCEPT ![n] = g]
  BY Zenon
<1>9. /\ ChainOK(tt) /\ tt # <<>> /\ Len(tt) = n /\ DOMAIN tt = DOMAIN ss
      /\ tt[n] = g /\ \A i \in DOMAIN ss : i # n => tt[i] = ss[i]
  BY <1>0, <1>1, <1>5, <1>6, <1>8, ReplaceLast, Zenon
<1>10. AllDecode(tt)
  BY <1>7, <1>9 DEF AllDecode
<1>11. NextIn(tt) = NextIn(ss)
  BY <1>1, <1>7, <1>9, <1>10, DecodedFiles, SMTT(30)
<1>12. Keeps(ss, tt)
  BY <1>0, <1>5, <1>9 DEF Keeps
<1>13. FilesOK(tt) /\ LogIn(tt) = LogIn(ss)
  BY <1>9, <1>11, <1>12, LogSame
<1>14. QED
  BY <1>0, <1>4, <1>5, <1>8, <1>9, <1>10, <1>11, <1>13, SMTT(30), Z3T(30)

\* The log has one entry per sequence.
LEMMA LogLen ==
  ASSUME NEW ss, ChainOK(ss)
  PROVE  /\ DOMAIN LogIn(ss) = 1..(NextIn(ss) - 1)
         /\ Len(LogIn(ss)) = NextIn(ss) - 1
<1>1. PICK N : N = NextIn(ss)
  OBVIOUS
<1>2. N \in Nat \ {0}
  BY <1>1, NextInFacts
<1>3. DOMAIN LogIn(ss) = 1..(N - 1)
  BY <1>1 DEF LogIn
<1>4. QED
  BY <1>1, <1>2, <1>3

-----------------------------------------------------------------------------
(* The state of the store.                                                 *)

\* The state of a stream whose files decode.
StateIn(ss) ==
    [next |-> NextIn(ss),
     base |-> IF ss = <<>> THEN 1 ELSE ss[Len(ss)].base,
     len  |-> IF ss = <<>> THEN 0 ELSE ss[Len(ss)].bytes]

\* The length of the last file tells whether it has frames.
LEMMA StateInFacts ==
  ASSUME NEW ss, FilesOK(ss), AllDecode(ss)
  PROVE  /\ StateIn(ss) \in States /\ StateIn(ss) # NoState
         /\ StateIn(ss).next = NextIn(ss) /\ NextIn(ss) \in Nat \ {0}
         /\ StateIn(ss).base = (IF ss = <<>> THEN 1 ELSE ss[Len(ss)].base)
         /\ StateIn(ss).len = (IF ss = <<>> THEN 0 ELSE ss[Len(ss)].bytes)
         /\ StateIn(ss).len = 0 <=> ss = <<>>
         /\ StateIn(ss).len > Header => ss # <<>> /\ ss[Len(ss)].frames # <<>>
<1>1. ChainOK(ss) /\ NextIn(ss) \in Nat \ {0}
  BY NextInFacts DEF FilesOK
<1>2. /\ StateIn(ss).next = NextIn(ss)
      /\ StateIn(ss).base = (IF ss = <<>> THEN 1 ELSE ss[Len(ss)].base)
      /\ StateIn(ss).len = (IF ss = <<>> THEN 0 ELSE ss[Len(ss)].bytes)
  BY DEF StateIn
<1>3. StateIn(ss) # NoState
  BY <1>1, <1>2 DEF NoState
<1>4. CASE ss = <<>>
  <2>1. StateIn(ss) \in States
    BY <1>1, <1>4 DEF StateIn, States
  <2>2. QED
    BY <1>1, <1>2, <1>3, <1>4, <2>1 DEF Header
<1>5. CASE ss # <<>>
  <2>1. PICK h : h = ss[Len(ss)]
    OBVIOUS
  <2>2. SegmentOK(h) /\ Decodes(h) /\ h \in Segments
    BY <1>1, <1>5, <2>1, NextInFacts DEF AllDecode, SegmentOK
  <2>3. h.base \in Nat /\ h.bytes \in Nat /\ Len(h.frames) \in Nat
    BY <2>2, SegmentFields
  <2>4. h.bytes >= 1 + Len(h.frames) /\ (h.frames = <<>> => h.bytes = 1)
    BY <2>2 DEF SegmentOK, Decodes, Header
  <2>5. StateIn(ss) \in States
    BY <1>1, <1>5, <2>1, <2>3 DEF StateIn, States
  <2>6. QED
    BY <1>1, <1>2, <1>3, <1>5, <2>1, <2>3, <2>4, <2>5, SMTT(30), Z3T(30) DEF Header
<1>6. QED
  BY <1>4, <1>5

\* The state's operators are those of the files.
LEMMA StateFiles ==
  ASSUME FilesOK(segs)
  PROVE  /\ Repaired = RepairIn(segs)
         /\ Recovered.next = NextIn(segs)
         /\ Records = LogIn(segs)
         /\ (\A i \in DOMAIN segs : segs[i].whole) =>
               Recovered = StateIn(RepairIn(segs))
         /\ Recovers => \A i \in DOMAIN segs : segs[i].whole
<1>1. ChainOK(segs) /\ segs \in Seq(Segments) /\ DOMAIN segs = 1..Len(segs)
  BY DEF FilesOK, ChainOK
<1>2. Repaired = RepairIn(segs)
  BY <1>1 DEF Repaired, RepairIn
<1>3. segs # <<>> => /\ Len(segs) \in DOMAIN segs
                     /\ Last(segs) = segs[Len(segs)]
                     /\ Last(Repaired) = Repair(segs[Len(segs)])
  <2>1. PICK r, n : r = Repaired /\ n = Len(segs)
    BY Zenon
  <2>2. n \in Nat /\ DOMAIN r = 1..n /\ r = [i \in 1..n |-> r[i]]
    <3>1. n \in Nat
      BY <1>1, <2>1
    <3>2. DOMAIN r = 1..n
      BY <2>1, Zenon DEF Repaired
    <3>3. r = [i \in 1..n |-> r[i]]
      BY <2>1, <3>2, Zenon DEF Repaired
    <3>4. QED
      BY <3>1, <3>2, <3>3
  <2>3. Len(r) = n
    BY <2>2
  <2>4. segs # <<>> => n \in 1..n /\ n \in DOMAIN segs
    BY <1>1, <2>1
  <2>5. segs # <<>> => r[n] = Repair(segs[n])
    BY <2>1, <2>4 DEF Repaired
  <2>6. QED
    BY <2>1, <2>3, <2>4, <2>5 DEF Last
<1>4. Recovered.next = NextIn(segs)
  BY <1>3 DEF Recovered, NextIn
<1>5. Records = LogIn(segs)
  BY <1>4 DEF Records, LogIn, Has, HasIn
<1>6. ASSUME \A i \in DOMAIN segs : segs[i].whole
      PROVE  Recovered = StateIn(RepairIn(segs))
  <2>1. PICK tt : tt = RepairIn(segs)
    OBVIOUS
  <2>2. /\ NextIn(tt) = NextIn(segs) /\ Len(tt) = Len(segs)
        /\ segs # <<>> => /\ tt # <<>>
                          /\ tt[Len(segs)] = Repair(segs[Len(segs)])
                          /\ tt[Len(segs)].base = segs[Len(segs)].base
        /\ segs = <<>> => tt = <<>>
    BY <1>6, <2>1, RepairedFiles
  <2>3. Recovered = [next |-> NextIn(segs),
                     base |-> IF segs = <<>> THEN 1 ELSE segs[Len(segs)].base,
                     len |-> IF segs = <<>> THEN 0
                             ELSE Repair(segs[Len(segs)]).bytes]
    BY <1>3 DEF Recovered, NextIn
  <2>4. QED
    BY <2>1, <2>2, <2>3 DEF StateIn
<1>7. ASSUME Recovers PROVE \A i \in DOMAIN segs : segs[i].whole
  <2>1. \A i \in DOMAIN segs : Repaired[i].whole
    BY <1>1, <1>7 DEF Recovers, Decodes
  <2>2. \A i \in DOMAIN segs : Repair(segs[i]).whole = segs[i].whole
    BY <1>1, FilesSegment, RepairOK
  <2>3. QED
    BY <1>1, <2>1, <2>2 DEF Repaired
<1>8. QED
  BY <1>2, <1>4, <1>5, <1>6, <1>7, SMTT(30)


\* The inductive invariant: the files are in order, a cached state is the one
\* of files that decode, and nothing is recorded about sequences the files do
\* not have.
StoreInv ==
    /\ created \in BOOLEAN /\ cache \in States /\ committed \in Nat
    /\ cursors \in [Consumer -> Nat]
    /\ acked \subseteq [seq : Nat, payload : Payload]
    /\ FilesOK(segs)
    /\ ~created => segs = <<>>
    /\ cache # NoState => created /\ AllDecode(segs) /\ cache = StateIn(segs)
    /\ committed <= NextIn(segs) - 1
    /\ \A c \in Consumer : cursors[c] <= NextIn(segs) - 1
    /\ \A a \in acked : /\ a.seq \in 1..(NextIn(segs) - 1)
                        /\ LogIn(segs)[a.seq] = a.payload

\* What ensure_state returns, with the files it leaves.
LEMMA OpenedFiles ==
  ASSUME StoreInv, CanOpen
  PROVE  /\ FilesOK(OpenSegs) /\ AllDecode(OpenSegs) /\ created
         /\ Opened = StateIn(OpenSegs)
         /\ NextIn(OpenSegs) = NextIn(segs) /\ LogIn(OpenSegs) = LogIn(segs)
<1>1. CASE cache # NoState
  BY <1>1 DEF StoreInv, OpenSegs, Opened
<1>2. CASE cache = NoState
  <2>1. Recovers /\ Opened = Recovered /\ OpenSegs = Repaired /\ FilesOK(segs)
    BY <1>2 DEF StoreInv, OpenSegs, Opened, CanOpen
  <2>2. /\ Repaired = RepairIn(segs) /\ Recovered = StateIn(RepairIn(segs))
        /\ \A i \in DOMAIN segs : segs[i].whole
    BY <2>1, StateFiles
  <2>3. /\ FilesOK(RepairIn(segs)) /\ AllDecode(RepairIn(segs))
        /\ NextIn(RepairIn(segs)) = NextIn(segs)
        /\ LogIn(RepairIn(segs)) = LogIn(segs)
    BY <2>1, <2>2, RepairedFiles
  <2>4. QED
    BY <2>1, <2>2, <2>3 DEF Recovers
<1>3. QED
  BY <1>1, <1>2

\* What is recorded stays in bounds when the log is kept.
LEMMA BoundsKept ==
  ASSUME StoreInv, NEW ss, FilesOK(ss), NextIn(segs) <= NextIn(ss),
         \A s \in 1..(NextIn(segs) - 1) : LogIn(ss)[s] = LogIn(segs)[s]
  PROVE  /\ committed <= NextIn(ss) - 1
         /\ \A c \in Consumer : cursors[c] <= NextIn(ss) - 1
         /\ \A a \in acked : /\ a.seq \in 1..(NextIn(ss) - 1)
                             /\ LogIn(ss)[a.seq] = a.payload
<1>1. PICK M, N : M = NextIn(segs) /\ N = NextIn(ss)
  OBVIOUS
<1>2. M \in Nat /\ N \in Nat /\ M <= N
  BY <1>1, NextInFacts DEF StoreInv, FilesOK
<1>3. committed \in Nat /\ committed <= M - 1
  BY <1>1 DEF StoreInv
<1>4. \A c \in Consumer : cursors[c] \in Nat /\ cursors[c] <= M - 1
  BY <1>1 DEF StoreInv
<1>5. \A a \in acked : a.seq \in 1..(M - 1) /\ LogIn(segs)[a.seq] = a.payload
  BY <1>1 DEF StoreInv
<1>6. \A s \in 1..(M - 1) : s \in 1..(N - 1)
  BY <1>2
<1>7. committed <= N - 1
  BY <1>2, <1>3
<1>8. \A c \in Consumer : cursors[c] <= N - 1
  BY <1>2, <1>4
<1>9. \A a \in acked : a.seq \in 1..(N - 1) /\ LogIn(ss)[a.seq] = a.payload
  BY <1>1, <1>5, <1>6, SMTT(30), Z3T(30)
<1>10. QED
  BY <1>1, <1>7, <1>8, <1>9

\* The files an append writes to.
LEMMA TargetFiles ==
  ASSUME StoreInv, CanOpen, NEW p \in Payload
  PROVE  LET tt == Target(Opened, p)
         IN /\ FilesOK(tt) /\ AllDecode(tt) /\ tt # <<>>
            /\ NextIn(tt) = NextIn(segs) /\ LogIn(tt) = LogIn(segs)
            /\ NextIn(tt) = Opened.next
            /\ tt[Len(tt)].base =
                 (IF Rotates(Opened, p) THEN Opened.next ELSE Opened.base)
            /\ tt[Len(tt)].bytes =
                 (IF Rotates(Opened, p) THEN Header ELSE Opened.len)
<1>1. PICK ss, st : ss = OpenSegs /\ st = Opened
  OBVIOUS
<1>2. /\ FilesOK(ss) /\ AllDecode(ss) /\ st = StateIn(ss)
      /\ NextIn(ss) = NextIn(segs) /\ LogIn(ss) = LogIn(segs)
  BY <1>1, OpenedFiles
<1>3. /\ st.next = NextIn(ss) /\ NextIn(ss) \in Nat \ {0} /\ st \in States
      /\ st.base = (IF ss = <<>> THEN 1 ELSE ss[Len(ss)].base)
      /\ st.len = (IF ss = <<>> THEN 0 ELSE ss[Len(ss)].bytes)
      /\ st.len = 0 <=> ss = <<>>
      /\ st.len > Header => ss # <<>> /\ ss[Len(ss)].frames # <<>>
  BY <1>2, StateInFacts, SMTT(30), Z3T(30)
<1>4. CASE Rotates(st, p)
  <2>1. PICK g : g = NewSegment(st.next)
    OBVIOUS
  <2>2. SegmentOK(g) /\ g.base = NextIn(ss) /\ g.frames = <<>> /\ g.whole
        /\ g.bytes = Header
    BY <1>3, <2>1 DEF NewSegment, SegmentOK, Segments, Header
  <2>3. ss # <<>> => ss[Len(ss)].frames # <<>>
    BY <1>3, <1>4 DEF Rotates
  <2>4. PICK tt : tt = Append(ss, g)
    BY Zenon
  <2>5. /\ FilesOK(tt) /\ AllDecode(tt) /\ NextIn(tt) = NextIn(ss)
        /\ LogIn(tt) = LogIn(ss) /\ tt # <<>> /\ tt[Len(tt)] = g
    BY <1>2, <2>2, <2>3, <2>4, NewSegmentFiles, SMTT(30), Z3T(30)
  <2>6. Target(st, p) = tt
    BY <1>1, <1>4, <2>1, <2>4, SMTT(30), Z3T(30) DEF Target
  <2>7. QED
    BY <1>1, <1>2, <1>3, <1>4, <2>2, <2>5, <2>6, SMTT(30), Z3T(30)
<1>5. CASE ~Rotates(st, p)
  <2>1. ss # <<>>
    BY <1>3, <1>5 DEF Rotates
  <2>2. Target(st, p) = ss
    BY <1>1, <1>5 DEF Target
  <2>3. QED
    BY <1>1, <1>2, <1>3, <1>5, <2>1, <2>2, SMTT(30), Z3T(30)
<1>6. QED
  BY <1>4, <1>5


\* The entries of the log are payloads.
LEMMA LogPayload ==
  ASSUME NEW ss, FilesOK(ss), NEW s \in 1..(NextIn(ss) - 1)
  PROVE  LogIn(ss)[s] \in Payload
<1>1. ChainOK(ss)
  BY DEF FilesOK
<1>2. PICK i \in DOMAIN ss : HasIn(ss, i, s)
  BY DEF FilesOK, CoverOK
<1>3. LogIn(ss)[s] = ss[i].frames[s - ss[i].base + 1]
  BY <1>1, <1>2, LogAt, SMTT(30)
<1>4. ss[i].frames \in Seq(Frames)
  BY <1>1, FilesSegment, SegmentFields
<1>5. PICK k, fr : k = s - ss[i].base + 1 /\ fr = ss[i].frames
  OBVIOUS
<1>6. k \in DOMAIN fr /\ fr[k] # Torn /\ fr \in Seq(Frames)
  BY <1>2, <1>4, <1>5 DEF HasIn
<1>7. fr[k] \in Frames
  BY <1>6
<1>8. QED
  BY <1>3, <1>5, <1>6, <1>7 DEF Frames

\* What a step does to the flat log, the boundary and the cursors.
LogStep ==
    \/ /\ LogIn(segs') = LogIn(segs)
       /\ committed' = committed /\ cursors' = cursors
    \/ /\ \E p \in Payload : LogIn(segs') = Append(LogIn(segs), p)
       /\ committed' = committed /\ cursors' = cursors
    \/ /\ LogIn(segs') = LogIn(segs)
       /\ committed' \in (committed + 1)..(NextIn(segs) - 1) /\ cursors' = cursors
    \/ /\ LogIn(segs') = LogIn(segs) /\ committed' = committed
       /\ \E c \in Consumer : \E k \in cursors[c]..(NextIn(segs) - 1) :
             cursors' = [cursors EXCEPT ![c] = k]

\* A step that keeps the log, and what is recorded about it.
LEMMA LogKeptStep ==
  ASSUME StoreInv, FilesOK(segs'), NextIn(segs') = NextIn(segs),
         LogIn(segs') = LogIn(segs)
  PROVE  /\ committed <= NextIn(segs') - 1
         /\ \A c \in Consumer : cursors[c] <= NextIn(segs') - 1
         /\ \A a \in acked : /\ a.seq \in 1..(NextIn(segs') - 1)
                             /\ LogIn(segs')[a.seq] = a.payload
<1>1. NextIn(segs) \in Nat
  BY NextInFacts DEF StoreInv, FilesOK
<1>2. NextIn(segs) <= NextIn(segs')
  BY <1>1
<1>3. QED
  BY <1>2, BoundsKept

\* An operation that only opens the stream.
LEMMA OpenStep ==
  ASSUME StoreInv, CanOpen, cache' = Opened, segs' = OpenSegs, created' = created
  PROVE  /\ FilesOK(segs') /\ AllDecode(segs') /\ created' /\ created' \in BOOLEAN
         /\ cache' = StateIn(segs') /\ cache' \in States
         /\ NextIn(segs') = NextIn(segs) /\ LogIn(segs') = LogIn(segs)
         /\ committed <= NextIn(segs') - 1
         /\ \A c \in Consumer : cursors[c] <= NextIn(segs') - 1
         /\ \A a \in acked : /\ a.seq \in 1..(NextIn(segs') - 1)
                             /\ LogIn(segs')[a.seq] = a.payload
         /\ LocalTail = NextIn(segs) - 1
<1>1. /\ FilesOK(segs') /\ AllDecode(segs') /\ created /\ cache' = StateIn(segs')
      /\ NextIn(segs') = NextIn(segs) /\ LogIn(segs') = LogIn(segs)
  BY OpenedFiles
<1>2. cache' \in States /\ cache'.next = NextIn(segs')
  BY <1>1, StateInFacts
<1>3. LocalTail = NextIn(segs) - 1
  BY <1>1, <1>2 DEF LocalTail
<1>4. QED
  BY <1>1, <1>2, <1>3, LogKeptStep DEF StoreInv

\* ensure_state alone keeps the invariant and the log.
LEMMA EnsureStep ==
  ASSUME StoreInv, Ensure
  PROVE  StoreInv' /\ LogStep
<1>1. /\ cache = NoState /\ CanOpen /\ cache' = Opened /\ segs' = OpenSegs
      /\ created' = created /\ committed' = committed /\ cursors' = cursors
      /\ acked' = acked
  BY DEF Ensure, CanOpen, Opened, OpenSegs
<1>2. QED
  BY <1>1, OpenStep DEF StoreInv, LogStep

\* A stream is created without segments.
LEMMA CreateStep ==
  ASSUME StoreInv, CreateStream \/ CreateStreamStops
  PROVE  StoreInv' /\ LogStep
<1>1. /\ ~created /\ created' = TRUE /\ segs' = segs /\ committed' = committed
      /\ cursors' = cursors /\ acked' = acked /\ segs = <<>>
      /\ cache = NoState /\ cache' \in {cache, [next |-> 1, base |-> 1, len |-> 0]}
  BY DEF StoreInv, CreateStream, CreateStreamStops
<1>2. AllDecode(segs') /\ StateIn(segs') = [next |-> 1, base |-> 1, len |-> 0]
  BY <1>1 DEF AllDecode, StateIn, NextIn
<1>3. cache' \in States
  BY <1>1 DEF States, StoreInv
<1>4. QED
  BY <1>1, <1>2, <1>3 DEF StoreInv, LogStep

\* A repeated append reports a record that is in the log.
LEMMA AppendReplicaAgainStep ==
  ASSUME StoreInv, NEW s \in 1..MaxSequence, AppendReplicaAgain(s)
  PROVE  StoreInv' /\ LogStep
<1>1. /\ CanOpen /\ cache' = Opened /\ segs' = OpenSegs /\ s \in 1..LocalTail
      /\ created' = created /\ committed' = committed /\ cursors' = cursors
      /\ acked' = acked \cup {[seq |-> s, payload |-> Records[s]]}
  BY DEF AppendReplicaAgain
<1>2. s \in 1..(NextIn(segs') - 1) /\ NextIn(segs') = NextIn(segs)
      /\ LogIn(segs') = LogIn(segs) /\ FilesOK(segs')
  BY <1>1, OpenStep
<1>3. Records[s] = LogIn(segs')[s]
  BY <1>2, StateFiles DEF StoreInv
<1>4. LogIn(segs')[s] \in Payload /\ s \in Nat
  <2>1. s \in Nat
    BY StoreAssumption, SMTT(30), Z3T(30)
  <2>2. QED
    BY <1>2, <2>1, LogPayload
<1>5. \A a \in acked' : /\ a \in [seq : Nat, payload : Payload]
                        /\ a.seq \in 1..(NextIn(segs') - 1)
                        /\ LogIn(segs')[a.seq] = a.payload
  <2> SUFFICES ASSUME NEW a \in acked'
               PROVE  /\ a \in [seq : Nat, payload : Payload]
                      /\ a.seq \in 1..(NextIn(segs') - 1)
                      /\ LogIn(segs')[a.seq] = a.payload
    BY SMTT(30), Z3T(30)
  <2>1. CASE a \in acked
    BY <1>1, <2>1, OpenStep DEF StoreInv
  <2>2. CASE a = [seq |-> s, payload |-> Records[s]]
    BY <1>2, <1>3, <1>4, <2>2
  <2>3. QED
    BY <1>1, <2>1, <2>2
<1>6. acked' \subseteq [seq : Nat, payload : Payload]
  BY <1>5
<1>7. QED
  BY <1>1, <1>5, <1>6, OpenStep, SMTT(30) DEF StoreInv, LogStep

\* The boundary moves forward within the log.
LEMMA CommitThroughStep ==
  ASSUME StoreInv, NEW s \in 1..MaxSequence, CommitThrough(s)
  PROVE  StoreInv' /\ LogStep
<1>1. /\ CanOpen /\ cache' = Opened /\ segs' = OpenSegs
      /\ created' = created /\ committed' = s /\ cursors' = cursors
      /\ acked' = acked /\ s > committed /\ s <= LocalTail
  BY DEF CommitThrough, MayCommit
<1>2. LocalTail = NextIn(segs) - 1 /\ NextIn(segs') = NextIn(segs)
  BY <1>1, OpenStep
<1>3. s \in Nat /\ committed \in Nat
  BY StoreAssumption DEF StoreInv
<1>4. NextIn(segs) \in Nat
  BY NextInFacts DEF StoreInv, FilesOK
<1>5. s \in (committed + 1)..(NextIn(segs) - 1) /\ s <= NextIn(segs') - 1
  BY <1>1, <1>2, <1>3, <1>4
<1>6. QED
  BY <1>1, <1>3, <1>5, OpenStep DEF StoreInv, LogStep

\* A cursor moves forward within the log.
LEMMA CommitCursorStep ==
  ASSUME StoreInv, NEW s \in 1..MaxSequence, NEW c \in Consumer,
         CommitCursor(c, s)
  PROVE  StoreInv' /\ LogStep
<1>1. /\ CanOpen /\ cache' = Opened /\ segs' = OpenSegs
      /\ created' = created /\ committed' = committed
      /\ cursors' = [cursors EXCEPT ![c] = s]
      /\ acked' = acked /\ s >= cursors[c] /\ s <= LocalTail
  BY DEF CommitCursor, MayMove
<1>2. LocalTail = NextIn(segs) - 1 /\ NextIn(segs') = NextIn(segs)
  BY <1>1, OpenStep
<1>3. s \in Nat /\ cursors \in [Consumer -> Nat] /\ cursors[c] \in Nat
  BY StoreAssumption DEF StoreInv
<1>4. NextIn(segs) \in Nat
  BY NextInFacts DEF StoreInv, FilesOK
<1>5. s \in cursors[c]..(NextIn(segs) - 1) /\ s <= NextIn(segs') - 1
  BY <1>1, <1>2, <1>3, <1>4, SMTT(30)
<1>6. /\ cursors' \in [Consumer -> Nat]
      /\ \A d \in Consumer : cursors'[d] <= NextIn(segs') - 1
  <2>1. \A d \in Consumer : cursors[d] <= NextIn(segs') - 1
    BY <1>1, OpenStep, SMTT(30)
  <2>2. QED
    BY <1>1, <1>3, <1>5, <2>1, SMTT(30), Z3T(30)
<1>7. StoreInv'
  BY <1>1, <1>6, OpenStep DEF StoreInv
<1>8. LogStep
  <2>1. LogIn(segs') = LogIn(segs)
    BY <1>1, OpenStep
  <2>2. QED
    BY <1>1, <1>5, <2>1, Zenon DEF LogStep
<1>9. QED
  BY <1>7, <1>8

\* A restart only forgets the cached state.
LEMMA RestartStep ==
  ASSUME StoreInv, Restart \/ UNCHANGED vars
  PROVE  StoreInv' /\ LogStep
<1>1. /\ created' = created /\ segs' = segs /\ committed' = committed
      /\ cursors' = cursors /\ acked' = acked /\ cache' \in {cache, NoState}
  BY DEF Restart, vars
<1>2. cache' \in States
  BY <1>1 DEF StoreInv, States, NoState
<1>3. QED
  BY <1>1, <1>2 DEF StoreInv, LogStep


\* The log after a complete frame keeps what it had.
LEMMA LogGrows ==
  ASSUME StoreInv, NEW p \in Payload, FilesOK(segs'),
         NextIn(segs') = NextIn(segs) + 1,
         LogIn(segs') = Append(LogIn(segs), p)
  PROVE  /\ committed <= NextIn(segs') - 1
         /\ \A c \in Consumer : cursors[c] <= NextIn(segs') - 1
         /\ \A a \in acked : /\ a.seq \in 1..(NextIn(segs') - 1)
                             /\ LogIn(segs')[a.seq] = a.payload
         /\ NextIn(segs) \in 1..(NextIn(segs') - 1)
         /\ LogIn(segs')[NextIn(segs)] = p
<1>1. PICK N, a, b : N = NextIn(segs) /\ a = LogIn(segs) /\ b = LogIn(segs')
  OBVIOUS
<1>2. N \in Nat \ {0} /\ DOMAIN a = 1..(N - 1) /\ Len(a) = N - 1
  BY <1>1, NextInFacts, LogLen DEF StoreInv, FilesOK
<1>3. b = Append(a, p)
  BY <1>1
<1>4. b = [i \in 1..(Len(a) + 1) |-> IF i = Len(a) + 1 THEN p ELSE a[i]]
  <2>1. a = [i \in 1..(N - 1) |-> a[i]]
    BY <1>1, <1>2 DEF LogIn
  <2>2. QED
    BY <1>2, <1>3, <2>1, SMTT(30), Z3T(30)
<1>5. \A s \in 1..(N - 1) : b[s] = a[s]
  BY <1>2, <1>4
<1>6. b[N] = p
  BY <1>2, <1>4
<1>7. NextIn(segs) <= NextIn(segs') /\ N \in 1..(NextIn(segs') - 1)
  BY <1>1, <1>2
<1>8. \A s \in 1..(NextIn(segs) - 1) : LogIn(segs')[s] = LogIn(segs)[s]
  BY <1>1, <1>5, Zenon
<1>9. QED
  BY <1>1, <1>6, <1>7, <1>8, BoundsKept, Zenon

\* An append that succeeds adds its record to the log, and the cached state
\* is the one of the files it leaves.
LEMMA AppendExactStep ==
  ASSUME StoreInv, NEW p \in Payload, AppendExact(p)
  PROVE  StoreInv' /\ LogStep
<1>1. PICK st, tt : st = Opened /\ tt = Target(Opened, p)
  OBVIOUS
<1>2. /\ CanOpen /\ segs' = Synced(Written(tt, p))
      /\ cache' = [next |-> st.next + 1,
                   base |-> IF Rotates(st, p) THEN st.next ELSE st.base,
                   len  |-> (IF Rotates(st, p) THEN Header ELSE st.len)
                              + Size[p]]
      /\ acked' = acked \cup {[seq |-> st.next, payload |-> p]}
      /\ created' = created /\ committed' = committed /\ cursors' = cursors
  BY <1>1, SMTT(30), Z3T(30) DEF AppendExact
<1>3. /\ FilesOK(tt) /\ AllDecode(tt) /\ tt # <<>>
      /\ NextIn(tt) = NextIn(segs) /\ LogIn(tt) = LogIn(segs)
      /\ NextIn(tt) = st.next
      /\ tt[Len(tt)].base = (IF Rotates(st, p) THEN st.next ELSE st.base)
      /\ tt[Len(tt)].bytes = (IF Rotates(st, p) THEN Header ELSE st.len)
  BY <1>1, <1>2, TargetFiles
<1>4. p \in Frames /\ p # Torn
  BY StoreAssumption DEF Frames
<1>5. PICK w : w = Written(tt, p)
  BY SMTT(30)
<1>6. /\ FilesOK(w) /\ w # <<>> /\ Len(w) = Len(tt) /\ AllDecode(w)
      /\ w[Len(tt)].base = tt[Len(tt)].base
      /\ NextIn(w) = NextIn(tt) + 1 /\ LogIn(w) = Append(LogIn(tt), p)
      /\ w[Len(tt)].bytes = tt[Len(tt)].bytes + Size[p]
  BY <1>3, <1>4, <1>5, WrittenFiles, SMTT(30), Z3T(30)
<1>7. /\ FilesOK(segs') /\ AllDecode(segs') /\ segs' # <<>>
      /\ Len(segs') = Len(w)
      /\ NextIn(segs') = NextIn(w) /\ LogIn(segs') = LogIn(w)
      /\ segs'[Len(w)].base = w[Len(w)].base
      /\ segs'[Len(w)].bytes = w[Len(w)].bytes
  BY <1>2, <1>5, <1>6, SyncedFiles, SMTT(30), Z3T(30)
<1>8. NextIn(segs') = NextIn(segs) + 1 /\ LogIn(segs') = Append(LogIn(segs), p)
  BY <1>3, <1>6, <1>7, SMTT(30), Z3T(30)
<1>9. cache' = StateIn(segs')
  BY <1>2, <1>3, <1>6, <1>7, SMTT(30), Z3T(30) DEF StateIn
<1>10. cache' \in States
  BY <1>7, <1>9, StateInFacts, SMTT(30)
<1>11. created
  BY <1>2, OpenedFiles
<1>12. /\ committed <= NextIn(segs') - 1
       /\ \A c \in Consumer : cursors[c] <= NextIn(segs') - 1
       /\ \A a \in acked : /\ a.seq \in 1..(NextIn(segs') - 1)
                           /\ LogIn(segs')[a.seq] = a.payload
       /\ st.next \in 1..(NextIn(segs') - 1) /\ LogIn(segs')[st.next] = p
  BY <1>3, <1>7, <1>8, LogGrows, Zenon
<1>13. st.next \in Nat
  BY <1>3, NextInFacts, SMTT(30), Z3T(30) DEF FilesOK
<1>14. \A a \in acked' : /\ a \in [seq : Nat, payload : Payload]
                         /\ a.seq \in 1..(NextIn(segs') - 1)
                         /\ LogIn(segs')[a.seq] = a.payload
  <2> SUFFICES ASSUME NEW a \in acked'
               PROVE  /\ a \in [seq : Nat, payload : Payload]
                      /\ a.seq \in 1..(NextIn(segs') - 1)
                      /\ LogIn(segs')[a.seq] = a.payload
    OBVIOUS
  <2>1. CASE a \in acked
    BY <1>12, <2>1, SMTT(30), Z3T(30) DEF StoreInv
  <2>2. CASE a = [seq |-> st.next, payload |-> p]
    BY <1>12, <1>13, <2>2
  <2>3. QED
    BY <1>2, <2>1, <2>2
<1>15. acked' \subseteq [seq : Nat, payload : Payload]
  BY <1>14, SMTT(30), Z3T(30)
<1>16. StoreInv'
  BY <1>2, <1>7, <1>9, <1>10, <1>11, <1>12, <1>14, <1>15, SMTT(30), Z3T(30) DEF StoreInv
<1>17. LogStep
  BY <1>2, <1>8 DEF LogStep
<1>18. QED
  BY <1>16, <1>17

\* An append that fails adds its record or none, and the files stay in order.
LEMMA AppendExactStopsStep ==
  ASSUME StoreInv, NEW p \in Payload, AppendExactStops(p)
  PROVE  StoreInv' /\ LogStep
<1>1. PICK st, tt, ss : st = Opened /\ tt = Target(Opened, p) /\ ss = OpenSegs
  OBVIOUS
<1>2. /\ CanOpen /\ cache' = NoState
      /\ created' = created /\ committed' = committed /\ cursors' = cursors
      /\ acked' = acked
      /\ \/ /\ Rotates(st, p)
            /\ segs' = [tt EXCEPT ![Len(tt)] = [@ EXCEPT !.whole = FALSE,
                                                         !.bytes = 0]]
         \/ segs' = tt
         \/ segs' = Written(tt, Torn)
         \/ segs' = Written(tt, p)
  BY <1>1 DEF AppendExactStops, AfterError
<1>3. /\ FilesOK(tt) /\ AllDecode(tt) /\ tt # <<>>
      /\ NextIn(tt) = NextIn(segs) /\ LogIn(tt) = LogIn(segs)
      /\ NextIn(tt) = st.next
  BY <1>1, <1>2, TargetFiles
<1>4. /\ created /\ NoState \in States
  BY <1>2, OpenedFiles DEF NoState, States
<1>5. ASSUME FilesOK(segs'), NextIn(segs') = NextIn(segs),
             LogIn(segs') = LogIn(segs)
      PROVE  StoreInv' /\ LogStep
  BY <1>2, <1>4, <1>5, LogKeptStep, SMTT(30), Z3T(30) DEF StoreInv, LogStep
<1>6. CASE Rotates(st, p) /\ segs' = [tt EXCEPT ![Len(tt)] =
                                        [@ EXCEPT !.whole = FALSE, !.bytes = 0]]
  <2>1. /\ FilesOK(ss) /\ AllDecode(ss) /\ st = StateIn(ss)
        /\ NextIn(ss) = NextIn(segs) /\ LogIn(ss) = LogIn(segs)
    BY <1>1, <1>2, OpenedFiles
  <2>2. ss # <<>> => ss[Len(ss)].frames # <<>>
    BY <1>6, <2>1, StateInFacts DEF Rotates
  <2>3. PICK g : g = [base |-> st.next, whole |-> FALSE, frames |-> <<>>,
                      bytes |-> 0, synced |-> 0]
    BY ZenonT(30)
  <2>4. SegmentOK(g) /\ g.base = NextIn(ss) /\ g.frames = <<>>
    <3>1. st.next \in Nat \ {0} /\ st.next = NextIn(ss)
      BY <2>1, StateInFacts
    <3>2. QED
      BY <2>3, <3>1 DEF SegmentOK, Segments
  <2>5. PICK h : h = NewSegment(st.next)
    OBVIOUS
  <2>6. tt = Append(ss, h) /\ ss \in Seq(Segments) /\ h \in Segments
    <3>1. st.next \in Nat \ {0}
      BY <2>1, StateInFacts
    <3>2. QED
      BY <1>1, <1>6, <2>1, <2>5, <3>1, SMTT(30), Z3T(30)
         DEF Target, FilesOK, ChainOK, NewSegment, Segments, Header
  <2>7. [h EXCEPT !.whole = FALSE, !.bytes = 0] = g
    <3>1. PICK y : y = [h EXCEPT !.whole = FALSE, !.bytes = 0]
      OBVIOUS
    <3>2. h = [base |-> st.next, whole |-> TRUE, frames |-> <<>>,
               bytes |-> Header, synced |-> 0]
      BY <2>5 DEF NewSegment
    <3>3. y = [base |-> st.next, whole |-> FALSE, frames |-> <<>>,
               bytes |-> 0, synced |-> 0]
      BY <3>1, <3>2, Zenon
    <3>4. QED
      BY <2>3, <3>1, <3>3, Zenon
  <2>8. PICK n : n = Len(ss)
    BY Zenon
  <2>9. n \in Nat /\ Len(tt) = n + 1 /\ tt[n + 1] = h /\ tt \in Seq(Segments)
        /\ \A i \in 1..n : tt[i] = ss[i]
    BY <2>6, <2>8, AppendProperties
  <2>10. segs' = [tt EXCEPT ![n + 1] = g]
    BY <1>6, <2>7, <2>9, Zenon
  <2>11. segs' = Append(ss, g)
    <3>1. g \in Segments
      BY <2>4 DEF SegmentOK
    <3>2. /\ Append(ss, g) \in Seq(Segments) /\ Len(Append(ss, g)) = n + 1
          /\ Append(ss, g)[n + 1] = g
          /\ \A i \in 1..n : Append(ss, g)[i] = ss[i]
      BY <2>6, <2>8, <3>1, AppendProperties, SMTT(30)
    <3>3. PICK x : x = Append(ss, g)
      BY Zenon
    <3>4. DOMAIN x = 1..(n + 1) /\ DOMAIN tt = 1..(n + 1)
      BY <2>9, <3>2, <3>3
    <3>5. x = [i \in 1..(n + 1) |-> x[i]]
      <4>1. x \in [1..(n + 1) -> Segments]
        BY <3>2, <3>3, LenProperties, Zenon
      <4>2. QED
        BY <4>1, Zenon
    <3>6. \A i \in 1..(n + 1) : segs'[i] = x[i]
      BY <2>9, <2>10, <3>2, <3>3, <3>4, SMTT(30), Z3T(30)
    <3>7. segs' = [i \in 1..(n + 1) |-> segs'[i]]
      BY <2>9, <2>10, <3>4, Zenon
    <3>8. QED
      BY <3>3, <3>5, <3>6, <3>7, Zenon
  <2>12. FilesOK(segs') /\ NextIn(segs') = NextIn(ss) /\ LogIn(segs') = LogIn(ss)
    BY <2>1, <2>2, <2>4, <2>11, NewSegmentFiles, SMTT(30), Z3T(30)
  <2>13. QED
    BY <1>5, <2>1, <2>12
<1>7. CASE segs' = tt
  BY <1>3, <1>5, <1>7
<1>8. CASE segs' = Written(tt, Torn)
  <2>1. Torn \in Frames
    BY DEF Frames
  <2>2. FilesOK(segs') /\ NextIn(segs') = NextIn(tt) /\ LogIn(segs') = LogIn(tt)
    BY <1>3, <1>8, <2>1, WrittenFiles, SMTT(30), Z3T(30)
  <2>3. QED
    BY <1>3, <1>5, <2>2
<1>9. CASE segs' = Written(tt, p)
  <2>1. p \in Frames /\ p # Torn
    BY StoreAssumption DEF Frames
  <2>2. /\ FilesOK(segs') /\ NextIn(segs') = NextIn(tt) + 1
        /\ LogIn(segs') = Append(LogIn(tt), p)
    BY <1>3, <1>9, <2>1, WrittenFiles, SMTT(30), Z3T(30)
  <2>3. NextIn(segs') = NextIn(segs) + 1 /\ LogIn(segs') = Append(LogIn(segs), p)
    BY <1>3, <2>2
  <2>4. StoreInv'
    BY <1>2, <1>4, <2>2, <2>3, LogGrows, Zenon DEF StoreInv
  <2>5. LogStep
    BY <1>2, <2>3 DEF LogStep
  <2>6. QED
    BY <2>4, <2>5
<1>10. QED
  BY <1>2, <1>6, <1>7, <1>8, <1>9, SMTT(30), Z3T(30)


\* Every step keeps the invariant and is a step of the flat log.
LEMMA StoreStep ==
  ASSUME StoreInv, [Next]_vars
  PROVE  StoreInv' /\ LogStep
<1>1. CASE CreateStream \/ CreateStreamStops
  BY <1>1, CreateStep
<1>2. CASE Ensure
  BY <1>2, EnsureStep
<1>3. CASE \E p \in Payload : AppendExact(p) \/ AppendExactStops(p)
  BY <1>3, AppendExactStep, AppendExactStopsStep
<1>4. CASE \E s \in 1..MaxSequence : AppendReplicaAgain(s)
  BY <1>4, AppendReplicaAgainStep
<1>5. CASE \E s \in 1..MaxSequence : CommitThrough(s)
  BY <1>5, CommitThroughStep
<1>6. CASE \E s \in 1..MaxSequence : \E c \in Consumer : CommitCursor(c, s)
  BY <1>6, CommitCursorStep
<1>7. CASE Restart \/ UNCHANGED vars
  BY <1>7, RestartStep
<1>8. QED
  BY <1>1, <1>2, <1>3, <1>4, <1>5, <1>6, <1>7, SMTT(30), Z3T(30) DEF Next

\* The invariant holds before the stream is created.
LEMMA StoreInit ==
  ASSUME Init
  PROVE  StoreInv /\ LogIn(segs) = <<>>
<1>1. segs = <<>> /\ NextIn(segs) = 1
  BY DEF Init, NextIn
<1>2. ChainOK(segs) /\ AllDecode(segs)
  BY <1>1 DEF ChainOK, AllDecode
<1>3. CoverOK(segs)
  BY <1>1 DEF CoverOK
<1>4. cache \in States
  BY DEF Init, States, NoState
<1>5. StoreInv
  <2>1. /\ created \in BOOLEAN /\ committed \in Nat /\ cache = NoState
        /\ cursors \in [Consumer -> Nat] /\ acked = {}
    BY Zenon DEF Init
  <2>2. committed <= NextIn(segs) - 1
    BY <1>1 DEF Init
  <2>3. \A c \in Consumer : cursors[c] <= NextIn(segs) - 1
    BY <1>1 DEF Init
  <2>4. QED
    BY <1>1, <1>2, <1>3, <1>4, <2>1, <2>2, <2>3, SMTT(30), Z3T(30) DEF StoreInv, FilesOK
<1>6. DOMAIN LogIn(segs) = {} /\ Len(LogIn(segs)) = 0
  BY <1>1, <1>2, LogLen
<1>7. LogIn(segs) = [s \in 1..0 |-> LogIn(segs)[s]]
  BY <1>1 DEF LogIn
<1>8. LogIn(segs) = <<>>
  BY <1>6, <1>7
<1>9. QED
  BY <1>5, <1>8

\* The invariant holds for every configuration of the store.
THEOREM StoreInvariant == Spec => []StoreInv
<1>1. Init => StoreInv
  BY StoreInit
<1>2. StoreInv /\ [Next]_vars => StoreInv'
  BY StoreStep
<1>3. QED
  BY <1>1, <1>2, PTL DEF Spec

\* The invariant implies the properties, and the records are the flat log.
LEMMA StoreInvImplies ==
  ASSUME StoreInv
  PROVE  TypeOK /\ CachedStateIsExact /\ AckedRecordsSurvive
         /\ Records = LogIn(segs)
<1>1. /\ FilesOK(segs) /\ ChainOK(segs) /\ segs \in Seq(Segments)
      /\ DOMAIN segs = 1..Len(segs)
  BY DEF StoreInv, FilesOK, ChainOK
<1>2. Records = LogIn(segs)
  BY <1>1, StateFiles, SMTT(30)
<1>3. TypeOK
  BY <1>1, FilesSegment DEF StoreInv, TypeOK, SegmentOK
<1>4. CachedStateIsExact
  <2>1. ASSUME cache # NoState
        PROVE  cache = Recovered /\ \A i \in 1..Len(segs) : Decodes(segs[i])
    <3>1. AllDecode(segs) /\ cache = StateIn(segs)
      BY <2>1 DEF StoreInv
    <3>2. RepairIn(segs) = segs
      BY <1>1, <3>1, DecodedFiles
    <3>3. \A i \in DOMAIN segs : segs[i].whole
      BY <3>1 DEF AllDecode, Decodes
    <3>4. Recovered = StateIn(segs)
      BY <1>1, <3>2, <3>3, StateFiles, SMTT(30), Z3T(30)
    <3>5. QED
      BY <1>1, <3>1, <3>4, SMTT(30) DEF AllDecode
  <2>2. QED
    BY <2>1 DEF CachedStateIsExact
<1>5. AckedRecordsSurvive
  <2>1. Len(Records) = NextIn(segs) - 1 /\ NextIn(segs) \in Nat
    BY <1>1, <1>2, LogLen, NextInFacts, SMTT(30), Z3T(30)
  <2>2. \A a \in acked : /\ a.seq \in 1..(NextIn(segs) - 1)
                         /\ LogIn(segs)[a.seq] = a.payload
    BY DEF StoreInv
  <2>3. QED
    BY <1>2, <2>1, <2>2 DEF AckedRecordsSurvive
<1>6. QED
  BY <1>2, <1>3, <1>4, <1>5, SMTT(30), Z3T(30)

\* The files, the cached state and what is recorded about them keep their
\* types.
THEOREM StoreTypesCorrect == Spec => []TypeOK
BY StoreInvariant, StoreInvImplies, PTL

\* The state that append_exact and read_from trust is what recover_stream
\* would find, and every segment decodes without repair.
THEOREM CachedStateCorrect == Spec => []CachedStateIsExact
BY StoreInvariant, StoreInvImplies, PTL

\* A record whose append was reported stays in the files, whatever fails.
THEOREM AckedRecordsCorrect == Spec => []AckedRecordsSurvive
BY StoreInvariant, StoreInvImplies, PTL

\* A step of the flat log, in the words of FabricDurableLog.
LEMMA FlatStep ==
  ASSUME StoreInv, Records = LogIn(segs), (Records = LogIn(segs))', LogStep
  PROVE  [FlatLog!Next]_<<Records, committed, cursors>>
<1>1. Records = LogIn(segs) /\ Records' = LogIn(segs')
  OBVIOUS
<1>2. Len(Records) = NextIn(segs) - 1
  BY <1>1, LogLen DEF StoreInv, FilesOK
<1>3. CASE /\ LogIn(segs') = LogIn(segs)
           /\ committed' = committed /\ cursors' = cursors
  BY <1>1, <1>3
<1>4. CASE /\ \E p \in Payload : LogIn(segs') = Append(LogIn(segs), p)
           /\ committed' = committed /\ cursors' = cursors
  BY <1>1, <1>4 DEF FlatLog!Next, FlatLog!Put
<1>5. CASE /\ LogIn(segs') = LogIn(segs)
           /\ committed' \in (committed + 1)..(NextIn(segs) - 1)
           /\ cursors' = cursors
  BY <1>1, <1>2, <1>5 DEF FlatLog!Next, FlatLog!Commit
<1>6. CASE /\ LogIn(segs') = LogIn(segs) /\ committed' = committed
           /\ \E c \in Consumer : \E k \in cursors[c]..(NextIn(segs) - 1) :
                 cursors' = [cursors EXCEPT ![c] = k]
  BY <1>1, <1>2, <1>6, Zenon DEF FlatLog!Next, FlatLog!Move
<1>7. QED
  BY <1>3, <1>4, <1>5, <1>6, SMTT(30) DEF LogStep

\* The store implements the durable log: every step of an operation, of a
\* failure or of a restart is a step of the flat log or leaves it alone.
THEOREM StoreRefinesDurableLog == Spec => ImplementsDurableLog
<1>1. Init => FlatLog!Init
  <2> SUFFICES ASSUME Init PROVE FlatLog!Init
    OBVIOUS
  <2>1. Records = <<>>
    BY StoreInit, StoreInvImplies
  <2>2. QED
    BY <2>1 DEF Init, FlatLog!Init
<1>2. StoreInv => Records = LogIn(segs)
  BY StoreInvImplies
<1>3. /\ StoreInv /\ Records = LogIn(segs) /\ (Records = LogIn(segs))'
      /\ [Next]_vars
      => [FlatLog!Next]_<<Records, committed, cursors>>
  BY StoreStep, FlatStep
<1>4. QED
  BY <1>1, <1>2, <1>3, StoreInvariant, PTL DEF Spec, ImplementsDurableLog, FlatLog!Spec

=============================================================================
