-------------------------- MODULE UdbJournalProofs --------------------------
(* Proofs about UdbJournal, for every set of extents and every bound.        *)
EXTENDS UdbJournal, TLAPS

-----------------------------------------------------------------------------
(* Facts about the values the journal is built from.                         *)

LEMMA GenesisType == Genesis \in RootSet /\ Torn \in RootSet
BY DEF Genesis, Torn, RootSet

LEMMA SuccessorType ==
    ASSUME NEW s \in RootSet, NEW n \in Nat, NEW e \in Extents, NEW k \in Nat
    PROVE  [gen |-> s.gen + 1, id |-> n, hist |-> s.hist \cup {n},
            ext |-> e, ver |-> n, stages |-> k] \in RootSet
<1>1. s.gen + 1 \in Nat
  BY DEF RootSet
<1>2. s.hist \cup {n} \in SUBSET Nat
  BY DEF RootSet
<1> QED BY <1>1, <1>2 DEF RootSet

LEMMA DiscardedType ==
    ASSUME NEW s \in RootSet, nextId \in Nat
    PROVE  /\ Discarded(s) \in RootSet
           /\ Discarded(s).gen = s.gen + 1 /\ Discarded(s).hist = s.hist
<1>1. /\ s.gen + 1 \in Nat /\ s.hist \in SUBSET Nat
      /\ s.ext \in Extents \cup {NoExt} /\ s.ver \in Nat
  BY DEF RootSet
<1>2. Discarded(s) \in RootSet
  BY <1>1 DEF Discarded, RootSet
<1> QED BY <1>2 DEF Discarded

LEMMA RecoveredType ==
    ASSUME TypeOK
    PROVE  Checkpoint \in RootSet /\ NewestSlot \in {0, 1} /\ Recovered \in RootSet
<1>1. Checkpoint \in RootSet /\ NewestSlot \in {0, 1}
  BY DEF TypeOK, Checkpoint, NewestSlot, Slots
<1>2. ASSUME wal # <<>> PROVE wal[Len(wal)].st \in RootSet
  <2>1. Len(wal) \in 1 .. Len(wal)
    BY <1>2 DEF TypeOK
  <2>2. wal[Len(wal)] \in Entry
    BY <2>1 DEF TypeOK
  <2> QED BY <2>2 DEF Entry
<1> QED BY <1>1, <1>2 DEF Recovered

LEMMA ForgetType ==
    ASSUME NEW q \in {"down", "closed"}, Forget(q)
    PROVE  /\ pc' \in {"down", "closed"} /\ boot' \in BOOLEAN
           /\ state' \in RootSet /\ candidate' \in RootSet /\ slot' \in {0, 1}
           /\ free' \subseteq Extents /\ pins' \subseteq RootSet
BY GenesisType DEF Forget

LEMMA CountType ==
    ASSUME NEW k \in {"kill", "power", "rot", "fail"}, NEW b,
           faults \in [{"kill", "power", "rot", "fail"} -> Nat], Count(k, b)
    PROVE  faults' \in [{"kill", "power", "rot", "fail"} -> Nat]
BY DEF Count

LEMMA LogImageType ==
    ASSUME TypeOK, NEW image \in LogImages
    PROVE  image[1] \in Seq(Entry) /\ image[2] \in Tails
<1>1. CASE image = <<dWal, dTail>>
  BY <1>1 DEF TypeOK
<1>2. CASE \E n \in 0 .. Len(wal), t \in Tails : image = <<SubSeq(wal, 1, n), t>>
  <2>1. PICK n \in 0 .. Len(wal), t \in Tails : image = <<SubSeq(wal, 1, n), t>>
    BY <1>2
  <2>2. SubSeq(wal, 1, n) \in Seq(Entry)
    BY <2>1 DEF TypeOK
  <2> QED BY <2>1, <2>2
<1>3. image = <<dWal, dTail>> \/ \E n \in 0 .. Len(wal), t \in Tails : image = <<SubSeq(wal, 1, n), t>>
  <2> DEFINE base == IF Begins(dWal, wal) THEN Len(dWal) ELSE 0
  <2>1. base \in Nat
    BY DEF TypeOK
  <2>2. base .. Len(wal) \subseteq 0 .. Len(wal)
    BY <2>1 DEF TypeOK
  <2> QED BY <2>2 DEF LogImages, Tails
<1> QED BY <1>1, <1>2, <1>3

-----------------------------------------------------------------------------
(* Type correctness.                                                         *)

LEMMA InitType == Init => TypeOK
<1> SUFFICES ASSUME Init PROVE TypeOK
  OBVIOUS
<1> USE GenesisType
<1>1. pc \in Writing /\ boot \in BOOLEAN /\ slot \in {0, 1}
  BY DEF Init, Writing
<1>2. state \in RootSet /\ candidate \in RootSet /\ acked \in RootSet
  BY DEF Init
<1>3. slots \in Slots /\ dSlots \in Slots /\ floor \in RootSet /\ dFloor \in RootSet
  BY DEF Init, Slots
<1>4. wal \in Seq(Entry) /\ dWal \in Seq(Entry) /\ tail \in Tails /\ dTail \in Tails
  BY DEF Init, Tails
<1>5. data \in [Extents -> Nat] /\ dData \in [Extents -> Nat]
  BY DEF Init
<1>6. free \subseteq Extents /\ pins \subseteq RootSet /\ nextId \in Nat /\ inc \in Nat
  BY DEF Init
<1>7. faults \in [{"kill", "power", "rot", "fail"} -> Nat]
  BY DEF Init
<1> QED BY <1>1, <1>2, <1>3, <1>4, <1>5, <1>6, <1>7 DEF TypeOK

LEMMA StepType == TypeOK /\ [Next]_vars => TypeOK'
<1> SUFFICES ASSUME TypeOK, [Next]_vars PROVE TypeOK'
  OBVIOUS
<1> USE GenesisType DEF TypeOK
<1>1. CASE Prepare
  <2>1. PICK e \in free, s \in {state.stages, inc, 0} :
          /\ candidate' = [gen |-> state.gen + 1, id |-> nextId,
                           hist |-> state.hist \cup {nextId},
                           ext |-> e, ver |-> nextId, stages |-> s]
          /\ data' = [data EXCEPT ![e] = nextId]
          /\ free' = free \ {e}
    BY <1>1 DEF Prepare
  <2>2. candidate' \in RootSet
    <3>1. state.stages \in Nat
      BY DEF RootSet
    <3>2. e \in Extents /\ s \in Nat
      BY <3>1
    <3> QED BY <2>1, <3>2, SuccessorType
  <2>3. data' \in [Extents -> Nat] /\ free' \subseteq Extents
    BY <2>1
  <2>4. pc' \in Writing /\ nextId' \in Nat
    BY <1>1 DEF Prepare, Writing
  <2> QED BY <1>1, <2>2, <2>3, <2>4 DEF Prepare, dsk
<1>2. CASE Abandon
  BY <1>2 DEF Abandon, mem, dsk
<1>3. CASE FlushData
  BY <1>3 DEF FlushData, Writing, mem
<1>4. CASE AppendBegin
  BY <1>4 DEF AppendBegin, Writing, Tails, dsk
<1>5. CASE AppendEnd
  <2>1. EntryFor(candidate, state.id) \in Entry
    BY DEF EntryFor, Entry, RootSet
  <2>2. wal' \in Seq(Entry)
    BY <1>5, <2>1 DEF AppendEnd
  <2>3. pc' \in Writing /\ tail' \in Tails
    BY <1>5 DEF AppendEnd, Writing, Tails
  <2> QED BY <1>5, <2>2, <2>3 DEF AppendEnd, dsk
<1>6. CASE FlushWal
  BY <1>6 DEF FlushWal, WalFlushed, Writing, mem
<1>7. CASE Publish
  BY <1>7 DEF Publish, Writing, mem, dsk
<1>8. CASE SlotBegin
  BY <1>8 DEF SlotBegin, Inactive, Slots, Writing, dsk
<1>9. CASE SlotEnd
  BY <1>9 DEF SlotEnd, Inactive, Slots, Writing, dsk
<1>10. CASE FlushSlot
  BY <1>10 DEF FlushSlot, Inactive, Slots, Writing, mem
<1>11. CASE WriteFloor
  BY <1>11 DEF WriteFloor, Writing, dsk
<1>12. CASE FlushFloor
  BY <1>12 DEF FlushFloor, WalFlushed, Writing, mem
<1>13. CASE Truncate
  BY <1>13 DEF Truncate, Writing, Tails, dsk
<1>14. CASE FlushTruncate
  BY <1>14 DEF FlushTruncate, WalFlushed, Inactive, mem
<1>15. CASE Mark
  BY <1>15 DEF Mark, mem, dsk
<1>16. CASE Pin
  BY <1>16 DEF Pin, mem, dsk
<1>17. CASE Release
  BY <1>17 DEF Release, mem, dsk
<1>18. CASE Kill
  BY <1>18, ForgetType, CountType DEF Kill, mem, dsk
<1>19. CASE IoFail
  BY <1>19, CountType DEF IoFail, mem, dsk
<1>20. CASE Exit
  BY <1>20, ForgetType DEF Exit, mem, dsk
<1>21. CASE PowerLoss
  <2>1. slots' \in Slots /\ dSlots' \in Slots
    BY <1>21 DEF PowerLoss, Slots
  <2>2. floor' \in RootSet /\ dFloor' \in RootSet
    BY <1>21 DEF PowerLoss
  <2>3. wal' \in Seq(Entry) /\ dWal' \in Seq(Entry) /\ tail' \in Tails /\ dTail' \in Tails
    BY <1>21, LogImageType DEF PowerLoss
  <2>4. data' \in [Extents -> Nat] /\ dData' \in [Extents -> Nat]
    BY <1>21 DEF PowerLoss
  <2>5. faults' \in [{"kill", "power", "rot", "fail"} -> Nat]
    BY <1>21, CountType DEF PowerLoss
  <2> QED BY <1>21, <2>1, <2>2, <2>3, <2>4, <2>5, ForgetType DEF PowerLoss
<1>22. CASE Rot
  BY <1>22, CountType DEF Rot, run, Slots
<1>23. CASE Recover
  <2>1. Recovered \in RootSet /\ NewestSlot \in {0, 1} /\ Discarded(Recovered) \in RootSet
    BY RecoveredType, DiscardedType
  <2>2. candidate' \in RootSet /\ pc' \in Writing /\ nextId' \in Nat /\ tail' \in Tails
    BY <1>23, <2>1 DEF Recover, Proceed, Writing, Tails
  <2> QED BY <1>23, <2>1, <2>2 DEF Recover, dsk
<1>24. CASE Retire
  <2>1. Discarded(state) \in RootSet
    BY DiscardedType
  <2>2. candidate' \in RootSet /\ pc' \in Writing /\ nextId' \in Nat
    BY <1>24, <2>1 DEF Retire, Proceed, Writing
  <2> QED BY <1>24, <2>2 DEF Retire, WalFlushed, mem
<1>25. CASE Refuse
  BY <1>25 DEF Refuse, mem, dsk
<1>26. CASE UNCHANGED vars
  BY <1>26 DEF vars, run, mem, dsk
<1> QED
  BY <1>1, <1>2, <1>3, <1>4, <1>5, <1>6, <1>7, <1>8, <1>9, <1>10, <1>11, <1>12, <1>13,
     <1>14, <1>15, <1>16, <1>17, <1>18, <1>19, <1>20, <1>21, <1>22, <1>23, <1>24, <1>25, <1>26
  DEF Next, Work, Commit, TakeCheckpoint, Reopen, Environment

\* Every variable of the journal keeps its kind.
THEOREM TypeCorrect == Spec => []TypeOK
<1> QED BY InitType, StepType, PTL DEF Spec

-----------------------------------------------------------------------------
(* No acknowledged transaction is lost: IInv is inductive.                   *)

LEMMA EntriesType == ASSUME NEW w \in Seq(Entry) PROVE Entries(w) \subseteq RootSet
<1>1. \A i \in 1 .. Len(w) : w[i] \in Entry
  OBVIOUS
<1>2. \A e \in Entry : e.st \in RootSet
  BY DEF Entry
<1> QED BY <1>1, <1>2 DEF Entries

LEMMA EntriesOfNothing == Entries(<<>>) = {}
BY DEF Entries

LEMMA EntriesAppend ==
    ASSUME NEW w \in Seq(Entry), NEW e \in Entry
    PROVE  Entries(Append(w, e)) = Entries(w) \cup {e.st}
<1>1. Len(Append(w, e)) = Len(w) + 1 /\ Append(w, e)[Len(w) + 1] = e
  OBVIOUS
<1>2. \A i \in 1 .. Len(w) : Append(w, e)[i] = w[i]
  OBVIOUS
<1>3. 1 .. Len(w) + 1 = (1 .. Len(w)) \cup {Len(w) + 1}
  OBVIOUS
<1> QED BY <1>1, <1>2, <1>3 DEF Entries

LEMMA EntriesSub ==
    ASSUME NEW w \in Seq(Entry), NEW n \in 0 .. Len(w)
    PROVE  Entries(SubSeq(w, 1, n)) \subseteq Entries(w)
<1>1. Len(SubSeq(w, 1, n)) = n /\ \A i \in 1 .. n : SubSeq(w, 1, n)[i] = w[i]
  OBVIOUS
<1>2. 1 .. n \subseteq 1 .. Len(w)
  OBVIOUS
<1> QED BY <1>1, <1>2 DEF Entries

LEMMA EntriesBegin ==
    ASSUME NEW u \in Seq(Entry), NEW w \in Seq(Entry), Begins(u, w)
    PROVE  Entries(u) \subseteq Entries(w)
<1>1. Len(u) \in 0 .. Len(w)
  BY DEF Begins
<1> QED BY <1>1, EntriesSub DEF Begins

LEMMA BeginsSelf == ASSUME NEW w \in Seq(Entry) PROVE Begins(w, w)
<1>1. SubSeq(w, 1, Len(w)) = w
  OBVIOUS
<1> QED BY <1>1 DEF Begins

LEMMA BeginsAppend ==
    ASSUME NEW u \in Seq(Entry), NEW w \in Seq(Entry), NEW e \in Entry, Begins(u, w)
    PROVE  Begins(u, Append(w, e))
<1>1. Len(u) <= Len(Append(w, e))
  BY DEF Begins
<1>2. SubSeq(Append(w, e), 1, Len(u)) = SubSeq(w, 1, Len(u))
  BY DEF Begins
<1> QED BY <1>1, <1>2 DEF Begins

\* A longer beginning of w begins with a shorter one.
LEMMA BeginsSub ==
    ASSUME NEW u \in Seq(Entry), NEW w \in Seq(Entry), Begins(u, w), NEW n \in Len(u) .. Len(w)
    PROVE  Entries(u) \subseteq Entries(SubSeq(w, 1, n))
<1>1. Len(SubSeq(w, 1, n)) = n /\ \A i \in 1 .. n : SubSeq(w, 1, n)[i] = w[i]
  OBVIOUS
<1>2. \A i \in 1 .. Len(u) : u[i] = w[i]
  BY DEF Begins
<1>3. 1 .. Len(u) \subseteq 1 .. n
  OBVIOUS
<1> QED BY <1>1, <1>2, <1>3 DEF Entries

LEMMA KeptType == ASSUME TypeOK PROVE Kept \subseteq RootSet
BY EntriesType DEF Kept, TypeOK, Slots

LEMMA ExtendsSelf == ASSUME NEW s \in RootSet PROVE Extends(s, s)
BY DEF Extends, RootSet

LEMMA ExtendsSuccessor ==
    ASSUME NEW s \in RootSet, NEW t \in RootSet, NEW c \in RootSet, Extends(s, t),
           c.gen = s.gen + 1, s.hist \subseteq c.hist
    PROVE  Extends(c, t)
<1>1. t.gen < c.gen
  BY DEF Extends, RootSet
<1>2. t.hist \subseteq c.hist
  BY DEF Extends
<1> QED BY <1>1, <1>2 DEF Extends, RootSet

\* What is kept stays one history when nothing is added to it, or its new tip.
LEMMA HistoryShrinks ==
    ASSUME OneHistory, Kept' \subseteq Kept
    PROVE  OneHistory'
BY DEF OneHistory, Extends

LEMMA HistoryGrows ==
    ASSUME TypeOK, OneHistory, NEW c \in RootSet, \A s \in Kept : Extends(c, s),
           Kept' \subseteq Kept \cup {c}
    PROVE  OneHistory'
<1> SUFFICES ASSUME NEW s \in Kept', NEW t \in Kept', s.gen <= t.gen
             PROVE  Extends(t, s)
  BY DEF OneHistory, Extends
<1>1. s \in RootSet /\ t \in RootSet
  BY KeptType
<1>2. CASE s \in Kept /\ t \in Kept
  BY <1>2 DEF OneHistory
<1>3. CASE t = c /\ s \in Kept
  BY <1>3
<1>4. CASE t = c /\ s = c
  BY <1>4, ExtendsSelf
<1>5. CASE s = c /\ t \in Kept
  <2>1. Extends(c, t)
    BY <1>5
  <2>2. c.gen = t.gen
    BY <2>1, <1>1, <1>5 DEF Extends, RootSet
  <2> QED BY <2>1, <2>2, <1>5, <1>1, ExtendsSelf DEF Extends
<1> QED BY <1>2, <1>3, <1>4, <1>5

files == <<slots, floor, wal, dSlots, dFloor, dWal>>

\* Steps that leave every file and the root set of the process alone.
LEMMA QuietStep ==
    ASSUME IInv, UNCHANGED <<files, acked, state>>, ~Down' => ~Down, Running' => Running,
           pc' = "flushWal" => pc = "flushWal" /\ candidate' = candidate,
           Running' /\ pc = "flushWal" => pc' = "flushWal"
    PROVE  NoLostAck' /\ OneHistory' /\ AtTheTip' /\ CacheKnows' /\ AckedDurable'
<1> USE DEF IInv, files
<1>1. Kept' = Kept
  BY DEF Kept
<1>2. NoLostAck'
  BY DEF NoLostAck, Extends
<1>3. OneHistory'
  BY <1>1, HistoryShrinks
<1>4. AtTheTip'
  <2>1. Running' => Tip' = Tip
    BY DEF Tip
  <2> QED BY <1>1, <2>1 DEF AtTheTip, Extends
<1>5. CacheKnows'
  BY DEF CacheKnows, LogKnows
<1>6. AckedDurable'
  BY DEF AckedDurable
<1> QED BY <1>2, <1>3, <1>4, <1>5, <1>6

\* Steps that end the process and leave the files alone.
LEMMA EndingStep ==
    ASSUME IInv, UNCHANGED <<files, acked>>, pc' \in {"down", "closed"}
    PROVE  NoLostAck' /\ OneHistory' /\ AtTheTip' /\ CacheKnows' /\ AckedDurable' /\ Stages'
<1> USE DEF IInv, files
<1>1. Kept' = Kept
  BY DEF Kept
<1>2. Down' /\ ~Running'
  BY DEF Down, Running
<1>3. OneHistory'
  BY <1>1, HistoryShrinks
<1>4. CacheKnows'
  BY <1>2 DEF CacheKnows, LogKnows
<1>5. AckedDurable'
  BY DEF AckedDurable
<1>6. Stages'
  BY DEF Stages
<1> QED BY <1>2, <1>3, <1>4, <1>5, <1>6 DEF NoLostAck, AtTheTip

\* What IInv adds to TypeOK.
Safe == NoLostAck /\ OneHistory /\ AtTheTip /\ CacheKnows /\ AckedDurable /\ Stages

\* A running process stands on a root set its log or its floor already holds, so
\* the log knows everything that is kept.
LEMMA TipKept ==
    ASSUME IInv, Running
    PROVE  /\ Tip \in {floor} \cup Entries(wal)
           /\ \A s \in Kept : s.gen <= Tip.gen
<1> USE DEF IInv
<1>1. \A s \in Kept : Extends(Tip, s)
  BY DEF AtTheTip
<1>2. \A s \in Kept : s.gen <= Tip.gen
  BY <1>1 DEF Extends
<1>3. ASSUME pc = "flushWal" PROVE Tip \in {floor} \cup Entries(wal)
  BY <1>3 DEF Stages, Tip
<1>4. ASSUME pc # "flushWal" PROVE Tip \in {floor} \cup Entries(wal)
  <2>1. Tip = state
    BY <1>4 DEF Tip
  <2>2. PICK t \in {floor} \cup Entries(wal) : state.gen <= t.gen
    BY DEF CacheKnows, LogKnows
  <2>3. t \in Kept
    BY DEF Kept
  <2>4. state \in RootSet /\ t \in RootSet
    BY <2>3, KeptType DEF TypeOK
  <2>5. t.gen = state.gen /\ Extends(state, t)
    BY <1>1, <2>1, <2>2, <2>3, <2>4 DEF Extends, RootSet
  <2>6. t = state
    BY <2>5 DEF Extends
  <2> QED BY <2>1, <2>6
<1> QED BY <1>2, <1>3, <1>4

\* Steps of a running process that add no root set to what is kept.
LEMMA RunningStep ==
    ASSUME IInv, Running, Kept' \subseteq Kept, Tip' = Tip, pc' # "flushWal"
    PROVE  NoLostAck' /\ OneHistory' /\ AtTheTip'
<1> USE DEF IInv
<1>1. OneHistory'
  BY HistoryShrinks
<1>2. \A s \in Kept' : Extends(Tip', s)
  BY DEF AtTheTip, Extends
<1>3. AtTheTip'
  BY <1>2 DEF AtTheTip, Extends
<1>4. Tip' = state'
  BY DEF Tip
<1>5. acked' \in Kept'
  BY DEF Kept
<1>6. NoLostAck'
  BY <1>2, <1>4, <1>5 DEF NoLostAck, Extends
<1> QED BY <1>1, <1>3, <1>6

\* ... and leave in the cache a log or floor as new as the tip.
LEMMA CacheStep ==
    ASSUME IInv, TypeOK', Kept' \subseteq Kept,
           NEW t \in ({floor} \cup Entries(wal))', \A s \in Kept : s.gen <= t.gen,
           state' \in Kept
    PROVE  CacheKnows'
<1>1. \A s \in Kept' : LogKnows(s)'
  BY DEF LogKnows
<1>2. LogKnows(state)'
  BY DEF LogKnows
<1>3. acked' \in Kept' /\ dFloor' \in Kept' /\ Entries(dWal)' \subseteq Kept'
  BY DEF Kept
<1>4. ASSUME NEW k \in {0, 1} PROVE LogKnows(dSlots[k])'
  <2>1. CASE dSlots'[k] \in Kept'
    BY <2>1, <1>1 DEF LogKnows
  <2>2. CASE dSlots'[k] \notin Kept'
    <3>1. dSlots'[k].gen = 0
      BY <2>2 DEF Kept, Readable
    <3>2. floor'.gen \in Nat
      BY DEF TypeOK, RootSet
    <3> QED BY <3>1, <3>2 DEF LogKnows
  <2> QED BY <2>1, <2>2
<1> QED BY <1>1, <1>2, <1>3, <1>4 DEF CacheKnows, LogKnows

\* A flush of the log makes everything the cache knows durable.
LEMMA FlushStep ==
    ASSUME IInv, TypeOK', WalFlushed, UNCHANGED <<slots, floor, wal, acked>>,
           dSlots' = dSlots
    PROVE  Kept' \subseteq Kept /\ AckedDurable'
<1> USE DEF IInv, WalFlushed
<1>1. Kept' \subseteq Kept
  BY DEF Kept
<1>2. PICK t \in {floor} \cup Entries(wal) : acked.gen <= t.gen
  BY DEF CacheKnows, LogKnows
<1>3. ASSUME t = floor PROVE AckedDurable'
  BY <1>2, <1>3 DEF AckedDurable
<1>4. ASSUME t \in Entries(wal) PROVE AckedDurable'
  <2>1. Begins(wal, wal)
    BY BeginsSelf DEF TypeOK
  <2> QED BY <1>2, <1>4, <2>1 DEF AckedDurable, Begins, Entries
<1> QED BY <1>1, <1>2, <1>3, <1>4

LEMMA AppendSafe == ASSUME IInv, TypeOK', AppendEnd PROVE Safe'
<1> USE DEF IInv
<1> DEFINE e == EntryFor(candidate, state.id)
<1>1. /\ pc = "appending" /\ Running /\ Tip = state /\ Tip' = candidate /\ Running' /\ ~Down
      /\ wal' = Append(wal, e) /\ pc' = "flushWal"
      /\ UNCHANGED <<slots, floor, dSlots, dFloor, dWal, acked, state, candidate>>
  BY DEF AppendEnd, Running, Tip, Down, dsk
<1>2. e \in Entry /\ e.st = candidate
  BY DEF EntryFor, Entry, TypeOK, RootSet
<1>3. wal \in Seq(Entry) /\ dWal \in Seq(Entry) /\ candidate \in RootSet /\ state \in RootSet
  BY DEF TypeOK
<1>4. Entries(wal') = Entries(wal) \cup {candidate}
  BY <1>1, <1>2, <1>3, EntriesAppend
<1>5. Kept' = Kept \cup {candidate}
  BY <1>1, <1>4 DEF Kept, Entries
<1>6. candidate.gen = state.gen + 1 /\ state.hist \subseteq candidate.hist
  BY <1>1 DEF Stages
<1>7. \A s \in Kept : Extends(candidate, s)
  <2> TAKE s \in Kept
  <2>1. Extends(state, s) /\ s \in RootSet
    BY <1>1, KeptType DEF AtTheTip
  <2> QED BY <2>1, <1>3, <1>6, ExtendsSuccessor
<1>8. OneHistory'
  BY <1>3, <1>5, <1>7, HistoryGrows
<1>9. AtTheTip'
  <2>1. Extends(candidate, candidate)
    BY <1>3, ExtendsSelf
  <2> QED BY <1>1, <1>5, <1>7, <2>1 DEF AtTheTip, Extends
<1>10. NoLostAck'
  BY <1>1 DEF NoLostAck, Extends
<1>11. CacheKnows'
  <2>1. \A s : LogKnows(s) => LogKnows(s)'
    BY <1>1, <1>4 DEF LogKnows
  <2>2. CacheKnows
    OBVIOUS
  <2>3. LogKnows(state)
    BY <1>1 DEF CacheKnows
  <2>4. LogKnows(state)'
    BY <1>1, <2>1, <2>3
  <2>5. (\A t \in {acked, dFloor} \cup Entries(dWal) : LogKnows(t))'
    BY <1>1, <2>1, <2>2 DEF CacheKnows, Entries
  <2>6. (\A k \in {0, 1} : dSlots[k] = slots[k] \/ LogKnows(dSlots[k]))'
    BY <1>1, <2>1, <2>2 DEF CacheKnows
  <2> QED BY <2>4, <2>5, <2>6 DEF CacheKnows
<1>12. AckedDurable'
  <2>1. CASE acked.gen <= floor.gen /\ acked.gen <= dFloor.gen
    BY <1>1, <2>1 DEF AckedDurable
  <2>2. CASE Begins(dWal, wal) /\ \E s \in Entries(dWal) : acked.gen <= s.gen
    <3>1. Begins(dWal, wal')
      BY <1>1, <1>2, <1>3, <2>2, BeginsAppend
    <3> QED BY <1>1, <2>2, <3>1 DEF AckedDurable, Begins, Entries
  <2> QED BY <2>1, <2>2 DEF AckedDurable
<1>13. Stages'
  BY <1>1, <1>4, <1>6 DEF Stages, Entries
<1> QED BY <1>8, <1>9, <1>10, <1>11, <1>12, <1>13 DEF Safe

LEMMA FlushWalSafe == ASSUME IInv, TypeOK', FlushWal PROVE Safe'
<1> USE DEF IInv
<1>1. /\ pc = "flushWal" /\ Running /\ Tip = candidate /\ Tip' = candidate /\ ~Down
      /\ WalFlushed /\ state' = candidate /\ pc' \in {"slot", "publish"}
      /\ UNCHANGED <<slots, floor, wal, acked, dSlots, candidate>>
  BY DEF FlushWal, Running, Tip, Down, mem
<1>2. candidate \in Entries(wal) /\ candidate \in Kept
  BY <1>1 DEF Stages, Kept
<1>3. Kept' \subseteq Kept /\ AckedDurable'
  BY <1>1, FlushStep
<1>4. NoLostAck' /\ OneHistory' /\ AtTheTip'
  BY <1>1, <1>3, RunningStep
<1>5. CacheKnows'
  <2>1. candidate \in ({floor} \cup Entries(wal))'
    BY <1>1, <1>2 DEF Entries
  <2>2. \A s \in Kept : s.gen <= candidate.gen
    BY <1>1, TipKept
  <2> QED BY <1>1, <1>2, <1>3, <2>1, <2>2, CacheStep
<1>6. Stages'
  BY <1>1, <1>2 DEF Stages, WalFlushed, Entries
<1> QED BY <1>3, <1>4, <1>5, <1>6 DEF Safe

LEMMA PublishSafe == ASSUME IInv, TypeOK', Publish PROVE Safe'
<1> USE DEF IInv
<1>1. /\ pc = "publish" /\ Running /\ Tip = state /\ Tip' = state /\ acked' = state
      /\ pc' \in {"slot", "idle"} /\ dWal = wal /\ state \in Entries(wal)
      /\ UNCHANGED <<slots, floor, wal, dWal, dFloor, dSlots, state, candidate>>
  BY DEF Publish, Running, Tip, mem, dsk, Stages
<1>2. state \in Kept /\ Kept' \subseteq Kept
  BY <1>1 DEF Kept, Entries
<1>3. NoLostAck' /\ OneHistory' /\ AtTheTip'
  BY <1>1, <1>2, RunningStep
<1>4. CacheKnows'
  <2>1. state \in ({floor} \cup Entries(wal))'
    BY <1>1 DEF Entries
  <2>2. \A s \in Kept : s.gen <= state.gen
    BY <1>1, TipKept
  <2> QED BY <1>1, <1>2, <2>1, <2>2, CacheStep
<1>5. AckedDurable'
  <2>1. Begins(wal, wal)
    BY BeginsSelf DEF TypeOK
  <2>2. state.gen <= state.gen
    BY DEF TypeOK, RootSet
  <2> QED BY <1>1, <2>1, <2>2 DEF AckedDurable, Begins, Entries
<1>6. Stages'
  BY <1>1 DEF Stages
<1> QED BY <1>3, <1>4, <1>5, <1>6 DEF Safe

\* The steps that write a checkpoint slot.
LEMMA SlotSafe == ASSUME IInv, TypeOK', SlotBegin \/ SlotEnd \/ FlushSlot PROVE Safe'
<1> USE DEF IInv
<1>1. /\ pc \in {"slot", "slotWriting", "flushSlot"} /\ Running /\ Tip = state /\ Tip' = state
      /\ pc' \in {"slotWriting", "flushSlot", "floor"}
      /\ UNCHANGED <<floor, wal, dWal, dFloor, acked, state, candidate>>
  BY DEF SlotBegin, SlotEnd, FlushSlot, Running, Tip, mem, dsk
<1>2. /\ \A s \in Kept : s.gen <= state.gen
      /\ state \in {floor} \cup Entries(wal)
  BY <1>1, TipKept
<1>3. state \in Kept
  BY <1>2 DEF Kept
<1>4. Inactive \in {0, 1}
  BY DEF Inactive, TypeOK
<1>5. \A k \in {0, 1} :
          /\ slots'[k] \in {slots[k], Torn, state}
          /\ dSlots'[k] \in {dSlots[k], slots[k]}
  BY <1>4 DEF SlotBegin, SlotEnd, FlushSlot, mem, dsk, TypeOK, Slots
<1>6. ~Readable(Torn)
  BY DEF Readable, Torn, Genesis
<1>7. Kept' \subseteq Kept
  <2>1. \A k \in {0, 1} : Readable(slots'[k]) => slots'[k] \in Kept
    BY <1>3, <1>5, <1>6 DEF Kept
  <2>2. \A k \in {0, 1} : Readable(dSlots'[k]) => dSlots'[k] \in Kept
    BY <1>5 DEF Kept
  <2>3. {floor, dFloor, acked}' \cup Entries(wal)' \cup Entries(dWal)' \subseteq Kept
    BY <1>1 DEF Kept, Entries
  <2> QED BY <2>1, <2>2, <2>3 DEF Kept, Readable
<1>8. NoLostAck' /\ OneHistory' /\ AtTheTip'
  BY <1>1, <1>7, RunningStep
<1>9. CacheKnows'
  <2>1. state \in ({floor} \cup Entries(wal))'
    BY <1>1, <1>2 DEF Entries
  <2> QED BY <1>1, <1>2, <1>3, <1>7, <2>1, CacheStep
<1>10. AckedDurable'
  BY <1>1 DEF AckedDurable, Begins, Entries
<1>11. Stages'
  BY <1>1 DEF Stages
<1> QED BY <1>8, <1>9, <1>10, <1>11 DEF Safe

\* The steps that move the floor up to the checkpoint and cut the log behind it.
LEMMA WriteFloorSafe == ASSUME IInv, TypeOK', WriteFloor PROVE Safe'
<1> USE DEF IInv
<1>1. /\ pc = "floor" /\ Running /\ Tip = state /\ Tip' = state /\ floor' = state
      /\ pc' = "flushFloor"
      /\ UNCHANGED <<slots, dSlots, wal, dWal, dFloor, acked, state, candidate>>
  BY DEF WriteFloor, Running, Tip, dsk
<1>2. /\ \A s \in Kept : s.gen <= state.gen
      /\ state \in Kept /\ acked \in Kept
  BY <1>1, TipKept DEF Kept
<1>3. Kept' \subseteq Kept
  BY <1>1, <1>2 DEF Kept, Entries
<1>4. NoLostAck' /\ OneHistory' /\ AtTheTip'
  BY <1>1, <1>3, RunningStep
<1>5. CacheKnows'
  <2>1. state \in ({floor} \cup Entries(wal))'
    BY <1>1
  <2> QED BY <1>1, <1>2, <1>3, <2>1, CacheStep
<1>6. AckedDurable'
  <2>1. acked.gen <= floor'.gen
    BY <1>1, <1>2
  <2> QED BY <1>1, <2>1 DEF AckedDurable, Begins, Entries
<1>7. Stages'
  BY <1>1 DEF Stages
<1> QED BY <1>4, <1>5, <1>6, <1>7 DEF Safe

LEMMA TruncateSafe == ASSUME IInv, TypeOK', Truncate PROVE Safe'
<1> USE DEF IInv
<1>1. /\ pc = "truncate" /\ Running /\ Tip = state /\ Tip' = state /\ floor = state
      /\ dFloor = state /\ pc' = "flushTruncate" /\ wal' = <<>>
      /\ UNCHANGED <<slots, dSlots, floor, dWal, dFloor, acked, state, candidate>>
  BY DEF Truncate, Running, Tip, dsk, Stages
<1>2. /\ \A s \in Kept : s.gen <= state.gen
      /\ state \in Kept /\ acked \in Kept
  BY <1>1, TipKept DEF Kept
<1>3. Kept' \subseteq Kept
  BY <1>1 DEF Kept, Entries
<1>4. NoLostAck' /\ OneHistory' /\ AtTheTip'
  BY <1>1, <1>3, RunningStep
<1>5. CacheKnows'
  <2>1. state \in ({floor} \cup Entries(wal))'
    BY <1>1
  <2> QED BY <1>1, <1>2, <1>3, <2>1, CacheStep
<1>6. AckedDurable'
  BY <1>1, <1>2 DEF AckedDurable
<1>7. Stages'
  BY <1>1 DEF Stages
<1> QED BY <1>4, <1>5, <1>6, <1>7 DEF Safe

LEMMA FlushFloorSafe == ASSUME IInv, TypeOK', FlushFloor \/ FlushTruncate PROVE Safe'
<1> USE DEF IInv
<1>1. /\ pc \in {"flushFloor", "flushTruncate"} /\ Running /\ Tip = state /\ Tip' = state
      /\ WalFlushed /\ floor = state /\ pc' \in {"truncate", "mark"}
      /\ UNCHANGED <<slots, dSlots, floor, wal, acked, state, candidate>>
  BY DEF FlushFloor, FlushTruncate, Running, Tip, mem, Stages
<1>2. Kept' \subseteq Kept /\ AckedDurable'
  BY <1>1, FlushStep
<1>3. NoLostAck' /\ OneHistory' /\ AtTheTip'
  BY <1>1, <1>2, RunningStep
<1>4. CacheKnows'
  <2>1. state \in ({floor} \cup Entries(wal))'
    BY <1>1
  <2>2. state \in Kept /\ \A s \in Kept : s.gen <= state.gen
    BY <1>1, TipKept DEF Kept
  <2> QED BY <1>1, <1>2, <2>1, <2>2, CacheStep
<1>5. Stages'
  BY <1>1 DEF Stages, WalFlushed
<1> QED BY <1>2, <1>3, <1>4, <1>5 DEF Safe

LEMMA MarkSafe == ASSUME IInv, TypeOK', Mark PROVE Safe'
<1> USE DEF IInv
<1>1. /\ pc = "mark" /\ Running /\ Tip = state /\ Tip' = state /\ floor = state
      /\ dFloor = state /\ acked' = state /\ pc' = "idle"
      /\ UNCHANGED <<slots, dSlots, floor, wal, dWal, dFloor, state, candidate>>
  BY DEF Mark, Running, Tip, mem, dsk, Stages
<1>2. state \in Kept /\ \A s \in Kept : s.gen <= state.gen
  BY <1>1, TipKept DEF Kept
<1>3. Kept' \subseteq Kept
  BY <1>1, <1>2 DEF Kept, Entries
<1>4. NoLostAck' /\ OneHistory' /\ AtTheTip'
  BY <1>1, <1>3, RunningStep
<1>5. CacheKnows'
  <2>1. state \in ({floor} \cup Entries(wal))'
    BY <1>1
  <2> QED BY <1>1, <1>2, <1>3, <2>1, CacheStep
<1>6. AckedDurable'
  BY <1>1, <1>2 DEF AckedDurable
<1>7. Stages'
  BY <1>1 DEF Stages
<1> QED BY <1>4, <1>5, <1>6, <1>7 DEF Safe

LEMMA RotSafe == ASSUME IInv, TypeOK', Rot PROVE Safe'
<1> USE DEF IInv
<1>1. /\ pc = "down" /\ pc' = "down" /\ Down' /\ ~Running'
      /\ UNCHANGED <<floor, wal, dWal, dFloor, acked, state, candidate>>
  BY DEF Rot, run, Down, Running
<1>2. PICK j \in {0, 1} : /\ slots' = [slots EXCEPT ![j] = Torn]
                          /\ dSlots' = [dSlots EXCEPT ![j] = Torn]
  BY DEF Rot
<1>3. ~Readable(Torn)
  BY DEF Readable, Torn, Genesis
<1>4. Kept' \subseteq Kept
  BY <1>1, <1>2, <1>3 DEF Kept, Entries, Readable, TypeOK, Slots
<1>5. CacheKnows'
  <2>1. \A s : LogKnows(s)' <=> LogKnows(s)
    BY <1>1 DEF LogKnows, Entries
  <2>2. slots \in [{0, 1} -> RootSet] /\ dSlots \in [{0, 1} -> RootSet]
    BY DEF TypeOK, Slots
  <2>3. \A k \in {0, 1} :
            dSlots'[k] = slots'[k] \/ (dSlots'[k] = dSlots[k] /\ slots'[k] = slots[k])
    BY <1>2, <2>2
  <2>4. \A k \in {0, 1} : dSlots'[k] = slots'[k] \/ LogKnows(dSlots[k])'
    BY <1>1, <2>3 DEF CacheKnows, LogKnows, Entries
  <2>5. \A s \in ({acked, dFloor} \cup Entries(dWal))' : LogKnows(s)'
    BY <1>1 DEF CacheKnows, LogKnows, Entries
  <2> QED BY <1>1, <2>4, <2>5 DEF CacheKnows, LogKnows
<1>6. OneHistory'
  BY <1>4, HistoryShrinks
<1> QED BY <1>1, <1>5, <1>6
        DEF Safe, NoLostAck, AtTheTip, AckedDurable, Begins, Entries, Stages

\* A power loss leaves nothing that no file held before.
LEMMA PowerLossKept == ASSUME IInv, TypeOK', PowerLoss PROVE Kept' \subseteq Kept
<1> USE DEF IInv
<1>1. /\ pc' = "down" /\ Down' /\ ~Running' /\ acked' = acked
      /\ dSlots' = slots' /\ dFloor' = floor' /\ dWal' = wal' /\ floor' \in {floor, dFloor}
  BY DEF PowerLoss, Forget, Down, Running
<1>2. \A k \in {0, 1} : slots'[k] \in {slots[k], dSlots[k], Torn}
  BY DEF PowerLoss
<1>3. \/ wal' = dWal
      \/ \E n \in 0 .. Len(wal) : wal' = SubSeq(wal, 1, n)
  <2>1. PICK image \in LogImages : wal' = image[1]
    BY DEF PowerLoss
  <2> DEFINE base == IF Begins(dWal, wal) THEN Len(dWal) ELSE 0
  <2>2. base \in Nat
    BY DEF TypeOK
  <2>3. \/ image = <<dWal, dTail>>
        \/ \E n \in base .. Len(wal) : image[1] = SubSeq(wal, 1, n)
    BY DEF LogImages
  <2> QED BY <2>1, <2>2, <2>3 DEF TypeOK
<1>4. wal \in Seq(Entry) /\ dWal \in Seq(Entry) /\ wal' \in Seq(Entry)
  BY DEF TypeOK
<1>5. Entries(wal') \subseteq Entries(wal) \cup Entries(dWal)
  BY <1>3, <1>4, EntriesSub
<1>6. Kept' \subseteq Kept
  <2>1. ~Readable(Torn)
    BY DEF Readable, Torn, Genesis
  <2>2. \A k \in {0, 1} : Readable(slots'[k]) => slots'[k] \in Kept
    BY <1>2, <2>1 DEF Kept
  <2>3. floor' \in Kept /\ acked' \in Kept
    BY <1>1 DEF Kept
  <2>4. Entries(wal)' \subseteq Kept /\ Entries(dWal)' = Entries(wal)'
    <3>1. Entries(wal') \subseteq Kept
      BY <1>5 DEF Kept
    <3> QED BY <1>1, <3>1 DEF Entries
  <2>5. \A s \in {slots'[0], slots'[1], dSlots'[0], dSlots'[1]} : Readable(s) => s \in Kept
    BY <1>1, <2>2
  <2> QED BY <1>1, <2>3, <2>4, <2>5 DEF Kept, Readable
<1> QED BY <1>6

LEMMA PowerLossSafe == ASSUME IInv, TypeOK', PowerLoss PROVE Safe'
<1> USE DEF IInv
<1>1. /\ pc' = "down" /\ Down' /\ ~Running' /\ acked' = acked
      /\ dSlots' = slots' /\ dFloor' = floor' /\ dWal' = wal' /\ floor' \in {floor, dFloor}
  BY DEF PowerLoss, Forget, Down, Running
<1>2. \A k \in {0, 1} : slots'[k] \in {slots[k], dSlots[k], Torn}
  BY DEF PowerLoss
<1>3. \/ wal' = dWal
      \/ \E n \in 0 .. Len(wal) : /\ wal' = SubSeq(wal, 1, n)
                                  /\ Begins(dWal, wal) => Len(dWal) <= n
  <2>1. PICK image \in LogImages : wal' = image[1]
    BY DEF PowerLoss
  <2> DEFINE base == IF Begins(dWal, wal) THEN Len(dWal) ELSE 0
  <2>2. base \in Nat
    BY DEF TypeOK
  <2>3. \/ image = <<dWal, dTail>>
        \/ \E n \in base .. Len(wal) : image[1] = SubSeq(wal, 1, n)
    BY DEF LogImages
  <2> QED BY <2>1, <2>2, <2>3 DEF TypeOK
<1>4. wal \in Seq(Entry) /\ dWal \in Seq(Entry) /\ wal' \in Seq(Entry)
  BY DEF TypeOK
<1>5. Entries(wal') \subseteq Entries(wal) \cup Entries(dWal)
  BY <1>3, <1>4, EntriesSub
<1>6. ASSUME Begins(dWal, wal) PROVE Entries(dWal) \subseteq Entries(wal')
  <2>1. CASE wal' = dWal
    BY <2>1
  <2>2. ASSUME NEW n \in 0 .. Len(wal), wal' = SubSeq(wal, 1, n), Len(dWal) <= n
        PROVE  Entries(dWal) \subseteq Entries(wal')
    <3>1. n \in Len(dWal) .. Len(wal)
      BY <1>4, <2>2
    <3> QED BY <1>4, <1>6, <2>2, <3>1, BeginsSub
  <2> QED BY <1>3, <1>6, <2>1, <2>2
<1>7. Kept' \subseteq Kept
  BY PowerLossKept
<1>8. OneHistory'
  BY <1>7, HistoryShrinks
<1>9. \E t \in {floor'} \cup Entries(wal') : acked.gen <= t.gen
  BY <1>1, <1>6 DEF AckedDurable
<1>10. CacheKnows'
  <2>1. \A s \in {dFloor'} \cup Entries(dWal') :
            \E t \in {floor'} \cup Entries(wal') : s.gen <= t.gen
    <3>1. {dFloor'} \cup Entries(dWal') \subseteq RootSet
      BY <1>1, <1>4, EntriesType DEF TypeOK
    <3> QED BY <1>1, <3>1 DEF RootSet
  <2>2. LogKnows(acked)' /\ LogKnows(dFloor)' /\ \A s \in Entries(dWal)' : LogKnows(s)'
    BY <1>1, <1>9, <2>1 DEF LogKnows, Entries
  <2> QED BY <1>1, <2>2 DEF CacheKnows
<1>11. AckedDurable'
  <2>1. CASE acked.gen <= floor'.gen
    BY <1>1, <2>1 DEF AckedDurable
  <2>2. CASE \E t \in Entries(wal') : acked.gen <= t.gen
    <3>1. Begins(wal', wal')
      BY <1>4, BeginsSelf
    <3> QED BY <1>1, <2>2, <3>1 DEF AckedDurable, Begins, Entries
  <2> QED BY <1>9, <2>1, <2>2
<1>12. Stages'
  BY <1>1 DEF Stages
<1> QED BY <1>1, <1>8, <1>10, <1>11, <1>12 DEF Safe, NoLostAck, AtTheTip

\* Recovery finds the newest root set the files hold.
LEMMA RecoveredIsTip ==
    ASSUME IInv, Openable
    PROVE  /\ Recovered \in Kept /\ LogKnows(Recovered)
           /\ \A s \in Kept : s.gen <= Recovered.gen
<1> USE DEF IInv
<1>1. wal \in Seq(Entry) /\ floor \in RootSet
  BY DEF TypeOK
<1>2. Checkpoint \in RootSet /\ Recovered \in RootSet /\ NewestSlot \in {0, 1}
  BY RecoveredType
<1>3. Readable(Checkpoint) /\ \A k \in {0, 1} : slots[k].gen <= Checkpoint.gen
  <2>1. slots[0] \in RootSet /\ slots[1] \in RootSet
    BY DEF TypeOK, Slots
  <2>2. slots[0].gen \in Nat /\ slots[1].gen \in Nat
    BY <2>1 DEF RootSet
  <2>3. Readable(slots[0]) \/ Readable(slots[1])
    BY DEF Openable, SlotsAgree
  <2> QED BY <2>2, <2>3 DEF Checkpoint, NewestSlot, Readable
<1>5. \A i \in 1 .. Len(wal) : wal[i].st \in RootSet /\ wal[i].st \in Entries(wal)
  <2>1. \A i \in 1 .. Len(wal) : wal[i] \in Entry
    BY <1>1
  <2> QED BY <2>1 DEF Entry, Entries
<1>4. Checkpoint.gen <= Recovered.gen /\ Recovered.gen \in Nat
  <2>1. Checkpoint.gen \in Nat /\ Recovered.gen \in Nat
    BY <1>2 DEF RootSet
  <2>2. ASSUME wal # <<>> PROVE wal[Len(wal)].st.gen \in Nat
    <3>1. Len(wal) \in 1 .. Len(wal)
      BY <1>1, <2>2
    <3> QED BY <1>5, <3>1 DEF RootSet
  <2> QED BY <2>1, <2>2 DEF Recovered
<1>6. \A s \in Entries(wal) : s.gen <= Recovered.gen
  <2> SUFFICES ASSUME NEW i \in 1 .. Len(wal) PROVE wal[i].st.gen <= Recovered.gen
    BY DEF Entries
  <2> DEFINE n == Len(wal)
  <2>1. n \in Nat /\ n \in 1 .. n /\ wal # <<>>
    BY <1>1
  <2>2. /\ wal[i].st.gen = wal[1].st.gen + i - 1
        /\ wal[n].st.gen = wal[1].st.gen + n - 1
    BY <2>1 DEF Openable, LogChains
  <2>3. 1 \in 1 .. n /\ wal[1].st.gen \in Nat
    BY <1>5, <2>1 DEF RootSet
  <2>4. wal[i].st.gen <= wal[n].st.gen
    BY <2>1, <2>2, <2>3
  <2>5. wal[n].st.gen <= Recovered.gen
    BY <1>2, <1>4, <1>5, <2>1 DEF Recovered, RootSet
  <2>6. wal[i].st.gen \in Nat /\ wal[n].st.gen \in Nat
    BY <1>5, <2>1 DEF RootSet
  <2> QED BY <1>4, <2>4, <2>5, <2>6
<1>7. floor.gen <= Recovered.gen
  BY <1>1, <1>2, <1>4 DEF Openable, FloorAllows, RootSet
<1>8. \A s : LogKnows(s) /\ s.gen \in Nat => s.gen <= Recovered.gen
  <2>1. \A t \in {floor} \cup Entries(wal) : t.gen \in Nat /\ t.gen <= Recovered.gen
    BY <1>1, <1>6, <1>7, EntriesType DEF RootSet
  <2> QED BY <1>4, <2>1 DEF LogKnows
<1>9. \A s \in Kept : s.gen <= Recovered.gen
  <2> TAKE s \in Kept
  <2>1. s \in RootSet /\ s.gen \in Nat
    BY KeptType DEF RootSet
  <2>2. CASE LogKnows(s)
    BY <1>8, <2>1, <2>2
  <2>3. CASE s \in {slots[0], slots[1]}
    BY <1>2, <1>3, <1>4, <2>1, <2>3 DEF RootSet
  <2>4. CASE s \in {floor} \cup Entries(wal)
    BY <1>6, <1>7, <2>4
  <2>5. LogKnows(s) \/ s \in {slots[0], slots[1]} \/ s \in {floor} \cup Entries(wal)
    BY DEF Kept, CacheKnows
  <2> QED BY <2>2, <2>3, <2>4, <2>5
<1>10. Recovered \in Kept
  <2>1. Checkpoint \in Kept
    BY <1>2, <1>3 DEF Kept, Checkpoint
  <2>2. ASSUME wal # <<>> PROVE wal[Len(wal)].st \in Kept
    <3>1. Len(wal) \in 1 .. Len(wal)
      BY <1>1, <2>2
    <3> QED BY <1>5, <3>1 DEF Kept
  <2> QED BY <2>1, <2>2 DEF Recovered
<1>11. LogKnows(Recovered)
  <2>1. CASE wal # <<>> /\ wal[Len(wal)].st.gen > Checkpoint.gen
    <3>1. Len(wal) \in 1 .. Len(wal)
      BY <1>1, <2>1
    <3>2. Recovered \in Entries(wal)
      BY <1>5, <2>1, <3>1 DEF Recovered
    <3> QED BY <1>4, <3>2 DEF LogKnows
  <2>2. CASE ~(wal # <<>> /\ wal[Len(wal)].st.gen > Checkpoint.gen)
    <3>1. Recovered = Checkpoint
      BY <2>2 DEF Recovered
    <3>2. \E t \in {floor} \cup Entries(wal) : t.gen = Checkpoint.gen
      BY <1>5 DEF Openable, LogChains
    <3> QED BY <1>2, <3>1, <3>2 DEF LogKnows, RootSet
  <2> QED BY <2>1, <2>2
<1> QED BY <1>9, <1>10, <1>11

\* Where Proceed goes, and what Recover and Retire leave behind.
LEMMA ProceedSafe ==
    ASSUME NEW s \in RootSet, nextId \in Nat, Proceed(s)
    PROVE  \/ pc' = "slot"
           \/ pc' = "flushData" /\ candidate'.gen = s.gen + 1 /\ candidate'.hist = s.hist
BY DiscardedType DEF Proceed

LEMMA RecoverSafe == ASSUME IInv, TypeOK', Recover PROVE Safe'
<1> USE DEF IInv
<1>1. /\ pc = "down" /\ Openable /\ state' = Recovered
      /\ UNCHANGED <<slots, floor, wal, dSlots, dFloor, dWal, acked>>
  BY DEF Recover, dsk
<1>2. Recovered \in RootSet /\ state' \in RootSet /\ nextId \in Nat
  BY <1>1, RecoveredType DEF TypeOK
<1>3. \/ pc' \in {"retire", "slot"}
      \/ pc' = "flushData" /\ candidate'.gen = state'.gen + 1 /\ candidate'.hist = state'.hist
  BY <1>1, <1>2, ProceedSafe DEF Recover
<1>4. Tip' = Recovered /\ Running'
  BY <1>1, <1>3 DEF Tip, Running
<1>5. Kept' = Kept
  BY <1>1 DEF Kept, Entries
<1>6. \A s \in Kept : Extends(Recovered, s)
  BY <1>1, RecoveredIsTip DEF OneHistory
<1>7. OneHistory' /\ AtTheTip'
  BY <1>4, <1>5, <1>6, HistoryShrinks DEF AtTheTip, Extends
<1>8. NoLostAck'
  <2>1. acked \in Kept
    BY DEF Kept
  <2> QED BY <1>1, <1>6, <2>1 DEF NoLostAck, Extends
<1>9. CacheKnows'
  <2>1. LogKnows(Recovered)
    BY <1>1, RecoveredIsTip
  <2>2. CacheKnows
    OBVIOUS
  <2> QED BY <1>1, <2>1, <2>2 DEF CacheKnows, LogKnows, Entries
<1>10. AckedDurable'
  BY <1>1 DEF AckedDurable, Begins, Entries
<1>11. Stages'
  BY <1>3 DEF Stages
<1> QED BY <1>7, <1>8, <1>9, <1>10, <1>11 DEF Safe

LEMMA RetireSafe == ASSUME IInv, TypeOK', Retire PROVE Safe'
<1> USE DEF IInv
<1>1. /\ pc = "retire" /\ Running /\ Tip = state /\ WalFlushed
      /\ UNCHANGED <<slots, dSlots, floor, wal, acked, state>>
  BY DEF Retire, Running, Tip, mem
<1>2. \/ pc' = "slot"
      \/ pc' = "flushData" /\ candidate'.gen = state'.gen + 1 /\ candidate'.hist = state'.hist
  <2>1. state \in RootSet /\ nextId \in Nat
    BY DEF TypeOK
  <2> QED BY <1>1, <2>1, ProceedSafe DEF Retire
<1>3. Tip' = state
  BY <1>1, <1>2 DEF Tip
<1>4. Kept' \subseteq Kept /\ AckedDurable'
  BY <1>1, FlushStep
<1>5. NoLostAck' /\ OneHistory' /\ AtTheTip'
  BY <1>1, <1>2, <1>3, <1>4, RunningStep
<1>6. CacheKnows'
  <2>1. state \in ({floor} \cup Entries(wal))'
    BY <1>1, TipKept DEF Entries
  <2>2. state \in Kept /\ \A s \in Kept : s.gen <= state.gen
    BY <1>1, TipKept DEF Kept
  <2> QED BY <1>1, <1>4, <2>1, <2>2, CacheStep
<1>7. Stages'
  BY <1>2 DEF Stages
<1> QED BY <1>4, <1>5, <1>6, <1>7 DEF Safe

\* Steps that touch no log, slot or floor.
LEMMA PrepareSafe ==
    ASSUME IInv, TypeOK', Prepare \/ Abandon \/ FlushData \/ AppendBegin
    PROVE  Safe'
<1>1. /\ pc \in {"idle", "flushData", "append"} /\ pc' \in {"idle", "flushData", "append", "appending"}
      /\ UNCHANGED <<files, acked, state>>
  BY DEF Prepare, Abandon, FlushData, AppendBegin, files, mem, dsk
<1>2. NoLostAck' /\ OneHistory' /\ AtTheTip' /\ CacheKnows' /\ AckedDurable'
  BY <1>1, QuietStep DEF Down, Running
<1>3. Stages'
  <2>1. CASE Prepare
    <3>1. /\ pc' = "flushData" /\ state' = state
          /\ candidate'.gen = state.gen + 1 /\ candidate'.hist = state.hist \cup {nextId}
      BY <2>1 DEF Prepare
    <3> QED BY <3>1 DEF Stages
  <2>2. CASE Abandon \/ FlushData \/ AppendBegin
    <3>1. candidate' = candidate /\ state' = state
      BY <2>2 DEF Abandon, FlushData, AppendBegin
    <3>2. \/ pc' = "idle"
          \/ pc = "flushData" /\ pc' = "append"
          \/ pc = "append" /\ pc' = "appending"
      BY <2>2 DEF Abandon, FlushData, AppendBegin
    <3> QED BY <3>1, <3>2 DEF IInv, Stages
  <2> QED BY <2>1, <2>2
<1> QED BY <1>2, <1>3 DEF Safe

LEMMA OutsideSafe ==
    ASSUME IInv, TypeOK', Pin \/ Release \/ IoFail \/ UNCHANGED vars
    PROVE  Safe'
<1>1. /\ UNCHANGED <<files, acked, state, candidate, dWal, wal, floor, dFloor>>
      /\ \/ pc' = pc
         \/ pc \in Writing /\ pc' = "failed"
  BY DEF Pin, Release, IoFail, vars, run, mem, dsk, files
<1>2. ~Down' => ~Down
  BY <1>1 DEF Down, Writing
<1>3. NoLostAck' /\ OneHistory' /\ AtTheTip' /\ CacheKnows' /\ AckedDurable'
  BY <1>1, <1>2, QuietStep DEF Running
<1>4. Stages'
  BY <1>1 DEF IInv, Stages, Entries
<1> QED BY <1>3, <1>4 DEF Safe

LEMMA EndSafe == ASSUME IInv, TypeOK', Kill \/ Exit \/ Refuse PROVE Safe'
<1>1. UNCHANGED <<files, acked>> /\ pc' \in {"down", "closed"}
  BY DEF Kill, Exit, Refuse, Forget, mem, dsk, files
<1> QED BY <1>1, EndingStep DEF Safe

LEMMA InitIInv == Init => IInv
<1> SUFFICES ASSUME Init PROVE IInv
  OBVIOUS
<1>1. TypeOK
  BY InitType
<1>2. /\ pc = "slot" /\ state = Genesis /\ acked = Genesis /\ floor = Genesis /\ dFloor = Genesis
      /\ wal = <<>> /\ dWal = <<>> /\ dSlots = slots
      /\ \A k \in {0, 1} : slots[k] = Genesis
  BY DEF Init
<1>3. Kept = {Genesis}
  BY <1>2, EntriesOfNothing DEF Kept, Readable, Genesis
<1>4. Extends(Genesis, Genesis) /\ Genesis.gen <= Genesis.gen
  BY GenesisType, ExtendsSelf DEF RootSet
<1>5. NoLostAck /\ OneHistory /\ AtTheTip
  BY <1>2, <1>3, <1>4 DEF NoLostAck, OneHistory, AtTheTip, Tip
<1>6. CacheKnows
  BY <1>2, <1>4, EntriesOfNothing DEF CacheKnows, LogKnows
<1>7. AckedDurable /\ Stages
  BY <1>2, <1>4 DEF AckedDurable, Stages
<1> QED BY <1>1, <1>5, <1>6, <1>7 DEF IInv

LEMMA StepIInv == IInv /\ [Next]_vars => IInv'
<1> SUFFICES ASSUME IInv, [Next]_vars PROVE IInv'
  OBVIOUS
<1>1. TypeOK'
  BY StepType DEF IInv
<1>2. Safe'
  <2>1. CASE Prepare \/ Abandon \/ FlushData \/ AppendBegin
    BY <1>1, <2>1, PrepareSafe
  <2>2. CASE AppendEnd
    BY <1>1, <2>2, AppendSafe
  <2>3. CASE FlushWal
    BY <1>1, <2>3, FlushWalSafe
  <2>4. CASE Publish
    BY <1>1, <2>4, PublishSafe
  <2>5. CASE SlotBegin \/ SlotEnd \/ FlushSlot
    BY <1>1, <2>5, SlotSafe
  <2>6. CASE WriteFloor
    BY <1>1, <2>6, WriteFloorSafe
  <2>7. CASE FlushFloor \/ FlushTruncate
    BY <1>1, <2>7, FlushFloorSafe
  <2>8. CASE Truncate
    BY <1>1, <2>8, TruncateSafe
  <2>9. CASE Mark
    BY <1>1, <2>9, MarkSafe
  <2>10. CASE Kill \/ Exit \/ Refuse
    BY <1>1, <2>10, EndSafe
  <2>11. CASE PowerLoss
    BY <1>1, <2>11, PowerLossSafe
  <2>12. CASE Rot
    BY <1>1, <2>12, RotSafe
  <2>13. CASE Recover
    BY <1>1, <2>13, RecoverSafe
  <2>14. CASE Retire
    BY <1>1, <2>14, RetireSafe
  <2>15. CASE Pin \/ Release \/ IoFail \/ UNCHANGED vars
    BY <1>1, <2>15, OutsideSafe
  <2> QED
    BY <2>1, <2>2, <2>3, <2>4, <2>5, <2>6, <2>7, <2>8, <2>9, <2>10, <2>11, <2>12, <2>13,
       <2>14, <2>15
    DEF Next, Work, Commit, TakeCheckpoint, Reopen, Environment
<1> QED BY <1>1, <1>2 DEF IInv, Safe

\* The invariant that ties the cache, the disk and the process to one history.
THEOREM JournalInvariant == Spec => []IInv
<1> QED BY InitIInv, StepIInv, PTL DEF Spec

\* Whatever process deaths, power losses, failed writes and one-slot damage came
\* before, a process that opened the store stands on every acknowledged transaction.
THEOREM AckedNeverLost == Spec => []NoLostAck
<1>1. IInv => NoLostAck
  BY DEF IInv
<1> QED BY <1>1, JournalInvariant, PTL

-----------------------------------------------------------------------------
(* What a store in service may hold of earlier processes, what readers see, and   *)
(* that the journal implements UdbDurable.                                        *)

Committing == {"flushData", "append", "appending", "flushWal"}

\* A process starts up until its first inventory, and nobody sees what it has before.
Starting ==
    /\ Down => boot
    /\ pc = "retire" => boot
    /\ pc = "publish" => ~boot

Owned(s) == s.stages \in {0, inc}

\* Before anything is served, the stages of the dead are gone.
OwnStages ==
    /\ pc \in Committing => Owned(candidate)
    /\ Running /\ pc # "retire" /\ ~(boot /\ pc \in Committing) => Owned(state)
    /\ Serving => Owned(acked)

Intact(s) == s.ext # NoExt => data[s.ext] = s.ver /\ s.ext \notin free

\* What somebody may read, or a crash may come back to, is not free to be written over.
LiveExtents ==
    /\ \A p \in pins : Intact(p)
    /\ Running => Intact(state)
    /\ pc \in Committing => Intact(candidate)
    /\ Serving => Intact(acked)
    /\ boot => pins = {} /\ free = {}

\* All that was served, and at most one transaction more.
OneMoreThan(h) == \E t : h \subseteq acked.hist \cup {t}

InDoubt(s) == OneMoreThan(s.hist) /\ \A t \in s.hist : t < nextId

JustOneMore(s) == \E t : t \notin acked.hist /\ s.hist = acked.hist \cup {t}

\* At any time the outcome of a single transaction is in doubt.
OneInDoubt ==
    /\ \A s \in Kept : InDoubt(s)
    /\ Running => InDoubt(state)
    /\ pc \in Committing => InDoubt(candidate)
    /\ Running /\ ~boot =>
          IF pc = "publish" THEN JustOneMore(state) ELSE state.hist = acked.hist
    /\ pc \in Committing /\ ~boot => JustOneMore(candidate)

Service == Starting /\ OwnStages /\ LiveExtents /\ OneInDoubt

SInv == IInv /\ Service

-----------------------------------------------------------------------------
(* What a step leaves in the files.                                           *)

\* Only a commit and a checkpoint bring something into the files, and what they bring is
\* the root set they work on.
LEMMA KeptStep ==
    ASSUME IInv, TypeOK', [Next]_vars
    PROVE  Kept' \subseteq Kept \cup (IF Running THEN {state} ELSE {})
                                \cup (IF pc = "appending" THEN {candidate} ELSE {})
<1> DEFINE Grown == Kept \cup (IF Running THEN {state} ELSE {})
                         \cup (IF pc = "appending" THEN {candidate} ELSE {})
<1> SUFFICES Kept' \subseteq Grown
  OBVIOUS
<1> USE DEF IInv
<1>1. CASE \/ Prepare \/ Abandon \/ FlushData \/ AppendBegin \/ Pin \/ Release \/ Kill
           \/ IoFail \/ Exit \/ Refuse \/ Recover \/ UNCHANGED vars
  <2>1. UNCHANGED <<slots, dSlots, floor, dFloor, wal, dWal, acked>>
    BY <1>1 DEF Prepare, Abandon, FlushData, AppendBegin, Pin, Release, Kill, IoFail, Exit,
       Refuse, Recover, vars, run, mem, dsk
  <2> QED BY <2>1 DEF Kept, Entries
<1>2. CASE AppendEnd
  <2>1. EntryFor(candidate, state.id) \in Entry /\ EntryFor(candidate, state.id).st = candidate
    BY DEF EntryFor, Entry, TypeOK, RootSet
  <2>2. Entries(wal') = Entries(wal) \cup {candidate}
    BY <1>2, <2>1, EntriesAppend DEF AppendEnd, TypeOK
  <2>3. UNCHANGED <<slots, dSlots, floor, dFloor, dWal, acked>> /\ pc = "appending"
    BY <1>2 DEF AppendEnd, dsk
  <2> QED BY <2>2, <2>3 DEF Kept, Entries
<1>3. CASE FlushWal \/ FlushFloor \/ FlushTruncate \/ Retire
  <2>1. /\ UNCHANGED <<slots, dSlots, floor, wal, acked>>
        /\ dFloor' = floor /\ dWal' = wal
    BY <1>3 DEF FlushWal, FlushFloor, FlushTruncate, Retire, WalFlushed, mem
  <2> QED BY <2>1 DEF Kept, Entries
<1>4. CASE Publish \/ Mark
  <2>1. UNCHANGED <<slots, dSlots, floor, dFloor, wal, dWal>> /\ acked' = state /\ Running
    BY <1>4 DEF Publish, Mark, mem, dsk, Running
  <2> QED BY <2>1 DEF Kept, Entries
<1>5. CASE SlotBegin \/ SlotEnd \/ FlushSlot
  <2>1. Inactive \in {0, 1} /\ slots \in Slots /\ dSlots \in Slots
    BY DEF Inactive, TypeOK
  <2>2. /\ \A k \in {0, 1} : /\ slots'[k] \in {slots[k], Torn, state}
                             /\ dSlots'[k] \in {dSlots[k], slots[k]}
        /\ UNCHANGED <<floor, dFloor, wal, dWal, acked>> /\ Running
    BY <1>5, <2>1 DEF SlotBegin, SlotEnd, FlushSlot, mem, dsk, Slots, Running
  <2>3. ~Readable(Torn)
    BY DEF Readable, Torn, Genesis
  <2> QED BY <2>2, <2>3 DEF Kept, Entries
<1>6. CASE WriteFloor
  <2>1. UNCHANGED <<slots, dSlots, dFloor, wal, dWal, acked>> /\ floor' = state /\ Running
    BY <1>6 DEF WriteFloor, dsk, Running
  <2> QED BY <2>1 DEF Kept, Entries
<1>7. CASE Truncate
  <2>1. UNCHANGED <<slots, dSlots, floor, dFloor, dWal, acked>> /\ wal' = <<>>
    BY <1>7 DEF Truncate, dsk
  <2> QED BY <2>1, EntriesOfNothing DEF Kept, Entries
<1>8. CASE PowerLoss
  BY <1>8, PowerLossKept
<1>9. CASE Rot
  <2>1. PICK j \in {0, 1} : /\ slots' = [slots EXCEPT ![j] = Torn]
                            /\ dSlots' = [dSlots EXCEPT ![j] = Torn]
    BY <1>9 DEF Rot
  <2>2. UNCHANGED <<floor, dFloor, wal, dWal, acked>>
    BY <1>9 DEF Rot
  <2>3. \A k \in {0, 1} : slots'[k] \in {slots[k], Torn} /\ dSlots'[k] \in {dSlots[k], Torn}
    BY <2>1 DEF TypeOK, Slots
  <2>4. ~Readable(Torn)
    BY DEF Readable, Torn, Genesis
  <2> QED BY <2>2, <2>3, <2>4 DEF Kept, Entries
<1> QED
  BY <1>1, <1>2, <1>3, <1>4, <1>5, <1>6, <1>7, <1>8, <1>9
  DEF Next, Work, Commit, TakeCheckpoint, Reopen, Environment

\* Where a process that opened the store goes from the root set s it found.
LEMMA ProceedGoes ==
    ASSUME NEW s, s.stages \in Nat, Proceed(s)
    PROVE  /\ pc' \in {"flushData", "slot"}
           /\ candidate'.hist = s.hist /\ candidate'.ext = s.ext /\ candidate'.ver = s.ver
           /\ candidate'.stages = 0
           /\ pc' = "slot" => s.stages = 0
           /\ nextId' \in {nextId, nextId + 1}
BY DEF Proceed, Discarded

-----------------------------------------------------------------------------
(* Starting and stages.                                                       *)

LEMMA StartingStep == ASSUME Starting, [Next]_vars PROVE Starting'
<1> USE DEF Starting, Down
<1>1. CASE Prepare \/ Abandon \/ FlushData \/ AppendBegin \/ AppendEnd \/ FlushWal \/ Publish
  BY <1>1 DEF Prepare, Abandon, FlushData, AppendBegin, AppendEnd, FlushWal, Publish
<1>2. CASE TakeCheckpoint
  BY <1>2 DEF TakeCheckpoint, SlotBegin, SlotEnd, FlushSlot, WriteFloor, FlushFloor, Truncate,
     FlushTruncate, Mark
<1>3. CASE Recover \/ Retire
  BY <1>3 DEF Recover, Retire, Proceed
<1>4. CASE Refuse \/ Exit \/ Kill \/ PowerLoss
  BY <1>4 DEF Refuse, Exit, Kill, PowerLoss, Forget
<1>5. CASE Pin \/ Release \/ IoFail \/ Rot \/ UNCHANGED vars
  BY <1>5 DEF Pin, Release, IoFail, Rot, vars, run
<1> QED BY <1>1, <1>2, <1>3, <1>4, <1>5 DEF Next, Work, Commit, Reopen, Environment

LEMMA OwnStagesStep == ASSUME SInv, [Next]_vars PROVE OwnStages'
<1> USE DEF SInv, Service, Owned
<1>1. CASE Prepare
  <2>1. /\ pc = "idle" /\ pc' = "flushData" /\ candidate'.stages \in {state.stages, inc, 0}
        /\ UNCHANGED <<boot, state, acked, inc>>
    BY <1>1 DEF Prepare
  <2> QED BY <2>1 DEF OwnStages, Committing, Running, Serving
<1>2. CASE Abandon
  <2>1. /\ pc = "flushData" /\ ~boot /\ pc' = "idle" /\ UNCHANGED <<boot, state, acked, inc>>
    BY <1>2 DEF Abandon
  <2> QED BY <2>1 DEF OwnStages, Committing, Running, Serving
<1>3. CASE FlushData \/ AppendBegin \/ AppendEnd
  <2>1. /\ pc \in Committing /\ pc' \in Committing
        /\ UNCHANGED <<boot, state, candidate, acked, inc>>
    BY <1>3 DEF FlushData, AppendBegin, AppendEnd, Committing
  <2> QED BY <2>1 DEF OwnStages, Committing, Running, Serving
<1>4. CASE FlushWal
  <2>1. /\ pc = "flushWal" /\ state' = candidate /\ pc' \in {"slot", "publish"}
        /\ UNCHANGED <<boot, acked, inc>>
    BY <1>4 DEF FlushWal
  <2> QED BY <2>1 DEF OwnStages, Committing, Running, Serving
<1>5. CASE Publish \/ Mark
  <2>1. /\ pc \in {"publish", "mark"} /\ acked' = state /\ pc' \in {"slot", "idle"}
        /\ UNCHANGED <<state, inc>>
    BY <1>5 DEF Publish, Mark
  <2> QED BY <2>1 DEF OwnStages, Committing, Running, Serving
<1>6. CASE SlotBegin \/ SlotEnd \/ FlushSlot \/ WriteFloor \/ FlushFloor \/ Truncate \/ FlushTruncate
  <2> DEFINE Checkpointing == {"slot", "slotWriting", "flushSlot", "floor", "flushFloor",
                               "truncate", "flushTruncate", "mark"}
  <2>1. /\ pc \in Checkpointing /\ pc' \in Checkpointing
        /\ UNCHANGED <<boot, state, candidate, acked, inc>>
    BY <1>6 DEF SlotBegin, SlotEnd, FlushSlot, WriteFloor, FlushFloor, Truncate, FlushTruncate
  <2> QED BY <2>1 DEF OwnStages, Committing, Running, Serving
<1>7. CASE Recover
  <2>1. /\ pc = "down" /\ boot /\ boot' /\ state' = Recovered
    BY <1>7 DEF Recover, Starting, Down
  <2>2. Recovered.stages \in Nat
    BY RecoveredType DEF IInv, RootSet
  <2>3. \/ pc' = "retire"
        \/ pc' = "slot" /\ Recovered.stages = 0
        \/ pc' = "flushData" /\ candidate'.stages = 0
    BY <1>7, <2>2, ProceedGoes DEF Recover
  <2> QED BY <2>1, <2>3 DEF OwnStages, Committing, Running, Serving
<1>8. CASE Retire
  <2>1. /\ pc = "retire" /\ boot /\ boot' /\ state' = state
    BY <1>8 DEF Retire, Starting
  <2>2. state.stages \in Nat
    BY DEF IInv, TypeOK, RootSet
  <2>3. \/ pc' = "slot" /\ state.stages = 0
        \/ pc' = "flushData" /\ candidate'.stages = 0
    BY <1>8, <2>2, ProceedGoes DEF Retire
  <2> QED BY <2>1, <2>3 DEF OwnStages, Committing, Running, Serving
<1>9. CASE Kill \/ Exit \/ PowerLoss \/ Refuse \/ IoFail \/ Rot
  <2>1. pc' \in {"down", "closed", "failed"}
    BY <1>9 DEF Kill, Exit, PowerLoss, Refuse, IoFail, Rot, Forget, run
  <2> QED BY <2>1 DEF OwnStages, Committing, Running, Serving
<1>10. CASE Pin \/ Release \/ UNCHANGED vars
  <2>1. UNCHANGED <<pc, boot, state, candidate, acked, inc>>
    BY <1>10 DEF Pin, Release, vars, run
  <2> QED BY <2>1 DEF OwnStages, Committing, Running, Serving
<1> QED
  BY <1>1, <1>2, <1>3, <1>4, <1>5, <1>6, <1>7, <1>8, <1>9, <1>10
  DEF Next, Work, Commit, TakeCheckpoint, Reopen, Environment

-----------------------------------------------------------------------------
(* Extents.                                                                   *)

\* What is not free is not written over by the step that writes an extent.
LEMMA WriteKeepsIntact ==
    ASSUME NEW s, Intact(s), NEW e \in free, NEW v, data \in [Extents -> Nat], free \subseteq Extents,
           s.ext \in Extents \cup {NoExt},
           data' = [data EXCEPT ![e] = v], free' = free \ {e}
    PROVE  s.ext # NoExt => data'[s.ext] = s.ver /\ s.ext \notin free'
BY DEF Intact

LEMMA LiveExtentsStep == ASSUME SInv, TypeOK', [Next]_vars PROVE LiveExtents'
<1> USE DEF SInv, Service
<1> DEFINE Still(s) == s.ext # NoExt => data'[s.ext] = s.ver /\ s.ext \notin free'
<1>0. ASSUME UNCHANGED <<data, free>>, NEW s, Intact(s) PROVE Still(s)
  BY <1>0 DEF Intact
<1>1. CASE Prepare
  <2>0. PICK e \in free, k \in {state.stages, inc, 0} :
          /\ candidate' = [gen |-> state.gen + 1, id |-> nextId,
                           hist |-> state.hist \cup {nextId},
                           ext |-> e, ver |-> nextId, stages |-> k]
          /\ data' = [data EXCEPT ![e] = nextId]
          /\ free' = free \ {e}
    BY <1>1 DEF Prepare
  <2>1. /\ candidate'.ext = e /\ candidate'.ver = nextId
        /\ data' = [data EXCEPT ![e] = nextId]
        /\ free' = free \ {e}
    BY <2>0
  <2>2. /\ pc = "idle" /\ pc' = "flushData" /\ UNCHANGED <<boot, state, pins, acked>>
    BY <1>1 DEF Prepare
  <2>3. data \in [Extents -> Nat] /\ free \subseteq Extents /\ pins \subseteq RootSet
        /\ state \in RootSet /\ acked \in RootSet
    BY DEF IInv, TypeOK
  <2>4. ASSUME NEW s \in RootSet, Intact(s) PROVE Still(s)
    BY <2>1, <2>3, <2>4, WriteKeepsIntact DEF RootSet
  <2>5. Still(candidate')
    BY <2>1, <2>3
  <2>6. ~boot
    BY <2>1 DEF LiveExtents
  <2>7. Intact(state) /\ Intact(acked) /\ \A p \in pins : Intact(p)
    BY <2>2, <2>6 DEF LiveExtents, Running, Serving
  <2>8. Still(state) /\ Still(acked) /\ \A p \in pins : Still(p)
    BY <2>3, <2>4, <2>7
  <2> QED BY <2>2, <2>5, <2>6, <2>8 DEF LiveExtents, Intact
<1>2. CASE Abandon \/ FlushData \/ AppendBegin \/ AppendEnd
  <2>1. /\ UNCHANGED <<boot, state, candidate, free, pins, acked, data>>
        /\ pc \in Committing /\ pc' \in Committing \cup {"idle"}
    BY <1>2 DEF Abandon, FlushData, AppendBegin, AppendEnd, mem, Committing
  <2> QED BY <2>1 DEF LiveExtents, Intact, Committing, Running, Serving
<1>3. CASE FlushWal
  <2>1. /\ UNCHANGED <<boot, free, pins, acked, data>>
        /\ state' = candidate /\ pc = "flushWal" /\ pc' \in {"slot", "publish"}
    BY <1>3 DEF FlushWal, mem
  <2> QED BY <2>1 DEF LiveExtents, Intact, Committing, Running, Serving
<1>4. CASE Publish
  <2>1. /\ UNCHANGED <<boot, state, free, pins, data>>
        /\ acked' = state /\ pc = "publish" /\ pc' \in {"slot", "idle"}
    BY <1>4 DEF Publish, mem
  <2> QED BY <2>1 DEF LiveExtents, Intact, Committing, Running, Serving
<1>5. CASE SlotBegin \/ SlotEnd \/ FlushSlot \/ WriteFloor \/ FlushFloor \/ Truncate \/ FlushTruncate
  <2> DEFINE Checkpointing == {"slot", "slotWriting", "flushSlot", "floor", "flushFloor",
                               "truncate", "flushTruncate", "mark"}
  <2>1. /\ pc \in Checkpointing /\ pc' \in Checkpointing
        /\ UNCHANGED <<boot, state, free, pins, acked, data>>
    BY <1>5 DEF SlotBegin, SlotEnd, FlushSlot, WriteFloor, FlushFloor, Truncate, FlushTruncate,
       mem
  <2> QED BY <2>1 DEF LiveExtents, Intact, Committing, Running, Serving
<1>6. CASE Mark
  <2>1. /\ UNCHANGED <<state, pins, data>> /\ pc = "mark" /\ pc' = "idle" /\ ~boot'
        /\ acked' = state /\ free' = Extents \ ({state.ext} \cup {p.ext : p \in pins})
    BY <1>6 DEF Mark, mem
  <2>2. Still(state) /\ \A p \in pins : Still(p)
    BY <2>1 DEF LiveExtents, Intact, Running
  <2> QED BY <2>1, <2>2 DEF LiveExtents, Intact, Committing
<1>7. CASE Recover
  <2>1. /\ pc = "down" /\ boot /\ boot' /\ state' = Recovered /\ RootValid(Recovered)
        /\ UNCHANGED <<free, pins, data>>
    BY <1>7 DEF Recover, Starting, Down, Openable
  <2>2. free = {} /\ pins = {}
    BY <2>1 DEF LiveExtents
  <2>3. Still(Recovered)
    BY <2>1, <2>2 DEF RootValid
  <2>4. Recovered.stages \in Nat
    BY RecoveredType DEF IInv, RootSet
  <2>5. /\ pc' \in {"retire", "flushData", "slot"}
        /\ candidate'.ext = Recovered.ext /\ candidate'.ver = Recovered.ver
    BY <1>7, <2>4, ProceedGoes DEF Recover
  <2> QED BY <2>1, <2>2, <2>3, <2>5 DEF LiveExtents, Intact, Serving
<1>8. CASE Retire
  <2>1. /\ pc = "retire" /\ boot /\ UNCHANGED <<boot, state, free, pins, data>>
    BY <1>8 DEF Retire, Starting, mem
  <2>2. state.stages \in Nat
    BY DEF IInv, TypeOK, RootSet
  <2>3. /\ pc' \in {"flushData", "slot"}
        /\ candidate'.ext = state.ext /\ candidate'.ver = state.ver
    BY <1>8, <2>2, ProceedGoes DEF Retire
  <2> QED BY <2>1, <2>3 DEF LiveExtents, Intact, Serving, Running
<1>9. CASE Kill \/ Exit \/ PowerLoss
  <2>1. boot' /\ free' = {} /\ pins' = {} /\ pc' = "down"
    BY <1>9 DEF Kill, Exit, PowerLoss, Forget
  <2> QED BY <2>1 DEF LiveExtents, Running, Serving, Committing
<1>10. CASE Refuse \/ IoFail \/ Rot
  <2>1. UNCHANGED <<boot, free, pins, data>> /\ pc' \in {"closed", "failed", "down"}
    BY <1>10 DEF Refuse, IoFail, Rot, run, mem
  <2> QED BY <2>1 DEF LiveExtents, Intact, Running, Serving, Committing
<1>11. CASE Pin \/ Release \/ UNCHANGED vars
  <2>1. /\ UNCHANGED <<pc, boot, state, candidate, free, acked, data>>
        /\ pins' \subseteq pins \cup {acked} /\ (pins' \subseteq pins \/ Serving)
        /\ boot => pins' \subseteq pins
    BY <1>11 DEF Pin, Release, vars, run, mem, Serving
  <2> QED BY <2>1 DEF LiveExtents, Intact, Committing, Running, Serving
<1> QED
  BY <1>1, <1>2, <1>3, <1>4, <1>5, <1>6, <1>7, <1>8, <1>9, <1>10, <1>11
  DEF Next, Work, Commit, TakeCheckpoint, Reopen, Environment

-----------------------------------------------------------------------------
(* The transaction in doubt.                                                  *)

\* A step that shows nobody anything new leaves the doubt where it was.
LEMMA DoubtStays ==
    ASSUME SInv, acked' = acked, nextId' \in {nextId, nextId + 1}, NEW s \in RootSet, InDoubt(s)
    PROVE  (\E t : s.hist \subseteq acked'.hist \cup {t}) /\ \A t \in s.hist : t < nextId'
<1>1. s.hist \subseteq Nat /\ nextId \in Nat
  BY DEF SInv, IInv, TypeOK, RootSet
<1>2. \E t : s.hist \subseteq acked'.hist \cup {t}
  BY DEF InDoubt, OneMoreThan
<1>3. \A t \in s.hist : t < nextId'
  BY <1>1 DEF InDoubt
<1> QED BY <1>2, <1>3

LEMMA KeptInDoubt ==
    ASSUME SInv, TypeOK', [Next]_vars, acked' = acked, nextId' \in {nextId, nextId + 1}
    PROVE  (\A s \in Kept : InDoubt(s))'
<1>1. Kept' \subseteq Kept \cup (IF Running THEN {state} ELSE {})
                        \cup (IF pc = "appending" THEN {candidate} ELSE {})
  BY KeptStep DEF SInv
<1>2. Kept \subseteq RootSet /\ state \in RootSet /\ candidate \in RootSet
  BY KeptType DEF SInv, IInv, TypeOK
<1>3. \A s \in Kept' : InDoubt(s) /\ s \in RootSet
  BY <1>1, <1>2 DEF SInv, Service, OneInDoubt, Committing
<1>4. \A s \in Kept' : /\ \E t : s.hist \subseteq acked'.hist \cup {t}
                       /\ \A t \in s.hist : t < nextId'
  BY <1>3, DoubtStays
<1> QED BY <1>4 DEF InDoubt, OneMoreThan

\* A root set that contains all the files hold, once shown, leaves no doubt but about the next.
LEMMA ShownKept ==
    ASSUME SInv, TypeOK', Publish \/ Mark
    PROVE  (\A s \in Kept : InDoubt(s))' /\ InDoubt(state)'
<1> USE DEF SInv, Service
<1>1. /\ acked' = state /\ state' = state /\ nextId' = nextId /\ Running /\ Tip = state
  BY DEF Publish, Mark, Running, Tip
<1>2. [Next]_vars
  BY DEF Next, Work, Commit, TakeCheckpoint
<1>3. Kept' \subseteq Kept \cup {state}
  <2>1. pc # "appending"
    BY DEF Publish, Mark
  <2> QED BY <1>1, <1>2, <2>1, KeptStep
<1>4. \A s \in Kept : s.hist \subseteq state.hist
  BY <1>1 DEF IInv, AtTheTip, Extends
<1>5. \A s \in Kept \cup {state} : \A t \in s.hist : t < nextId
  BY <1>1 DEF OneInDoubt, InDoubt
<1> QED BY <1>1, <1>3, <1>4, <1>5 DEF InDoubt, OneMoreThan

LEMMA OneInDoubtStep == ASSUME SInv, TypeOK', [Next]_vars PROVE OneInDoubt'
<1> USE DEF SInv, Service
<1>0. /\ state \in RootSet /\ candidate \in RootSet /\ nextId \in Nat /\ state.hist \subseteq Nat
      /\ state.stages \in Nat
  BY DEF IInv, TypeOK, RootSet
<1>1. CASE Prepare
  <2>0. PICK e \in free, k \in {state.stages, inc, 0} :
          candidate' = [gen |-> state.gen + 1, id |-> nextId,
                           hist |-> state.hist \cup {nextId},
                           ext |-> e, ver |-> nextId, stages |-> k]
    BY <1>1 DEF Prepare
  <2>1. candidate'.hist = state.hist \cup {nextId}
    BY <2>0
  <2>2. /\ pc = "idle" /\ pc' = "flushData" /\ UNCHANGED <<boot, state, acked>>
        /\ nextId' = nextId + 1
    BY <1>1 DEF Prepare
  <2>3. ~boot
    BY <2>0 DEF LiveExtents
  <2>4. state.hist = acked.hist /\ InDoubt(state)
    BY <2>2, <2>3 DEF OneInDoubt, Running
  <2>5. nextId \notin acked.hist
    BY <1>0, <2>4 DEF InDoubt
  <2>6. (\A s \in Kept : InDoubt(s))'
    BY <2>2, KeptInDoubt
  <2>7. InDoubt(state)'
    BY <1>0, <2>2, <2>4, DoubtStays DEF InDoubt, OneMoreThan
  <2>8. InDoubt(candidate)'
    <3>1. \A t \in state.hist \cup {nextId} : t < nextId + 1
      BY <1>0, <2>4 DEF InDoubt
    <3> QED BY <2>1, <2>2, <2>4, <3>1 DEF InDoubt, OneMoreThan
  <2>9. JustOneMore(candidate)'
    BY <2>1, <2>2, <2>4, <2>5 DEF JustOneMore
  <2> QED BY <2>2, <2>4, <2>6, <2>7, <2>8, <2>9 DEF OneInDoubt
<1>2. ASSUME Publish \/ Mark PROVE OneInDoubt'
  <2>1. acked' = state /\ state' = state /\ pc' \in {"slot", "idle"}
    BY <1>2 DEF Publish, Mark
  <2>2. (\A s \in Kept : InDoubt(s))' /\ InDoubt(state)'
    BY <1>2, ShownKept
  <2> QED BY <2>1, <2>2 DEF OneInDoubt, Committing
<1>3. ASSUME acked' = acked, nextId' \in {nextId, nextId + 1},
             pc' \in {"down", "closed", "failed"}
      PROVE  OneInDoubt'
  BY <1>3, KeptInDoubt DEF OneInDoubt, Running, Committing
<1>4. CASE Kill \/ Exit \/ PowerLoss \/ Refuse \/ IoFail \/ Rot
  BY <1>3, <1>4 DEF Kill, Exit, PowerLoss, Refuse, IoFail, Rot, Forget, run
<1>5. CASE FlushWal
  <2>1. /\ pc = "flushWal" /\ state' = candidate /\ UNCHANGED <<boot, acked, nextId>>
        /\ pc' \in {"slot", "publish"} /\ (~boot => pc' = "publish")
    BY <1>5 DEF FlushWal
  <2>2. InDoubt(candidate) /\ (~boot => JustOneMore(candidate))
    BY <2>1 DEF OneInDoubt, Committing
  <2>3. (\A s \in Kept : InDoubt(s))'
    BY <2>1, KeptInDoubt
  <2>4. InDoubt(state)'
    BY <1>0, <2>1, <2>2, DoubtStays DEF InDoubt, OneMoreThan
  <2>5. ~boot => JustOneMore(state)'
    BY <2>1, <2>2 DEF JustOneMore
  <2> QED BY <2>1, <2>3, <2>4, <2>5 DEF OneInDoubt, Committing
<1>6. CASE Recover
  <2>1. /\ pc = "down" /\ Openable /\ boot /\ boot' /\ state' = Recovered /\ acked' = acked
    BY <1>6 DEF Recover, Starting, Down
  <2>2. Recovered \in RootSet /\ Recovered.stages \in Nat
    BY RecoveredType DEF IInv, RootSet
  <2>3. /\ nextId' \in {nextId, nextId + 1} /\ candidate'.hist = Recovered.hist
        /\ pc' \in {"retire", "flushData", "slot"}
    BY <1>6, <2>2, ProceedGoes DEF Recover
  <2>4. InDoubt(Recovered)
    BY <2>1, RecoveredIsTip DEF OneInDoubt
  <2>5. (\A s \in Kept : InDoubt(s))'
    BY <2>1, <2>3, KeptInDoubt
  <2>6. InDoubt(state)' /\ InDoubt(candidate)'
    BY <2>1, <2>2, <2>3, <2>4, DoubtStays DEF InDoubt, OneMoreThan
  <2> QED BY <2>1, <2>5, <2>6 DEF OneInDoubt
<1>7. CASE Retire
  <2>1. /\ pc = "retire" /\ boot /\ boot' /\ state' = state /\ acked' = acked
    BY <1>7 DEF Retire, Starting
  <2>2. /\ nextId' \in {nextId, nextId + 1} /\ candidate'.hist = state.hist
        /\ pc' \in {"flushData", "slot"}
    BY <1>0, <1>7, ProceedGoes DEF Retire
  <2>3. InDoubt(state)
    BY <2>1 DEF OneInDoubt, Running
  <2>4. (\A s \in Kept : InDoubt(s))'
    BY <2>1, <2>2, KeptInDoubt
  <2>5. InDoubt(state)' /\ InDoubt(candidate)'
    BY <1>0, <2>1, <2>2, <2>3, DoubtStays DEF InDoubt, OneMoreThan
  <2> QED BY <2>1, <2>4, <2>5 DEF OneInDoubt
<1>8. ASSUME UNCHANGED <<boot, state, candidate, acked, nextId>>,
             Running, pc \notin {"publish", "retire"}, pc' # "publish",
             pc' \in Committing => pc \in Committing
      PROVE  OneInDoubt'
  <2>1. (\A s \in Kept : InDoubt(s))'
    BY <1>8, KeptInDoubt
  <2>2. InDoubt(state)
    BY <1>8 DEF OneInDoubt
  <2>3. InDoubt(state)' /\ (pc \in Committing => InDoubt(candidate)')
    BY <1>8, <2>2 DEF OneInDoubt, InDoubt, OneMoreThan
  <2>4. ~boot => state.hist = acked.hist
    BY <1>8 DEF OneInDoubt
  <2>5. pc \in Committing /\ ~boot => JustOneMore(candidate)'
    BY <1>8 DEF OneInDoubt, JustOneMore
  <2> QED BY <1>8, <2>1, <2>3, <2>4, <2>5 DEF OneInDoubt
<1>9. CASE Abandon \/ FlushData \/ AppendBegin \/ AppendEnd
  <2>1. /\ pc \in Committing /\ pc' \in Committing \cup {"idle"}
        /\ UNCHANGED <<boot, state, candidate, acked, nextId>>
    BY <1>9 DEF Abandon, FlushData, AppendBegin, AppendEnd, Committing
  <2> QED BY <1>8, <2>1 DEF Running, Committing
<1>10. CASE SlotBegin \/ SlotEnd \/ FlushSlot \/ WriteFloor \/ FlushFloor \/ Truncate \/ FlushTruncate
  <2> DEFINE Checkpointing == {"slot", "slotWriting", "flushSlot", "floor", "flushFloor",
                               "truncate", "flushTruncate", "mark"}
  <2>1. /\ pc \in Checkpointing /\ pc' \in Checkpointing
        /\ UNCHANGED <<boot, state, candidate, acked, nextId>>
    BY <1>10 DEF SlotBegin, SlotEnd, FlushSlot, WriteFloor, FlushFloor, Truncate, FlushTruncate
  <2> QED BY <1>8, <2>1 DEF Running, Committing
<1>11. CASE Pin \/ Release \/ UNCHANGED vars
  <2>1. UNCHANGED <<pc, boot, state, candidate, acked, nextId>>
    BY <1>11 DEF Pin, Release, vars, run
  <2>2. (\A s \in Kept : InDoubt(s))'
    BY <2>1, KeptInDoubt
  <2>3. (InDoubt(state) <=> InDoubt(state)') /\ (InDoubt(candidate) <=> InDoubt(candidate)')
    BY <2>1 DEF InDoubt, OneMoreThan
  <2>4. (JustOneMore(state) <=> JustOneMore(state)') /\ (JustOneMore(candidate) <=> JustOneMore(candidate)')
    BY <2>1 DEF JustOneMore
  <2> QED BY <2>1, <2>2, <2>3, <2>4 DEF OneInDoubt, Running
<1> QED
  BY <1>1, <1>2, <1>4, <1>5, <1>6, <1>7, <1>9, <1>10, <1>11
  DEF Next, Work, Commit, TakeCheckpoint, Reopen, Environment

-----------------------------------------------------------------------------
(* The invariant and what follows from it.                                    *)

LEMMA InitService == Init => Service
<1> SUFFICES ASSUME Init PROVE Service
  OBVIOUS
<1>1. pc = "slot" /\ boot /\ free = {} /\ pins = {} /\ state = Genesis /\ acked = Genesis
  BY DEF Init
<1>2. Genesis.stages = 0 /\ Genesis.ext = NoExt /\ Genesis.hist = {}
  BY DEF Genesis
<1>3. Kept \subseteq {Genesis}
  BY EntriesOfNothing DEF Init, Kept
<1>4. \A s \in {Genesis} : InDoubt(s)
  BY <1>2 DEF InDoubt, OneMoreThan
<1>5. Starting /\ OwnStages
  BY <1>1, <1>2 DEF Starting, OwnStages, Owned, Committing, Down, Serving
<1>6. LiveExtents
  BY <1>1, <1>2 DEF LiveExtents, Intact, Committing, Serving
<1>7. OneInDoubt
  BY <1>1, <1>3, <1>4 DEF OneInDoubt, Committing
<1> QED BY <1>5, <1>6, <1>7 DEF Service

\* Before it serves, a process has retired what the dead left and inventoried what is live;
\* what it serves differs from what was last shown by one transaction at most.
THEOREM ServiceInvariant == Spec => []SInv
<1>1. Init => SInv
  BY InitIInv, InitService DEF SInv
<1>2. SInv /\ [Next]_vars => SInv'
  <2> SUFFICES ASSUME SInv, [Next]_vars PROVE SInv'
    OBVIOUS
  <2>1. IInv' /\ TypeOK'
    BY StepIInv DEF SInv, IInv
  <2>2. Starting'
    BY StartingStep DEF SInv, Service
  <2> QED BY <2>1, <2>2, OwnStagesStep, LiveExtentsStep, OneInDoubtStep DEF SInv, Service
<1> QED BY <1>1, <1>2, PTL DEF Spec

\* A store in service carries no pending stage of an owner of an earlier process: the start-up
\* commit that retires them comes first, whatever crash or failed write came in between.
THEOREM StagesOfTheDeadRetired == Spec => []NoForeignStages
<1>1. SInv => NoForeignStages
  BY DEF SInv, Service, OwnStages, Owned, NoForeignStages
<1> QED BY <1>1, ServiceInvariant, PTL

\* No reader ever sees an extent written over: the writer takes extents from the last
\* inventory only, and what was published or pinned since is not in it.
THEOREM PinnedNeverOverwritten == Spec => []PinnedIntact
<1>1. SInv => PinnedIntact
  BY DEF SInv, Service, LiveExtents, Intact, PinnedIntact
<1> QED BY <1>1, ServiceInvariant, PTL

-----------------------------------------------------------------------------
(* The journal implements UdbDurable.                                         *)

LEMMA InitDurable == Init => Durable!Init
BY DEF Init, Genesis, Serving, Durable!Init

\* The start-up inventory opens the store with what was served, or one transaction more;
\* any later one shows nothing new.
LEMMA MarkDurable == ASSUME SInv, Mark PROVE Durable!Open \/ UNCHANGED Durable!vars
<1>1. /\ pc = "mark" /\ pc' = "idle" /\ acked' = state /\ ~boot' /\ Running /\ ~Down
  BY DEF Mark, Running, Down
<1>2. acked.hist \subseteq state.hist
  BY <1>1 DEF SInv, IInv, NoLostAck, Extends
<1>3. CASE boot
  <2>1. PICK t : state.hist \subseteq acked.hist \cup {t}
    BY <1>1 DEF SInv, Service, OneInDoubt, InDoubt, OneMoreThan
  <2>2. \/ acked'.hist = acked.hist
        \/ t \notin acked.hist /\ acked'.hist = acked.hist \cup {t}
    <3>1. t \in state.hist => state.hist = acked.hist \cup {t}
      BY <1>2, <2>1
    <3>2. t \notin state.hist \/ t \in acked.hist => state.hist = acked.hist
      BY <1>2, <2>1
    <3> QED BY <1>1, <3>1, <3>2
  <2>3. ~Serving /\ Serving'
    BY <1>1, <1>3 DEF Serving
  <2>4. acked'.hist = acked.hist \/ Durable!OneMore
    BY <2>2 DEF Durable!OneMore
  <2> QED BY <1>1, <2>3, <2>4 DEF Durable!Open
<1>4. CASE ~boot
  <2>1. state.hist = acked.hist
    BY <1>1, <1>4 DEF SInv, Service, OneInDoubt
  <2>2. Serving /\ Serving'
    BY <1>1, <1>4 DEF Serving
  <2> QED BY <1>1, <2>1, <2>2 DEF Durable!vars
<1> QED BY <1>3, <1>4

LEMMA PublishDurable == ASSUME SInv, Publish PROVE Durable!Publish
<1>1. /\ pc = "publish" /\ pc' \in {"slot", "idle"} /\ acked' = state /\ boot' = boot /\ Running
  BY DEF Publish, Running
<1>2. ~boot
  BY <1>1 DEF SInv, Service, Starting
<1>3. PICK t : t \notin acked.hist /\ state.hist = acked.hist \cup {t}
  BY <1>1, <1>2 DEF SInv, Service, OneInDoubt, JustOneMore
<1>4. Durable!OneMore
  BY <1>1, <1>3 DEF Durable!OneMore
<1>5. Serving /\ Serving'
  BY <1>1, <1>2 DEF Serving
<1> QED BY <1>4, <1>5 DEF Durable!Publish

LEMMA StepDurable == SInv /\ [Next]_vars => [Durable!Next]_(Durable!vars)
<1> SUFFICES ASSUME SInv, [Next]_vars PROVE Durable!Next \/ UNCHANGED Durable!vars
  OBVIOUS
<1>1. CASE Publish \/ Mark
  BY <1>1, PublishDurable, MarkDurable DEF Durable!Next
<1>2. CASE Kill \/ PowerLoss \/ IoFail \/ Exit
  <2>1. /\ acked' = acked /\ pc # "closed" /\ ~Serving' /\ pc' # "closed"
    BY <1>2 DEF Kill, PowerLoss, IoFail, Exit, Forget, Serving, Down, Writing
  <2> QED BY <2>1 DEF Durable!Next, Durable!Stop, Durable!vars
<1>3. CASE Refuse
  <2>1. /\ acked' = acked /\ pc = "down" /\ pc' = "closed" /\ ~Serving /\ ~Serving'
    BY <1>3 DEF Refuse, Serving
  <2> QED BY <2>1 DEF Durable!Next, Durable!Refuse
<1>4. CASE Recover \/ Retire
  <2>1. boot /\ boot' = boot /\ acked' = acked /\ pc \in {"down", "retire"}
    BY <1>4 DEF Recover, Retire, SInv, Service, Starting, Down
  <2>2. pc' \in {"retire", "flushData", "slot"}
    BY <1>4 DEF Recover, Retire, Proceed
  <2> QED BY <2>1, <2>2 DEF Serving, Durable!vars
<1>5. CASE Prepare \/ Abandon \/ FlushData \/ AppendBegin \/ AppendEnd \/ FlushWal
  <2>1. /\ UNCHANGED <<boot, acked>> /\ pc \in Committing \cup {"idle"}
        /\ pc' \in Committing \cup {"idle", "slot", "publish"}
    BY <1>5 DEF Prepare, Abandon, FlushData, AppendBegin, AppendEnd, FlushWal, Committing
  <2> QED BY <2>1 DEF Serving, Committing, Durable!vars
<1>6. CASE SlotBegin \/ SlotEnd \/ FlushSlot \/ WriteFloor \/ FlushFloor \/ Truncate \/ FlushTruncate
  <2> DEFINE Checkpointing == {"slot", "slotWriting", "flushSlot", "floor", "flushFloor",
                               "truncate", "flushTruncate", "mark"}
  <2>1. UNCHANGED <<boot, acked>> /\ pc \in Checkpointing /\ pc' \in Checkpointing
    BY <1>6 DEF SlotBegin, SlotEnd, FlushSlot, WriteFloor, FlushFloor, Truncate, FlushTruncate
  <2> QED BY <2>1 DEF Serving, Durable!vars
<1>7. CASE Pin \/ Release \/ Rot \/ UNCHANGED vars
  <2>1. UNCHANGED <<pc, boot, acked>>
    BY <1>7 DEF Pin, Release, Rot, vars, run
  <2> QED BY <2>1 DEF Serving, Durable!vars
<1> QED
  BY <1>1, <1>2, <1>3, <1>4, <1>5, <1>6, <1>7
  DEF Next, Work, Commit, TakeCheckpoint, Reopen, Environment

\* Whatever crashes, the served transactions only grow, one at a time, and a restart brings
\* them all back with at most the one that was in doubt, or refuses to open.
THEOREM JournalImplementsDurable == Spec => ImplementsDurable
<1> QED BY InitDurable, StepDurable, ServiceInvariant, PTL DEF Spec, ImplementsDurable, Durable!Spec
=============================================================================
