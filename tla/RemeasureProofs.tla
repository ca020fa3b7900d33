---------------------------- MODULE RemeasureProofs ----------------------------
(***************************************************************************)
(* The safety properties of RemeasureQueue for any grid, however many      *)
(* cells are queued and however often the process is killed.               *)
(*                                                                         *)
(* OneEntryPerCell and FineStaysFine are two sides of Sound: a cell has no *)
(* entry or one that fits it.  They are inductive only with the files,     *)
(* from which a kill restores the surface, and with the cell in flight,    *)
(* which has been dropped and whose place is remembered.  KillLosesNothing *)
(* needs Kept: the engine holds on to what the file does.                  *)
(* TypeOK bounds the queue by OnceQueued: no request waits twice behind    *)
(* the head, whose cell may have been asked for again while in flight.     *)
(***************************************************************************)
EXTENDS RemeasureQueue, SequenceTheorems, FiniteSetTheorems, TLAPS

\* The entries a cell may have that is not among the lost ones.
Fitting(c, lost) == IF c \in FineCells \ lost THEN {InGrid(c)} ELSE Entries

Sound(s) ==
  /\ s \in [Cells -> Seq(Entries)]
  /\ \A c \in Cells : s[c] = <<>> \/ \E e \in Fitting(c, spoilt) : s[c] = <<e>>

MemoryOK == queue \in Seq(Cells) /\ Sound(surface)

FileOK ==
  /\ file.queue \in Seq(Cells) /\ Sound(file.surface)
  /\ file = [queue |-> file.queue, surface |-> file.surface]

\* The cell that is measured was dropped, and what it was is remembered.
ThreadOK ==
  /\ prior \in Entries
  /\ pc \in {"flight", "raised", "explore"} => item \in Cells
  /\ pc \in {"flight", "explore"} => surface[item] = <<>> /\ prior \in Fitting(item, spoilt)

PastOK == gone \subseteq Cells /\ spoilt \subseteq Cells

InHand == IF pc \in {"flight", "raised"} THEN {item} ELSE {}

\* The cells the engine knows of, but for the one it has in hand.
InMemory == Queued \cup Measured(surface)

Kept == Held(file) \ gone \subseteq InMemory \cup InHand

Carried == MemoryOK /\ FileOK /\ ThreadOK /\ PastOK /\ Kept

WorkerOK == worker \in {"tune", "drain"} \/ pc = "dead"

IInv == Carried /\ WorkerOK
-----------------------------------------------------------------------------
(* Sequences.                                                              *)
LEMMA RangeOfAppend ==
  ASSUME NEW S, NEW q \in Seq(S), NEW e \in S
  PROVE  Append(q, e) \in Seq(S) /\ Range(Append(q, e)) = Range(q) \cup {e}
<1> DEFINE one == <<e>>
<1>1. one \in Seq(S) /\ Range(one) = {e}
  BY DEF Range
<1>2. Append(q, e) = q \o one
  OBVIOUS
<1> HIDE DEF one
<1>3. q \o one \in Seq(S)
  BY <1>1, ConcatProperties
<1>4. Range(q \o one) = Range(q) \cup Range(one)
  BY <1>1, RangeConcatenation
<1> QED
  BY <1>1, <1>2, <1>3, <1>4

LEMMA RangeOfCons ==
  ASSUME NEW S, NEW q \in Seq(S), NEW e \in S
  PROVE  <<e>> \o q \in Seq(S) /\ Range(<<e>> \o q) = {e} \cup Range(q)
<1> DEFINE one == <<e>>
<1>1. one \in Seq(S) /\ Range(one) = {e}
  BY DEF Range
<1> HIDE DEF one
<1>2. one \o q \in Seq(S)
  BY <1>1, ConcatProperties
<1>3. Range(one \o q) = Range(one) \cup Range(q)
  BY <1>1, RangeConcatenation
<1>4. one \o q \in Seq(S) /\ Range(one \o q) = {e} \cup Range(q)
  BY <1>1, <1>2, <1>3
<1> QED
  BY <1>4 DEF one

LEMMA RangeOfTail ==
  ASSUME NEW S, NEW q \in Seq(S), q # <<>>
  PROVE  /\ Head(q) \in S /\ Tail(q) \in Seq(S)
         /\ Range(q) = {Head(q)} \cup Range(Tail(q))
<1>1. Head(q) \in S /\ Tail(q) \in Seq(S)
  OBVIOUS
<1>2. q = <<Head(q)>> \o Tail(q)
  OBVIOUS
<1> QED
  BY <1>1, <1>2, RangeOfCons
-----------------------------------------------------------------------------
(* Entries.                                                                *)
LEMMA InGridIsEntry == ASSUME NEW c PROVE InGrid(c) \in Entries
<1>1. (c \in FineCells) \in BOOLEAN
  OBVIOUS
<1> QED
  BY <1>1, Zenon DEF InGrid, Entries

LEMMA FittingIsEntry == ASSUME NEW c, NEW lost PROVE Fitting(c, lost) \subseteq Entries
BY InGridIsEntry DEF Fitting

LEMMA FineFits ==
  ASSUME NEW c, NEW lost, NEW e \in Fitting(c, lost), c \in FineCells \ lost
  PROVE  e.fine
<1>1. e = InGrid(c)
  BY DEF Fitting
<1>2. e.fine = (c \in FineCells)
  BY <1>1 DEF InGrid
<1> QED
  BY <1>2
-----------------------------------------------------------------------------
(* What the pieces of a step do.                                           *)

\* What is saved is as sound as what is in memory.
LEMMA FilesFollow ==
  ASSUME Carried, MemoryOK', spoilt \subseteq spoilt', file' = file \/ file' = Snapshot
  PROVE  FileOK'
<1>1. CASE file' = file
  BY <1>1 DEF Carried, FileOK, Sound, Fitting, InGrid, Entries
<1>2. CASE file' = Snapshot
  BY <1>2 DEF Snapshot, MemoryOK, FileOK
<1> QED
  BY <1>1, <1>2

\* Memory that is not touched stays sound.
LEMMA MemoryUntouched ==
  ASSUME Carried, UNCHANGED memory, spoilt \subseteq spoilt'
  PROVE  MemoryOK'
BY DEF Carried, memory, MemoryOK, Sound, Fitting, InGrid, Entries

\* Recording an entry that fits the cell in flight.
LEMMA RecordKeeps ==
  ASSUME Carried, item \in Cells, surface[item] = <<>>, spoilt \subseteq spoilt',
         NEW e \in Entries, e \in Fitting(item, spoilt'), Record(e)
  PROVE  /\ MemoryOK' /\ FileOK'
         /\ InMemory' = InMemory \cup {item}
         /\ file' = file \/ file' = Snapshot
<1>1. surface' = [surface EXCEPT ![item] = Append(surface[item], e)] /\ queue' = queue
  BY DEF Record
<1>2. Append(surface[item], e) = <<e>> /\ <<e>> \in Seq(Entries) /\ <<e>> # <<>>
  OBVIOUS
<1>3. surface \in [Cells -> Seq(Entries)]
  BY DEF Carried, MemoryOK, Sound
<1>4. /\ surface' \in [Cells -> Seq(Entries)]
      /\ surface'[item] = <<e>>
      /\ \A c \in Cells \ {item} : surface'[c] = surface[c]
  BY <1>1, <1>2, <1>3
<1>5. MemoryOK'
  <2> SUFFICES ASSUME NEW c \in Cells
               PROVE  surface'[c] = <<>> \/ \E d \in Fitting(c, spoilt') : surface'[c] = <<d>>
    BY <1>1, <1>4 DEF Carried, MemoryOK, Sound
  <2>1. CASE c = item
    BY <2>1, <1>4 DEF Fitting
  <2>2. CASE c # item
    BY <2>2, <1>4 DEF Carried, MemoryOK, Sound, Fitting, InGrid, Entries
  <2> QED
    BY <2>1, <2>2
<1>6. InMemory' = InMemory \cup {item}
  BY <1>1, <1>2, <1>4 DEF InMemory, Queued, Measured
<1>7. file' = file \/ file' = Snapshot
  BY DEF Record, SaveCheckpoint, files
<1> QED
  BY <1>5, <1>6, <1>7, FilesFollow

\* What KillLosesNothing says of a step.
NothingLost == Held(file) \ gone' \subseteq Held(file')

\* How a step is concluded: by what it holds on to.
LEMMA HeldOnTo ==
  ASSUME Carried, MemoryOK', ThreadOK', PastOK', spoilt \subseteq spoilt',
         \/ file' = file
         \/ file' = Snapshot /\ InHand' \subseteq InMemory' \cup gone',
         Held(file) \ gone' \subseteq InMemory' \cup InHand'
  PROVE  Carried' /\ NothingLost
<1>1. FileOK'
  BY FilesFollow
<1>2. CASE file' = file
  <2>1. Kept'
    BY <1>2 DEF Kept, Held, Measured
  <2> QED
    BY <1>1, <1>2, <2>1 DEF Carried, NothingLost
<1>3. CASE file' = Snapshot /\ InHand' \subseteq InMemory' \cup gone'
  <2>1. Held(file') = InMemory'
    BY <1>3 DEF Snapshot, Held, InMemory, Queued, Measured
  <2>2. Kept'
    BY <2>1 DEF Kept
  <2> QED
    BY <1>1, <1>3, <2>1, <2>2 DEF Carried, NothingLost
<1> QED
  BY <1>2, <1>3

-----------------------------------------------------------------------------
(* The steps.                                                              *)

\* Steps that touch neither the queue, the surface nor the files.
LEMMA QuietSteps ==
  ASSUME Carried, UNCHANGED <<memory, files, past>>,
         \/ UNCHANGED <<pc, item, prior>>
         \/ pc' \notin {"flight", "raised", "explore"} /\ pc \notin {"flight", "raised"}
            /\ prior' \in {prior, Coarse}
         \/ pc \in {"flight", "explore"} /\ pc' \in {"raised", "retry"}
            /\ (pc = "flight" => pc' = "raised") /\ UNCHANGED <<item, prior>>
  PROVE  Carried' /\ NothingLost
<1>1. MemoryOK' /\ PastOK' /\ spoilt \subseteq spoilt' /\ file' = file
  BY MemoryUntouched DEF past, files, Carried, PastOK
<1>2. ThreadOK'
  <2>1. Coarse \in Entries
    BY DEF Coarse, Entries
  <2>2. UNCHANGED <<surface, spoilt>>
    BY DEF memory, past
  <2>3. CASE UNCHANGED <<pc, item, prior>>
    BY <2>2, <2>3 DEF Carried, ThreadOK
  <2>4. CASE pc' \notin {"flight", "raised", "explore"} /\ prior' \in {prior, Coarse}
    BY <2>1, <2>4 DEF Carried, ThreadOK
  <2>5. CASE pc \in {"flight", "explore"} /\ pc' \in {"raised", "retry"} /\ UNCHANGED <<item, prior>>
    BY <2>5 DEF Carried, ThreadOK
  <2> QED
    BY <2>3, <2>4, <2>5
<1>3. InMemory' = InMemory /\ InHand \subseteq InHand' /\ gone' = gone
  BY DEF memory, past, InMemory, Queued, Measured, InHand
<1>4. Held(file) \ gone' \subseteq InMemory' \cup InHand'
  BY <1>3 DEF Carried, Kept
<1> QED
  BY <1>1, <1>2, <1>4, HeldOnTo

\* The operator's requests.
LEMMA RequestSteps ==
  ASSUME Carried, (\E c \in Cells : Enqueue(c)) \/ Clear
  PROVE  Carried' /\ NothingLost
<1>1. CASE \E c \in Cells : Enqueue(c)
  <2> PICK c \in Cells : Enqueue(c)
    BY <1>1
  <2>1. queue' \in Seq(Cells) /\ Queued' = Queued \cup {c}
    BY RangeOfAppend DEF Enqueue, Carried, MemoryOK, Queued
  <2>2. UNCHANGED <<surface, thread, files, past>>
    BY DEF Enqueue
  <2>3. MemoryOK' /\ ThreadOK' /\ PastOK' /\ spoilt \subseteq spoilt' /\ file' = file
    BY <2>1, <2>2 DEF thread, files, past, Carried, MemoryOK, Sound, ThreadOK, PastOK,
                      Fitting, InGrid, Entries
  <2>4. InMemory \subseteq InMemory' /\ InHand' = InHand /\ gone' = gone
    BY <2>1, <2>2 DEF thread, past, InMemory, InHand, Measured
  <2>5. Held(file) \ gone' \subseteq InMemory' \cup InHand'
    BY <2>4 DEF Carried, Kept
  <2> QED
    BY <2>3, <2>5, HeldOnTo
<1>2. CASE Clear
  <2>1. queue' \in Seq(Cells) /\ Queued' = {}
    BY <1>2 DEF Clear, Queued, Range
  <2>2. UNCHANGED <<surface, thread, files, spoilt>> /\ gone' = gone \cup (Queued \ Measured(surface))
    BY <1>2 DEF Clear
  <2>3. Queued \subseteq Cells
    BY RangeOfSeq DEF Carried, MemoryOK, Queued
  <2>4. MemoryOK' /\ ThreadOK' /\ PastOK' /\ spoilt \subseteq spoilt' /\ file' = file
    BY <2>1, <2>2, <2>3 DEF thread, files, Carried, MemoryOK, Sound, ThreadOK, PastOK,
                            Fitting, InGrid, Entries
  <2>5. InMemory \ gone' \subseteq InMemory' /\ InHand' = InHand /\ gone \subseteq gone'
    BY <2>1, <2>2 DEF thread, InMemory, InHand, Measured
  <2>6. Held(file) \ gone' \subseteq InMemory' \cup InHand'
    BY <2>5 DEF Carried, Kept
  <2> QED
    BY <2>4, <2>6, HeldOnTo
<1> QED
  BY <1>1, <1>2

\* A cell leaves the queue and the surface for the worker's hand.
LEMMA TakeOneKeeps ==
  ASSUME Carried, WorkerOK, TakeOne
  PROVE  Carried' /\ NothingLost
<1>1. /\ item' \in Cells /\ queue' \in Seq(Cells)
      /\ Queued = {item'} \cup Queued'
  BY RangeOfTail DEF TakeOne, Carried, MemoryOK, Queued
<1>2. /\ pc' = "flight" /\ UNCHANGED <<files, gone>>
      /\ surface' = [surface EXCEPT ![item'] = <<>>]
      /\ spoilt' = IF worker = "drain" \/ surface[item'] = <<>>
                   THEN spoilt \cup {item'} ELSE spoilt
      /\ prior' = IF worker = "tune" /\ surface[item'] # <<>> /\ surface[item'][1].fine
                  THEN surface[item'][1] ELSE Coarse
  BY DEF TakeOne, Dropped, Sniffed
<1>3. /\ surface' \in [Cells -> Seq(Entries)] /\ surface'[item'] = <<>>
      /\ \A c \in Cells \ {item'} : surface'[c] = surface[c]
  BY <1>1, <1>2 DEF Carried, MemoryOK, Sound
<1>4. MemoryOK' /\ spoilt \subseteq spoilt' /\ file' = file
  BY <1>1, <1>2, <1>3 DEF files, Carried, MemoryOK, Sound, Fitting, InGrid, Entries
<1>5. PastOK'
  BY <1>1, <1>2 DEF Carried, PastOK
<1>6. prior' \in Entries /\ prior' \in Fitting(item', spoilt')
  <2>1. Coarse \in Entries
    BY DEF Coarse, Entries
  <2>2. CASE surface[item'] = <<>>
    BY <1>2, <2>1, <2>2 DEF Fitting
  <2>3. CASE surface[item'] # <<>>
    <3>1. PICK e \in Fitting(item', spoilt) : surface[item'] = <<e>>
      BY <1>1, <2>3 DEF Carried, MemoryOK, Sound
    <3>2. surface[item'][1] = e /\ e \in Entries
      BY <3>1, FittingIsEntry
    <3>3. prior' \in {e, Coarse} /\ (prior' = e \/ worker # "tune" \/ ~e.fine)
      BY <1>2, <2>3, <3>2
    <3>4. item' \in FineCells \ spoilt => e.fine
      BY <3>1, FineFits
    <3>5. item' \in FineCells \ spoilt' => worker # "drain"
      BY <1>2
    <3>6. worker \in {"tune", "drain"}
      BY DEF WorkerOK, TakeOne
    <3> QED
      BY <1>2, <2>1, <3>1, <3>2, <3>3, <3>4, <3>5, <3>6 DEF Fitting
  <2> QED
    BY <2>2, <2>3
<1>7. ThreadOK'
  BY <1>1, <1>2, <1>3, <1>6 DEF ThreadOK
<1>8. InMemory \cup InHand \subseteq InMemory' \cup InHand'
  BY <1>1, <1>2, <1>3 DEF TakeOne, InMemory, InHand, Measured
<1>9. Held(file) \ gone' \subseteq InMemory' \cup InHand'
  BY <1>2, <1>8 DEF Carried, Kept
<1> QED
  BY <1>4, <1>5, <1>7, <1>9, HeldOnTo

LEMMA ExploreKeeps ==
  ASSUME Carried, Explore
  PROVE  Carried' /\ NothingLost
<1>1. item' \in Cells /\ surface[item'] = <<>> /\ pc' = "explore" /\ prior' = InGrid(item')
  BY DEF Explore, Measured
<1>2. UNCHANGED <<memory, files, past>>
  BY DEF Explore
<1>3. MemoryOK' /\ PastOK' /\ spoilt \subseteq spoilt' /\ file' = file
  BY <1>2, MemoryUntouched DEF past, files, Carried, PastOK
<1>4. ThreadOK'
  BY <1>1, <1>2, InGridIsEntry DEF memory, ThreadOK, Fitting
<1>5. InMemory' = InMemory /\ InHand \subseteq InHand' /\ gone' = gone
  BY <1>2 DEF memory, past, InMemory, Queued, Measured, InHand, Explore
<1>6. Held(file) \ gone' \subseteq InMemory' \cup InHand'
  BY <1>5 DEF Carried, Kept
<1> QED
  BY <1>3, <1>4, <1>6, HeldOnTo

\* The cell at work gets its entry, and is in nobody's hand any more, or its
\* request is about to go back to the queue.
LEMMA RecordSteps ==
  ASSUME Carried, MeasuredAgain \/ FlightFails \/ Explored \/ ExploreFails,
         NEW e \in Entries, Record(e), e \in Fitting(item, spoilt'),
         pc \in {"flight", "explore"}, gone' = gone \ {item},
         spoilt' \in {spoilt, spoilt \cup {item}},
         \/ pc' = "raised" /\ UNCHANGED <<item, prior>>
         \/ pc' \in {"loop", "retry"} /\ prior' \in {prior, Coarse}
  PROVE  Carried' /\ NothingLost
<1>1. item \in Cells /\ surface[item] = <<>> /\ spoilt \subseteq spoilt'
  BY DEF Carried, ThreadOK
<1>2. MemoryOK' /\ InMemory' = InMemory \cup {item} /\ (file' = file \/ file' = Snapshot)
  BY <1>1, RecordKeeps
<1>3. PastOK' /\ ThreadOK'
  <2>1. Coarse \in Entries
    BY DEF Coarse, Entries
  <2> QED
    BY <1>1, <2>1 DEF Carried, PastOK, ThreadOK
<1>4. InHand \subseteq {item} /\ InHand' \subseteq {item}
  BY DEF InHand
<1>5. Held(file) \ gone' \subseteq InMemory' \cup InHand'
  BY <1>2, <1>4 DEF Carried, Kept
<1> QED
  BY <1>1, <1>2, <1>3, <1>4, <1>5, HeldOnTo

LEMMA MeasuringKeeps ==
  ASSUME Carried, MeasuredAgain \/ FlightFails \/ Explored \/ ExploreFails
  PROVE  Carried' /\ NothingLost
<1>1. CASE MeasuredAgain \/ Explored
  <2>1. /\ prior \in Entries /\ prior \in Fitting(item, spoilt)
        /\ spoilt' = spoilt /\ gone' = gone \ {item}
    BY <1>1 DEF MeasuredAgain, Explored, Carried, ThreadOK
  <2>2. /\ Record(prior) /\ pc \in {"flight", "explore"}
        /\ pc' = "loop" /\ prior' = Coarse
    BY <1>1 DEF MeasuredAgain, Explored, Loop
  <2> QED
    BY <1>1, <2>1, <2>2, RecordSteps
<1>2. ASSUME NEW next \in {"raised", "retry"}, NotReady(next), pc \in {"flight", "explore"},
             FlightFails \/ ExploreFails
      PROVE  Carried' /\ NothingLost
  <2> DEFINE e == [fine |-> prior.fine, anchored |-> FALSE]
  <2>1. e \in Entries
    BY DEF Carried, ThreadOK, Entries
  <2>2. Record(e) /\ gone' = gone \ {item} /\ spoilt' = spoilt \cup {item}
        /\ pc' = next /\ UNCHANGED <<item, prior>>
    BY <1>2 DEF NotReady, Goto
  <2>3. e \in Fitting(item, spoilt')
    BY <2>1, <2>2 DEF Fitting
  <2> HIDE DEF e
  <2> QED
    BY <1>2, <2>1, <2>2, <2>3, RecordSteps
<1>3. CASE FlightFails \/ ExploreFails
  <2>1. CASE (pc = "flight" /\ NotReady("raised")) \/ (pc = "explore" /\ NotReady("retry"))
    BY <1>2, <1>3, <2>1
  <2>2. CASE (pc = "flight" /\ Offline("raised")) \/ (pc = "explore" /\ Offline("retry"))
    <3>1. UNCHANGED <<memory, files, past>> /\ UNCHANGED <<item, prior>>
          /\ pc \in {"flight", "explore"} /\ pc' \in {"raised", "retry"}
          /\ (pc = "flight" => pc' = "raised")
      BY <2>2 DEF Offline, Goto
    <3> QED
      BY <3>1, QuietSteps
  <2> QED
    BY <1>3, <2>1, <2>2 DEF FlightFails, ExploreFails
<1> QED
  BY <1>1, <1>3

\* Memory is saved as it is; what was in hand is given up.
LEMMA SavingSteps ==
  ASSUME Carried, Abandoned \/ ExploreStops \/ Settle \/ SelectProfile
  PROVE  Carried' /\ NothingLost
<1>1. UNCHANGED <<memory, spoilt>> /\ (file' = file \/ file' = Snapshot)
  BY DEF Abandoned, ExploreStops, Settle, SelectProfile, past, SaveCheckpoint, SaveProfile, files
<1>2. /\ gone \subseteq gone' /\ gone' \subseteq gone \cup InHand
      /\ InHand \subseteq gone' /\ InHand' \subseteq InHand
  BY DEF Abandoned, ExploreStops, Settle, SelectProfile, past, thread, Loop, InHand
<1>3. \/ UNCHANGED <<pc, item, prior>>
      \/ pc' = "loop" /\ prior' = Coarse
  BY DEF Abandoned, ExploreStops, Settle, SelectProfile, thread, Loop
<1>4. InHand \subseteq Cells /\ Coarse \in Entries
  BY DEF Carried, ThreadOK, InHand, Coarse, Entries
<1>5. MemoryOK' /\ spoilt' = spoilt
  BY <1>1, MemoryUntouched
<1>6. ThreadOK' /\ PastOK'
  BY <1>1, <1>2, <1>3, <1>4 DEF memory, Carried, ThreadOK, PastOK
<1>7. InMemory' = InMemory
  BY <1>1 DEF memory, InMemory, Queued, Measured
<1>8. Held(file) \ gone' \subseteq InMemory' \cup InHand'
  BY <1>2, <1>7 DEF Carried, Kept
<1> QED
  BY <1>1, <1>2, <1>5, <1>6, <1>8, HeldOnTo

\* The request goes back to the queue.
LEMMA ReinsertKeeps ==
  ASSUME Carried, Reinsert
  PROVE  Carried' /\ NothingLost
<1>1. item \in Cells /\ queue \in Seq(Cells)
  BY DEF Reinsert, Carried, ThreadOK, MemoryOK
<1>2. queue' = <<item>> \o queue /\ UNCHANGED <<surface, past>>
      /\ (file' = file \/ file' = Snapshot)
  BY DEF Reinsert, SaveCheckpoint, files
<1>3. queue' \in Seq(Cells) /\ Queued' = {item} \cup Queued
  BY <1>1, <1>2, RangeOfCons DEF Queued
<1>4. pc' \in {"retry", "dead"} /\ prior' \in {prior, Coarse} /\ pc = "raised"
  BY DEF Reinsert, Goto, Exit
<1>5. MemoryOK' /\ PastOK' /\ spoilt \subseteq spoilt'
  BY <1>2, <1>3 DEF past, Carried, MemoryOK, PastOK, Sound, Fitting, InGrid, Entries
<1>6. ThreadOK'
  <2>1. Coarse \in Entries
    BY DEF Coarse, Entries
  <2> QED
    BY <1>4, <2>1 DEF Carried, ThreadOK
<1>7. InMemory' = InMemory \cup {item} /\ InHand = {item} /\ InHand' = {} /\ gone' = gone
  BY <1>2, <1>3, <1>4 DEF past, InMemory, InHand, Measured
<1>8. Held(file) \ gone' \subseteq InMemory' \cup InHand'
  BY <1>7 DEF Carried, Kept
<1> QED
  BY <1>2, <1>5, <1>6, <1>7, <1>8, HeldOnTo

\* The process comes back to what the file holds.
LEMMA KillKeeps ==
  ASSUME Carried, Kill
  PROVE  Carried' /\ NothingLost
<1>1. queue' = file.queue /\ surface' = file.surface /\ UNCHANGED <<files, past>>
      /\ pc' = "dead" /\ prior' = Coarse
  BY DEF Kill, Exit
<1>2. MemoryOK' /\ PastOK' /\ spoilt \subseteq spoilt' /\ file' = file /\ gone' = gone
  BY <1>1 DEF files, past, Carried, MemoryOK, FileOK, PastOK, Sound, Fitting, InGrid, Entries
<1>3. ThreadOK'
  BY <1>1 DEF ThreadOK, Coarse, Entries
<1>4. InMemory' = Held(file)
  BY <1>1 DEF InMemory, Held, Queued, Measured
<1> QED
  BY <1>2, <1>3, <1>4, HeldOnTo

\* Starts, stops, ends of a worker and retries.
LEMMA ComingsAndGoings ==
  ASSUME IInv, \/ Start \/ StartDrain \/ Stop \/ CalmDown
               \/ LoopExits \/ DrainDone \/ Retried \/ GivenUp \/ UNCHANGED vars
  PROVE  Carried' /\ NothingLost
<1>1. UNCHANGED <<memory, files, past>>
  BY DEF Start, StartDrain, Spawn, Stop, CalmDown, LoopExits, DrainDone, Retried, GivenUp, vars
<1>2. CASE Start \/ StartDrain \/ LoopExits \/ DrainDone \/ Retried \/ GivenUp
  <2>1. /\ pc' \notin {"flight", "raised", "explore"} /\ pc \notin {"flight", "raised"}
        /\ prior' \in {prior, Coarse}
    BY <1>2 DEF Start, StartDrain, Spawn, LoopExits, DrainDone, Retried, GivenUp, Exit, Loop,
                IInv, WorkerOK
  <2> QED
    BY <1>1, <2>1, QuietSteps DEF IInv
<1>3. CASE Stop \/ CalmDown \/ UNCHANGED vars
  <2>1. UNCHANGED <<pc, item, prior>>
    BY <1>3 DEF Stop, CalmDown, vars, thread
  <2> QED
    BY <1>1, <2>1, QuietSteps DEF IInv
<1> QED
  BY <1>2, <1>3
-----------------------------------------------------------------------------
(* The invariant.                                                          *)
LEMMA InitInv == Init => IInv
<1> SUFFICES ASSUME Init PROVE IInv
  OBVIOUS
<1>1. queue \in Seq(Cells) /\ surface \in [Cells -> Seq(Entries)]
  BY DEF Init
<1>2. MemoryOK /\ FileOK
  BY <1>1 DEF Init, MemoryOK, FileOK, Sound
<1>3. Coarse \in Entries
  BY DEF Coarse, Entries
<1>4. ThreadOK /\ PastOK /\ WorkerOK
  BY <1>3 DEF Init, ThreadOK, PastOK, WorkerOK
<1>5. Kept
  BY DEF Init, Kept, Held, InMemory, Queued, Measured
<1> QED
  BY <1>2, <1>4, <1>5 DEF IInv, Carried

LEMMA WorkerStays == WorkerOK /\ [Next]_vars => WorkerOK'
BY DEF WorkerOK, Next, Worker, Operator, vars, thread, Goto, Exit, Loop,
       LoopExits, DrainDone, TakeOne, MeasuredAgain, Abandoned, FlightFails, NotReady, Offline,
       Reinsert, Retried, GivenUp, Explore, Explored, ExploreStops, ExploreFails, Settle,
       Enqueue, Clear, Start, StartDrain, Spawn, Stop, SelectProfile, Kill, CalmDown

\* IInv is inductive, and no step from it loses anything.
LEMMA NextKeepsInv == IInv /\ [Next]_vars => IInv' /\ NothingLost
<1> SUFFICES ASSUME IInv, [Next]_vars PROVE IInv' /\ NothingLost
  OBVIOUS
<1> USE DEF IInv
<1>1. WorkerOK'
  BY WorkerStays
<1>2. CASE TakeOne
  BY <1>1, <1>2, TakeOneKeeps
<1>3. CASE Explore
  BY <1>1, <1>3, ExploreKeeps
<1>4. CASE MeasuredAgain \/ FlightFails \/ Explored \/ ExploreFails
  BY <1>1, <1>4, MeasuringKeeps
<1>5. CASE Abandoned \/ ExploreStops \/ Settle \/ SelectProfile
  BY <1>1, <1>5, SavingSteps
<1>6. CASE Reinsert
  BY <1>1, <1>6, ReinsertKeeps
<1>7. CASE Kill
  BY <1>1, <1>7, KillKeeps
<1>8. CASE (\E c \in Cells : Enqueue(c)) \/ Clear
  BY <1>1, <1>8, RequestSteps
<1>9. CASE \/ Start \/ StartDrain \/ Stop \/ CalmDown
           \/ LoopExits \/ DrainDone \/ Retried \/ GivenUp \/ UNCHANGED vars
  BY <1>1, <1>9, ComingsAndGoings
<1> QED
  BY <1>2, <1>3, <1>4, <1>5, <1>6, <1>7, <1>8, <1>9 DEF Next, Worker, Operator

(* IInv holds in every state of the queue.                                 *)
THEOREM Inductive == Spec => []IInv
<1>1. IInv /\ [Next]_vars => IInv'
  BY NextKeepsInv
<1> QED
  BY InitInv, <1>1, PTL DEF Spec

(* For any grid no cell ever has two entries on the surface, whatever is   *)
(* requested again in flight, re-inserted or restored.                     *)
THEOREM OneEntry == Spec => []OneEntryPerCell
<1>1. IInv => OneEntryPerCell
  <2> SUFFICES ASSUME Sound(surface), NEW c \in Cells PROVE Len(surface[c]) <= 1
    BY DEF IInv, Carried, MemoryOK, OneEntryPerCell
  <2>1. CASE surface[c] = <<>>
    BY <2>1
  <2>2. ASSUME NEW e, surface[c] = <<e>> PROVE Len(surface[c]) <= 1
    BY <2>2
  <2> QED
    BY <2>1, <2>2 DEF Sound
<1> QED
  BY <1>1, Inductive, PTL

(* A fine cell that was always remeasured by the main loop from a sound    *)
(* entry keeps its place in its grid.                                      *)
THEOREM FineStays == Spec => []FineStaysFine
<1>1. IInv => FineStaysFine
  <2> SUFFICES ASSUME IInv, NEW c \in FineCells \ spoilt, NEW i \in DOMAIN surface[c]
               PROVE  surface[c][i] = InGrid(c)
    BY DEF FineStaysFine
  <2>1. c \in Cells
    BY RemeasureAssumption
  <2>2. surface[c] = <<>> \/ surface[c] = <<InGrid(c)>>
    BY <2>1 DEF IInv, Carried, MemoryOK, Sound, Fitting
  <2> QED
    BY <2>2
<1> QED
  BY <1>1, Inductive, PTL

(* A kill comes back with a measurement of, or a request for, every cell   *)
(* an earlier restart would have known of, but for what was given up.      *)
THEOREM NothingIsLost == Spec => KillLosesNothing
<1>1. IInv /\ [Next]_vars => [Held(file) \ gone' \subseteq Held(file')]_vars
  BY NextKeepsInv DEF NothingLost
<1> QED
  BY <1>1, Inductive, PTL DEF Spec, KillLosesNothing
-----------------------------------------------------------------------------
(* The queue's length.  A cell is in it once; but the request that fails is*)
(* put back before whatever was requested since, so that the first cell may*)
(* be there a second time, in memory and in the file.                      *)
Distinct(q) == \A i, j \in 1..Len(q) : q[i] = q[j] => i = j

BehindHead(q) == \A i, j \in 2..Len(q) : q[i] = q[j] => i = j

OnceQueued ==
  /\ BehindHead(queue) /\ BehindHead(file.queue)
  /\ pc \in {"flight", "raised"} => Distinct(queue)

LEMMA AppendDistinct ==
  ASSUME NEW q \in Seq(Cells), NEW c \in Cells, c \notin Range(q)
  PROVE  /\ BehindHead(q) => BehindHead(Append(q, c))
         /\ Distinct(q) => Distinct(Append(q, c))
<1>1. \A i \in 1..Len(q) : q[i] # c
  BY DEF Range
<1>2. /\ Len(Append(q, c)) = Len(q) + 1 /\ Append(q, c)[Len(q) + 1] = c
      /\ \A i \in 1..Len(q) : Append(q, c)[i] = q[i]
  OBVIOUS
<1>3. Len(q) \in Nat
  OBVIOUS
<1> QED
  BY <1>1, <1>2, <1>3 DEF BehindHead, Distinct

LEMMA ConsDistinct ==
  ASSUME NEW q \in Seq(Cells), NEW c \in Cells, Distinct(q)
  PROVE  BehindHead(<<c>> \o q)
<1>1. PICK r : r = <<c>> \o q
  OBVIOUS
<1>2. Len(r) = Len(q) + 1 /\ \A i \in 2..Len(r) : r[i] = q[i - 1]
  BY <1>1
<1>3. Len(q) \in Nat
  OBVIOUS
<1>4. BehindHead(r)
  BY <1>2, <1>3 DEF BehindHead, Distinct
<1> QED
  BY <1>1, <1>4

LEMMA TailDistinct ==
  ASSUME NEW q \in Seq(Cells), q # <<>>, BehindHead(q)
  PROVE  Distinct(Tail(q)) /\ BehindHead(Tail(q))
<1>1. PICK r : r = Tail(q)
  OBVIOUS
<1>2. Len(r) = Len(q) - 1 /\ \A i \in 1..Len(r) : r[i] = q[i + 1]
  BY <1>1
<1>3. Len(q) \in Nat
  OBVIOUS
<1>4. Distinct(r)
  BY <1>2, <1>3 DEF BehindHead, Distinct
<1>5. BehindHead(r)
  BY <1>2, <1>3, <1>4 DEF BehindHead, Distinct
<1> QED
  BY <1>1, <1>4, <1>5

\* The cells behind the head are different ones of finitely many.
LEMMA QueueIsShort ==
  ASSUME NEW q \in Seq(Cells), BehindHead(q)
  PROVE  Len(q) <= Cardinality(Cells) + 1
<1>1. IsFiniteSet(Cells) /\ Cardinality(Cells) \in Nat /\ Len(q) \in Nat
  BY RemeasureAssumption, FS_CardinalityType
<1>2. CASE Len(q) <= 1
  BY <1>1, <1>2
<1>3. CASE Len(q) > 1
  <2>1. PICK n \in Nat : n = Len(q)
    BY <1>1
  <2>2. PICK f : f = [i \in 2..n |-> q[i]]
    OBVIOUS
  <2>3. f \in Injection(2..n, Cells)
    BY <2>1, <2>2 DEF Injection, IsInjective, BehindHead
  <2>4. Cardinality(2..n) <= Cardinality(Cells)
    BY <1>1, <2>3, FS_Injection
  <2>5. Cardinality(2..n) = n - 1
    BY <1>3, <2>1, FS_Interval
  <2> QED
    BY <1>1, <2>1, <2>4, <2>5
<1> QED
  BY <1>1, <1>2, <1>3

\* What is saved is what is queued, in memory.
LEMMA OnceSaved ==
  ASSUME OnceQueued, BehindHead(queue'), file' = file \/ file' = Snapshot
  PROVE  BehindHead(file'.queue)
BY DEF OnceQueued, Snapshot

\* The queue is not touched, and no cell is newly taken from it.
LEMMA QueueUntouched ==
  ASSUME OnceQueued, queue' = queue, file' = file \/ file' = Snapshot,
         pc' \in {"flight", "raised"} => pc \in {"flight", "raised"}
  PROVE  OnceQueued'
<1>1. BehindHead(file'.queue)
  BY OnceSaved DEF OnceQueued
<1> QED
  BY <1>1 DEF OnceQueued

LEMMA OnceSteps == IInv /\ OnceQueued /\ [Next]_vars => OnceQueued'
<1> SUFFICES ASSUME IInv, OnceQueued, [Next]_vars PROVE OnceQueued'
  OBVIOUS
<1>1. queue \in Seq(Cells) /\ (pc \in {"flight", "raised"} => item \in Cells)
  BY DEF IInv, Carried, MemoryOK, ThreadOK
<1>2. ASSUME NEW c \in Cells, Enqueue(c) PROVE OnceQueued'
  <2>1. /\ c \notin Range(queue) /\ queue' = Append(queue, c) /\ file' = file /\ pc' = pc
    BY <1>2 DEF Enqueue, Queued, files, thread
  <2> QED
    BY <1>1, <2>1, AppendDistinct DEF OnceQueued
<1>3. CASE Clear
  <2>1. queue' = <<>> /\ file' = file
    BY <1>3 DEF Clear, files
  <2> QED
    BY <2>1 DEF OnceQueued, BehindHead, Distinct
<1>4. CASE TakeOne
  <2>1. queue # <<>> /\ queue' = Tail(queue) /\ file' = file
    BY <1>4 DEF TakeOne, files
  <2> QED
    BY <1>1, <2>1, TailDistinct DEF OnceQueued
<1>5. CASE Reinsert
  <2>1. /\ pc = "raised" /\ queue' = <<item>> \o queue /\ pc' \in {"retry", "dead"}
        /\ file' = file \/ file' = Snapshot
    BY <1>5 DEF Reinsert, SaveCheckpoint, Goto, Exit, files
  <2>2. BehindHead(queue')
    BY <1>1, <2>1, ConsDistinct DEF OnceQueued
  <2>3. BehindHead(file'.queue)
    BY <2>1, <2>2, OnceSaved
  <2> QED
    BY <2>1, <2>2, <2>3 DEF OnceQueued
<1>6. CASE Kill
  <2>1. queue' = file.queue /\ file' = file /\ pc' = "dead"
    BY <1>6 DEF Kill, Exit, files
  <2> QED
    BY <2>1 DEF OnceQueued
<1>7. CASE MeasuredAgain \/ FlightFails \/ Explored \/ ExploreFails
  <2>1. queue' = queue /\ (file' = file \/ file' = Snapshot)
    BY <1>7 DEF MeasuredAgain, FlightFails, Explored, ExploreFails, NotReady, Offline, Record,
                SaveCheckpoint, memory, files
  <2>2. pc' \in {"flight", "raised"} => pc \in {"flight", "raised"}
    BY <1>7 DEF MeasuredAgain, FlightFails, Explored, ExploreFails, NotReady, Offline, Goto, Loop
  <2> QED
    BY <2>1, <2>2, QueueUntouched
<1>8. CASE Abandoned \/ ExploreStops \/ Settle \/ SelectProfile
  <2>1. queue' = queue /\ (file' = file \/ file' = Snapshot)
    BY <1>8 DEF Abandoned, ExploreStops, Settle, SelectProfile, SaveCheckpoint, SaveProfile, memory, files
  <2>2. pc' \in {"flight", "raised"} => pc \in {"flight", "raised"}
    BY <1>8 DEF Abandoned, ExploreStops, Settle, SelectProfile, Loop, thread
  <2> QED
    BY <2>1, <2>2, QueueUntouched
<1>9. CASE \/ Start \/ StartDrain \/ Stop \/ CalmDown \/ Explore
           \/ LoopExits \/ DrainDone \/ Retried \/ GivenUp \/ UNCHANGED vars
  <2>1. queue' = queue /\ file' = file
    BY <1>9 DEF Start, StartDrain, Spawn, Stop, CalmDown, Explore, LoopExits, DrainDone, Retried, GivenUp,
                vars, memory, files
  <2>2. pc' \in {"flight", "raised"} => pc \in {"flight", "raised"}
    BY <1>9 DEF Start, StartDrain, Spawn, Stop, CalmDown, Explore, LoopExits, DrainDone, Retried, GivenUp,
                vars, thread, Exit, Loop
  <2> QED
    BY <2>1, <2>2, QueueUntouched
<1> QED
  BY <1>2, <1>3, <1>4, <1>5, <1>6, <1>7, <1>8, <1>9 DEF Next, Worker, Operator

\* What TypeOK says of the rest.
Switches ==
  /\ complete \in BOOLEAN /\ running \in BOOLEAN /\ tuned \in BOOLEAN /\ calm \in BOOLEAN
  /\ worker \in {"none", "tune", "drain"}
  /\ pc \in {"dead", "loop", "flight", "raised", "explore", "retry"}
  /\ item \in Cells \cup {None}

LEMMA SwitchesStay == IInv /\ Switches /\ [Next]_vars => Switches'
<1> SUFFICES ASSUME IInv, Switches, [Next]_vars PROVE Switches'
  OBVIOUS
<1>1. TakeOne => item' \in Cells
  BY RangeOfTail DEF TakeOne, IInv, Carried, MemoryOK
<1>2. CASE TakeOne
  BY <1>1, <1>2 DEF Switches, TakeOne, files
<1>3. CASE Explore \/ MeasuredAgain \/ Abandoned \/ FlightFails \/ Explored \/ ExploreStops \/ ExploreFails
  BY <1>3 DEF Switches, Explore, MeasuredAgain, Abandoned, FlightFails, Explored, ExploreStops, ExploreFails,
              NotReady, Offline, Record, SaveCheckpoint, Loop, Goto, files
<1>4. CASE LoopExits \/ DrainDone \/ Reinsert \/ Retried \/ GivenUp \/ Settle \/ UNCHANGED vars
  BY <1>4 DEF Switches, LoopExits, DrainDone, Reinsert, Retried, GivenUp, Settle, SaveCheckpoint, SaveProfile,
              Exit, Loop, Goto, files, thread, vars
<1>5. CASE (\E c \in Cells : Enqueue(c)) \/ Clear \/ Start \/ StartDrain \/ Stop \/ SelectProfile
  BY <1>5 DEF Switches, Enqueue, Clear, Start, StartDrain, Spawn, Stop, SelectProfile, SaveProfile, files, thread
<1>6. CASE Kill \/ CalmDown
  BY <1>6 DEF Switches, Kill, CalmDown, Exit, files, thread
<1> QED
  BY <1>2, <1>3, <1>4, <1>5, <1>6 DEF Next, Worker, Operator

(* The queue, the surface and the files are well formed throughout, and    *)
(* for any grid the queue holds at most one cell more than the grid has:   *)
(* nothing that fails, is retried or is restored makes it grow.            *)
THEOREM TypeCorrect == Spec => []TypeOK
<1>1. Init => OnceQueued /\ Switches
  <2> SUFFICES ASSUME Init PROVE OnceQueued /\ Switches
    OBVIOUS
  <2>1. queue = <<>> /\ file.queue = <<>> /\ pc = "dead"
    BY DEF Init
  <2>2. Distinct(<<>>) /\ BehindHead(<<>>)
    BY DEF Distinct, BehindHead
  <2>3. OnceQueued
    BY <2>1, <2>2 DEF OnceQueued
  <2>4. Switches
    BY DEF Init, Switches
  <2> QED
    BY <2>3, <2>4
<1>2. IInv /\ OnceQueued /\ Switches => TypeOK
  <2> SUFFICES ASSUME IInv, OnceQueued, Switches PROVE TypeOK
    OBVIOUS
  <2>1. queue \in Seq(Cells) /\ Len(queue) <= Cardinality(Cells) + 1
    BY QueueIsShort DEF IInv, Carried, MemoryOK, OnceQueued
  <2>2. file \in [queue : Seq(Cells), surface : [Cells -> Seq(Entries)]]
    BY DEF IInv, Carried, FileOK, Sound
  <2> QED
    BY <2>1, <2>2 DEF IInv, Carried, MemoryOK, Sound, ThreadOK, PastOK, Switches, TypeOK
<1>3. IInv /\ [Next]_vars => IInv'
  BY NextKeepsInv
<1> QED
  BY <1>1, <1>2, <1>3, InitInv, OnceSteps, SwitchesStay, PTL DEF Spec
=============================================================================
