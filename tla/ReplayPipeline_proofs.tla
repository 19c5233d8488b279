------------------------ MODULE ReplayPipeline_proofs ------------------------
(***************************************************************************)
(* Proofs about ReplayPipeline, for every number of games and saves and    *)
(* every limit of the memory: games that are going on are recorded, what a *)
(* save reports is stored, what is stored is kept, and a game that was     *)
(* removed can be replayed.  And about ReplayViewer, where what is stored  *)
(* is shown: the player stays within its replay, and an interval drives it *)
(* while it plays.                                                         *)
(***************************************************************************)
EXTENDS ReplayPipeline, ReplayViewer, FiniteSetTheorems, TLAPS

-----------------------------------------------------------------------------
(* The memory of the recorder *)

(* Recordings as the recorder keeps them, and those that have events.      *)
Recordings(recs) ==
  /\ IsFiniteSet(DOMAIN recs) /\ DOMAIN recs \subseteq Games
  /\ \A g \in DOMAIN recs : recs[g] \in Recording
Begun(recs) == \A g \in DOMAIN recs : recs[g].events # <<>>

(* manageMemory() has nothing left to do. *)
Tight(recs) ==
  Cardinality(DOMAIN recs) <= MaxReplaysInMemory \/ Inactive(recs) = {}

OlderThan(recs, g) ==
  {h \in Inactive(recs) : startTime(recs[h]) < startTime(recs[g])}
Removed(recs) ==
  {g \in Inactive(recs) :
     Cardinality(OlderThan(recs, g)) < Cardinality(DOMAIN recs) - MaxReplaysInMemory}

(* What manageMemory() keeps is kept as it is, and nothing active goes. *)
LEMMA MemoryKeeps ==
  ASSUME NEW recs
  PROVE  /\ DOMAIN manageMemory(recs) = DOMAIN recs \ Removed(recs)
         /\ \A g \in DOMAIN manageMemory(recs) : manageMemory(recs)[g] = recs[g]
         /\ \A g \in DOMAIN recs : recs[g].isActive => g \in DOMAIN manageMemory(recs)
         /\ Inactive(manageMemory(recs)) = Inactive(recs) \ Removed(recs)
  <1> DEFINE r == manageMemory(recs)
  <1>1. r = Restrict(recs, DOMAIN recs \ Removed(recs))
    BY DEF manageMemory, Removed, OlderThan
  <1>2. Removed(recs) \subseteq Inactive(recs)
    BY DEF Removed
  <1> HIDE DEF r
  <1>3. /\ DOMAIN r = DOMAIN recs \ Removed(recs)
        /\ \A g \in DOMAIN r : r[g] = recs[g]
    BY <1>1 DEF Restrict
  <1>4. \A g \in DOMAIN recs : recs[g].isActive => g \notin Removed(recs)
    BY <1>2 DEF Inactive
  <1>5. Inactive(r) = Inactive(recs) \ Removed(recs)
    BY <1>3 DEF Inactive
  <1>6. \A g \in DOMAIN recs : recs[g].isActive => g \in DOMAIN r
    BY <1>3, <1>4
  <1> QED BY <1>3, <1>5, <1>6 DEF r

(* The order of the starts is a strict one. *)
LEMMA StartTimes ==
  ASSUME NEW recs, Recordings(recs), Begun(recs), NEW g \in DOMAIN recs
  PROVE  startTime(recs[g]) \in Nat
  <1>1. recs[g].events \in Seq(1..MaxSequence) /\ recs[g].events # <<>>
    BY DEF Recordings, Begun, Recording, Events
  <1>2. MaxSequence \in Nat
    BY PipelineAssumption
  <1> QED BY <1>1, <1>2 DEF startTime

(* Among the inactive recordings one is the oldest. *)
LEMMA OldestExists ==
  ASSUME NEW recs, Recordings(recs), Begun(recs), Inactive(recs) # {}
  PROVE  \E g \in Inactive(recs) : OlderThan(recs, g) = {}
  <1> DEFINE S == Inactive(recs)
             F == {OlderThan(recs, g) : g \in S}
             R == StrictSubsetOrdering(S)
  <1>1. IsFiniteSet(S)
    BY FS_Subset DEF Recordings, Inactive
  <1>2. F \subseteq FiniteSubsetsOf(S)
    <2>1. \A g \in S : OlderThan(recs, g) \subseteq S
      BY DEF OlderThan
    <2>2. \A g \in S : IsFiniteSet(OlderThan(recs, g))
      BY <1>1, <2>1, FS_Subset
    <2> QED BY <2>1, <2>2 DEF FiniteSubsetsOf
  <1>3. PICK T \in F : \A U \in F : <<U, T>> \notin R
    <2>1. F # {}
      OBVIOUS
    <2>2. IsWellFoundedOn(R, FiniteSubsetsOf(S))
      BY FS_StrictSubsetOrderingWellFounded
    <2> HIDE DEF F, R
    <2> QED BY <2>1, <2>2, <1>2, WFMin
  <1>4. PICK g \in S : T = OlderThan(recs, g)
    OBVIOUS
  <1>5. ASSUME NEW h \in OlderThan(recs, g) PROVE FALSE
    <2>0. \A x \in S : startTime(recs[x]) \in Nat
      BY StartTimes DEF Inactive
    <2>1. h \in S /\ OlderThan(recs, h) \in F
      BY <1>5 DEF OlderThan
    <2>2. h \notin OlderThan(recs, h)
      BY <2>0, <2>1 DEF OlderThan
    <2>3. OlderThan(recs, h) \subseteq OlderThan(recs, g)
      BY <2>0, <2>1, <1>5 DEF OlderThan
    <2>4. OlderThan(recs, g) \subseteq S
      BY DEF OlderThan
    <2>5. <<OlderThan(recs, h), T>> \in R
      BY <1>4, <1>5, <2>2, <2>3, <2>4 DEF StrictSubsetOrdering
    <2> QED BY <1>3, <2>1, <2>5
  <1> QED BY <1>5

(* Where nothing is too many nothing goes. *)
LEMMA NothingRemoved ==
  ASSUME NEW recs, Recordings(recs), Cardinality(DOMAIN recs) <= MaxReplaysInMemory
  PROVE  Removed(recs) = {}
  <1>1. \A g : IsFiniteSet(OlderThan(recs, g))
    <2>1. \A g : OlderThan(recs, g) \in SUBSET DOMAIN recs
      BY DEF OlderThan, Inactive
    <2> QED BY <2>1, FS_Subset DEF Recordings
  <1>2. \A g : Cardinality(OlderThan(recs, g)) \in Nat
    BY <1>1, FS_CardinalityType
  <1>3. Cardinality(DOMAIN recs) \in Nat
    BY FS_CardinalityType DEF Recordings
  <1> QED BY <1>2, <1>3, PipelineAssumption DEF Removed

(* manageMemory() restores the limit after one event, which adds at most   *)
(* one recording or ends one.                                              *)
LEMMA MemoryTight ==
  ASSUME NEW recs, Recordings(recs), Begun(recs), NEW r, r = manageMemory(recs),
         \/ Cardinality(DOMAIN recs) <= MaxReplaysInMemory + 1
         \/ Inactive(recs) = {}
         \/ \E g : Inactive(recs) = {g}
  PROVE  Recordings(r) /\ Begun(r) /\ Tight(r)
  <1> DEFINE D == DOMAIN recs
             E == DOMAIN r
  <1>1. /\ E = D \ Removed(recs)
        /\ \A g \in E : r[g] = recs[g]
        /\ Inactive(r) = Inactive(recs) \ Removed(recs)
    BY MemoryKeeps
  <1>2. IsFiniteSet(D) /\ IsFiniteSet(E) /\ Cardinality(E) <= Cardinality(D)
    <2>1. E \in SUBSET D
      BY <1>1
    <2> QED BY <2>1, FS_Subset DEF Recordings
  <1>3. Cardinality(D) \in Nat /\ Cardinality(E) \in Nat
    BY <1>2, FS_CardinalityType
  <1>4. Recordings(r) /\ Begun(r)
    BY <1>1, <1>2 DEF Recordings, Begun
  <1>5. CASE Cardinality(D) <= MaxReplaysInMemory
    BY <1>2, <1>3, <1>4, <1>5, PipelineAssumption DEF Tight
  <1>6. CASE Inactive(recs) = {}
    BY <1>1, <1>4, <1>6 DEF Tight
  <1>7. CASE Cardinality(D) > MaxReplaysInMemory /\ Inactive(recs) # {}
    <2>1. PICK g \in Inactive(recs) : OlderThan(recs, g) = {}
      BY <1>7, OldestExists
    <2>2. Cardinality(OlderThan(recs, g)) = 0
      BY <2>1, FS_EmptySet
    <2>3. g \in Removed(recs) /\ g \in D
      BY <1>3, <1>7, <2>2, PipelineAssumption DEF Removed, Inactive
    <2>4. CASE Cardinality(D) <= MaxReplaysInMemory + 1
      <3>1. E \in SUBSET D /\ E # D
        BY <1>1, <2>3
      <3>2. Cardinality(E) # Cardinality(D)
        BY <1>2, <3>1, FS_Subset
      <3> QED BY <1>2, <1>3, <1>4, <2>4, <3>2, PipelineAssumption DEF Tight
    <2>5. CASE \E x : Inactive(recs) = {x}
      <3>1. Inactive(r) = {}
        BY <1>1, <2>3, <2>5
      <3> QED BY <1>4, <3>1 DEF Tight
    <2> QED BY <1>7, <2>4, <2>5
  <1> QED BY <1>3, <1>4, <1>5, <1>6, <1>7, PipelineAssumption

(* An event at the end of a recording. *)
WithEvent(recs, g, n) == [recs EXCEPT ![g].events = Append(@, n)]

LEMMA EventAppended ==
  ASSUME NEW recs, NEW g \in DOMAIN recs, recs[g] \in Recording,
         NEW n \in 1..MaxSequence
  PROVE  /\ DOMAIN WithEvent(recs, g, n) = DOMAIN recs
         /\ \A h \in DOMAIN recs : h # g => WithEvent(recs, g, n)[h] = recs[h]
         /\ WithEvent(recs, g, n)[g] \in Recording
         /\ WithEvent(recs, g, n)[g].events # <<>>
         /\ WithEvent(recs, g, n)[g].isActive = recs[g].isActive
  <1> DEFINE e == recs[g].events
             rec == [recs[g] EXCEPT !.events = Append(e, n)]
             r == WithEvent(recs, g, n)
  <1>1. /\ DOMAIN r = DOMAIN recs /\ r[g] = rec
        /\ \A h \in DOMAIN recs : h # g => r[h] = recs[h]
    BY DEF WithEvent
  <1>2. e \in Seq(1..MaxSequence)
    BY DEF Recording, Events
  <1>3. Append(e, n) \in Seq(1..MaxSequence) /\ Append(e, n) # <<>>
    BY <1>2
  <1> HIDE DEF e
  <1>4. rec \in Recording /\ rec.events = Append(e, n) /\ rec.isActive = recs[g].isActive
    BY <1>3 DEF Recording, Events
  <1> HIDE DEF rec, r
  <1>5. /\ DOMAIN r = DOMAIN recs
        /\ \A h \in DOMAIN recs : h # g => r[h] = recs[h]
        /\ r[g] \in Recording /\ r[g].events # <<>> /\ r[g].isActive = recs[g].isActive
    BY <1>1, <1>3, <1>4
  <1> QED BY <1>5 DEF r

(* The active recordings of recs, except of the games of X, are those of r *)
(* too.                                                                    *)
ActiveKept(recs, r, X) ==
  \A h \in DOMAIN recs \ X :
    recs[h].isActive => h \in DOMAIN r /\ r[h].isActive

(* What the recorder guarantees between two events. *)
Managed(recs) == Recordings(recs) /\ Begun(recs) /\ Tight(recs)

(* The properties of recs with the recording rec put in for g. *)
LEMMA RecordingPut ==
  ASSUME NEW recs, Managed(recs), NEW g \in Games, NEW q,
         DOMAIN q = DOMAIN recs \cup {g},
         \A h \in DOMAIN recs : h # g => q[h] = recs[h],
         q[g] \in Recording, q[g].events # <<>>,
         NEW r, r = manageMemory(q),
         q[g].isActive \/ g \in DOMAIN recs
  PROVE  Managed(r) /\ ActiveKept(recs, r, {g})
  <1>1. /\ IsFiniteSet(DOMAIN q)
        /\ Cardinality(DOMAIN q) <= Cardinality(DOMAIN recs) + 1
        /\ Cardinality(DOMAIN recs) \in Nat
    <2>1. IsFiniteSet(DOMAIN recs)
      BY DEF Managed, Recordings
    <2>2. Cardinality(DOMAIN recs) \in Nat
      BY <2>1, FS_CardinalityType
    <2>3. /\ IsFiniteSet(DOMAIN recs \cup {g})
          /\ Cardinality(DOMAIN recs \cup {g}) =
               IF g \in DOMAIN recs THEN Cardinality(DOMAIN recs)
               ELSE Cardinality(DOMAIN recs) + 1
      BY <2>1, FS_AddElement, Zenon
    <2> QED BY <2>2, <2>3
  <1>2. Recordings(q) /\ Begun(q)
    BY <1>1 DEF Managed, Recordings, Begun
  <1>3. \/ Cardinality(DOMAIN q) <= MaxReplaysInMemory + 1
        \/ Inactive(q) = {} \/ Inactive(q) = {g}
    <2>1. CASE Cardinality(DOMAIN recs) <= MaxReplaysInMemory
      <3>1. Cardinality(DOMAIN q) \in Nat
        BY <1>1, FS_CardinalityType
      <3> QED BY <1>1, <2>1, <3>1, PipelineAssumption
    <2>2. CASE Inactive(recs) = {}
      <3>1. \A h \in DOMAIN q : h # g => q[h].isActive
        BY <2>2 DEF Inactive
      <3>2. CASE q[g].isActive
        BY <3>1, <3>2 DEF Inactive
      <3>3. CASE ~q[g].isActive
        BY <3>1, <3>3 DEF Inactive
      <3> QED BY <3>2, <3>3
    <2> QED BY <2>1, <2>2 DEF Managed, Tight
  <1>4. Managed(r)
    BY <1>2, <1>3, MemoryTight DEF Managed
  <1>5. /\ \A h \in DOMAIN r : r[h] = q[h]
        /\ \A h \in DOMAIN q : q[h].isActive => h \in DOMAIN r
    BY MemoryKeeps
  <1> QED BY <1>4, <1>5 DEF ActiveKept

(* startRecording(): the game is recorded, and so are the others. *)
LEMMA StartRecording ==
  ASSUME NEW g \in Games, Managed(recordings), sequenceCounter + 1 \in 1..MaxSequence,
         NEW r, r = startRecording(recordings, g)
  PROVE  /\ Managed(r) /\ ActiveKept(recordings, r, {g})
         /\ g \in DOMAIN r /\ r[g].isActive
  <1> DEFINE n == sequenceCounter + 1
             new == [events |-> <<>>, isActive |-> TRUE]
             p == Put(recordings, g, new)
             q == WithEvent(p, g, n)
  <1>1. /\ DOMAIN p = DOMAIN recordings \cup {g} /\ p[g] = new
        /\ \A h \in DOMAIN recordings : h # g => p[h] = recordings[h]
    BY DEF Put
  <1>2. new \in Recording /\ new.isActive
    BY DEF Recording, Events
  <1> HIDE DEF p, new
  <1>3. /\ DOMAIN q = DOMAIN p
        /\ \A h \in DOMAIN p : h # g => q[h] = p[h]
        /\ q[g] \in Recording /\ q[g].events # <<>> /\ q[g].isActive
    BY <1>1, <1>2, EventAppended
  <1>4. r = manageMemory(q)
    BY DEF startRecording, recordEvent, WithEvent, p, new
  <1> HIDE DEF q
  <1>5. Managed(r) /\ ActiveKept(recordings, r, {g})
    BY <1>1, <1>3, <1>4, RecordingPut
  <1>6. g \in DOMAIN r /\ r[g] = q[g]
    <2>1. /\ \A h \in DOMAIN r : r[h] = q[h]
          /\ \A h \in DOMAIN q : q[h].isActive => h \in DOMAIN r
      BY <1>4, MemoryKeeps
    <2> QED BY <1>1, <1>3, <2>1
  <1> QED BY <1>3, <1>5, <1>6

(* recordEvent() changes nothing of what is recorded. *)
LEMMA RecordEvent ==
  ASSUME NEW g \in DOMAIN recordings, Managed(recordings),
         sequenceCounter + 1 \in 1..MaxSequence,
         NEW r, r = recordEvent(recordings, g)
  PROVE  Managed(r) /\ ActiveKept(recordings, r, {})
  <1> DEFINE n == sequenceCounter + 1
             q == WithEvent(recordings, g, n)
  <1>0. g \in Games /\ recordings[g] \in Recording
    BY DEF Managed, Recordings
  <1>1. /\ DOMAIN q = DOMAIN recordings
        /\ \A h \in DOMAIN recordings : h # g => q[h] = recordings[h]
        /\ q[g] \in Recording /\ q[g].events # <<>>
        /\ q[g].isActive = recordings[g].isActive
    BY <1>0, EventAppended
  <1>2. r = manageMemory(q)
    BY DEF recordEvent, WithEvent
  <1> HIDE DEF q
  <1>3. Managed(r) /\ ActiveKept(recordings, r, {g})
    BY <1>0, <1>1, <1>2, RecordingPut
  <1>4. q[g].isActive => g \in DOMAIN r /\ r[g] = q[g]
    <2>1. /\ \A h \in DOMAIN r : r[h] = q[h]
          /\ \A h \in DOMAIN q : q[h].isActive => h \in DOMAIN r
      BY <1>2, MemoryKeeps
    <2> QED BY <1>1, <2>1
  <1> QED BY <1>1, <1>3, <1>4 DEF ActiveKept

(* endRecording(): the recording has events, or it is lost because the     *)
(* memory is full of recordings of games that are going on.                *)
LEMMA EndRecording ==
  ASSUME NEW g \in DOMAIN recordings, Managed(recordings),
         sequenceCounter + 1 \in 1..MaxSequence,
         NEW r, r = endRecording(recordings, g)
  PROVE  /\ Managed(r) /\ ActiveKept(recordings, r, {g})
         /\ g \notin DOMAIN r => /\ Cardinality(DOMAIN r) >= MaxReplaysInMemory
                                 /\ Inactive(r) = {}
  <1> DEFINE n == sequenceCounter + 1
             old == recordings[g]
             p == [recordings EXCEPT ![g].isActive = FALSE]
             q == WithEvent(p, g, n)
  <1>0. g \in Games /\ old \in Recording
    BY DEF Managed, Recordings
  <1>1. /\ DOMAIN p = DOMAIN recordings
        /\ \A h \in DOMAIN recordings : h # g => p[h] = recordings[h]
        /\ p[g] = [old EXCEPT !.isActive = FALSE]
    OBVIOUS
  <1> HIDE DEF old
  <1>2. p[g] \in Recording /\ ~p[g].isActive
    BY <1>0, <1>1 DEF Recording
  <1> HIDE DEF p
  <1>3. /\ DOMAIN q = DOMAIN p
        /\ \A h \in DOMAIN p : h # g => q[h] = p[h]
        /\ q[g] \in Recording /\ q[g].events # <<>> /\ ~q[g].isActive
    <2>1. /\ DOMAIN q = DOMAIN p
          /\ \A h \in DOMAIN p : h # g => q[h] = p[h]
          /\ q[g] \in Recording /\ q[g].events # <<>>
          /\ q[g].isActive = p[g].isActive
      <3>1. g \in DOMAIN p /\ p[g] \in Recording /\ n \in 1..MaxSequence
        BY <1>1, <1>2
      <3> HIDE DEF n
      <3> QED BY <3>1, EventAppended
    <2> QED BY <1>2, <2>1
  <1>4. r = manageMemory(q)
    BY DEF endRecording, recordEvent, WithEvent, p
  <1> HIDE DEF q
  <1>5. Managed(r) /\ ActiveKept(recordings, r, {g})
    BY <1>0, <1>1, <1>3, <1>4, RecordingPut
  <1>6. ASSUME g \notin DOMAIN r
        PROVE  Cardinality(DOMAIN r) >= MaxReplaysInMemory /\ Inactive(r) = {}
    <2>1. DOMAIN q = DOMAIN recordings /\ Recordings(q)
      BY <1>1, <1>3 DEF Managed, Recordings
    <2>2. DOMAIN r = DOMAIN q \ Removed(q) /\ Inactive(r) = Inactive(q) \ Removed(q)
      BY <1>4, MemoryKeeps
    <2>3. g \in Removed(q)
      BY <1>6, <2>1, <2>2
    <2>4. ~(Cardinality(DOMAIN recordings) <= MaxReplaysInMemory)
      BY <2>1, <2>3, NothingRemoved
    <2>5. Inactive(recordings) = {}
      BY <2>4 DEF Managed, Tight
    <2>6. Inactive(q) = {g} /\ Removed(q) = {g}
      BY <1>1, <1>3, <2>3, <2>5 DEF Inactive, Removed
    <2>7. /\ Cardinality(DOMAIN r) = Cardinality(DOMAIN recordings) - 1
          /\ Cardinality(DOMAIN recordings) \in Nat
      BY <2>1, <2>2, <2>6, FS_RemoveElement, FS_CardinalityType DEF Managed, Recordings
    <2> QED BY <2>2, <2>4, <2>6, <2>7, PipelineAssumption
  <1> QED BY <1>5, <1>6

-----------------------------------------------------------------------------
(* The collection of the stored replays *)

(* Documents whose analytics count no event that is not there. *)
Stored(reps) ==
  /\ DOMAIN reps \subseteq Games
  /\ \A g \in DOMAIN reps : /\ reps[g] \in Document
                            /\ reps[g].totalEvents <= Len(reps[g].events)

(* r has all that reps has, and events only behind those of reps. *)
Longer(s, t) ==
  /\ Len(s) <= Len(t) /\ SubSeq(t, 1, Len(s)) = s
  /\ Range(s) \subseteq Range(t)
Grows(reps, r) ==
  \A g \in DOMAIN reps : g \in DOMAIN r /\ Longer(reps[g].events, r[g].events)

LEMMA LongerConcat ==
  ASSUME NEW s \in Events, NEW t \in Events
  PROVE  /\ s \o t \in Events /\ Longer(s, s \o t) /\ Longer(s, s)
         /\ Range(t) \subseteq Range(s \o t)
  <1>1. s \in Seq(1..MaxSequence) /\ t \in Seq(1..MaxSequence)
    BY DEF Events
  <1>2. s \o t \in Seq(1..MaxSequence) /\ Len(s \o t) = Len(s) + Len(t)
    BY <1>1
  <1>3. \A i \in 1..Len(s) : (s \o t)[i] = s[i]
    BY <1>1
  <1>4. \A i \in 1..Len(t) : (s \o t)[Len(s) + i] = t[i]
    BY <1>1
  <1>5. /\ DOMAIN s = 1..Len(s) /\ DOMAIN t = 1..Len(t)
        /\ DOMAIN (s \o t) = 1..(Len(s) + Len(t))
        /\ Len(s) \in Nat /\ Len(t) \in Nat
    BY <1>1, <1>2
  <1>6. SubSeq(s \o t, 1, Len(s)) = s
    BY <1>1
  <1>7. SubSeq(s, 1, Len(s)) = s
    BY <1>1
  <1>8. Range(s) \subseteq Range(s \o t)
    <2>1. \A i \in DOMAIN s : i \in DOMAIN (s \o t)
      BY <1>5
    <2> QED BY <1>3, <1>5, <2>1 DEF Range
  <1>9. Range(t) \subseteq Range(s \o t)
    <2>1. \A i \in DOMAIN t : Len(s) + i \in DOMAIN (s \o t)
      BY <1>5
    <2> QED BY <1>4, <1>5, <2>1 DEF Range
  <1> QED BY <1>1, <1>2, <1>5, <1>6, <1>7, <1>8, <1>9 DEF Longer, Events

LEMMA GrowsItself ==
  ASSUME NEW reps, Stored(reps)
  PROVE  Grows(reps, reps)
  BY LongerConcat DEF Stored, Grows, Document

(* The documents after one of them has changed. *)
WithDocument(reps, g, doc) == [reps EXCEPT ![g] = doc]

LEMMA StoredExcept ==
  ASSUME NEW reps, Stored(reps), NEW g \in DOMAIN reps, NEW doc \in Document,
         doc.totalEvents <= Len(doc.events), Longer(reps[g].events, doc.events)
  PROVE  /\ Stored(WithDocument(reps, g, doc))
         /\ Grows(reps, WithDocument(reps, g, doc))
         /\ g \in DOMAIN WithDocument(reps, g, doc)
         /\ WithDocument(reps, g, doc)[g] = doc
  <1> DEFINE r == WithDocument(reps, g, doc)
  <1>1. /\ DOMAIN r = DOMAIN reps /\ r[g] = doc
        /\ \A h \in DOMAIN reps : h # g => r[h] = reps[h]
    BY DEF WithDocument
  <1> HIDE DEF r
  <1>2. Stored(r)
    BY <1>1 DEF Stored
  <1>3. Grows(reps, r)
    BY <1>1, GrowsItself DEF Grows
  <1> QED BY <1>1, <1>2, <1>3 DEF r

-----------------------------------------------------------------------------
(* The invariant *)

CallsInv == DOMAIN calls \subseteq Calls /\ \A c \in DOMAIN calls : calls[c] \in Call

(* What is known of a save that is under way. *)
Underway(k, reps, fs) ==
  /\ k.step \in {"push", "findAgain", "updateAnalytics", "saved"}
       => k.gameId \in DOMAIN reps
  /\ k.step \in {"findAgain", "updateAnalytics", "saved"}
       => Range(k.events) \subseteq Range(reps[k.gameId].events)
  /\ k.step = "updateAnalytics" => k.totalEvents <= Len(reps[k.gameId].events)
  /\ k.file => k.gameId \in fs

AllUnderway == \A c \in DOMAIN calls : Underway(calls[c], replays, files)

(* A removal of g is under way; a save of g that has events is; g is       *)
(* stored somewhere; the recorder has an active recording of g.            *)
Removing(g) ==
  \E c \in DOMAIN calls : calls[c].for = "removeGame" /\ calls[c].gameId = g
Pending(g) == \E c \in DOMAIN calls : calls[c].gameId = g /\ calls[c].events # <<>>
Persisted(g) == g \in DOMAIN replays \cup files
Recorded(g) == g \in DOMAIN recordings /\ recordings[g].isActive

RecorderInv == Managed(recordings) /\ sequenceCounter \in 0..MaxSequence
StorageInv == CallsInv /\ AllUnderway /\ Stored(replays)

(* GoingOnIsRecorded, and the strengthening of RemovedIsReadable: a game   *)
(* that needs a replay is stored, or it will be, or it is still recorded.  *)
GamesInv ==
  /\ \A g \in live : Removing(g) \/ Recorded(g)
  /\ \A g \in Games \ excused : Persisted(g) \/ Pending(g) \/ Recorded(g)

PipelineInv == RecorderInv /\ StorageInv /\ GamesInv

(* The same save a step further. *)
SameSave(k, l) ==
  k.for = l.for /\ k.gameId = l.gameId /\ k.events = l.events /\ k.file = l.file

(* What is known of a save stays true while documents only grow. *)
LEMMA UnderwayKept ==
  ASSUME NEW reps, Stored(reps), NEW r, Stored(r), Grows(reps, r), NEW fs,
         NEW k, k.totalEvents \in Nat, Underway(k, reps, fs)
  PROVE  Underway(k, r, fs)
  <1> DEFINE g == k.gameId
  <1>1. ASSUME g \in DOMAIN reps
        PROVE  /\ g \in DOMAIN r
               /\ Range(reps[g].events) \subseteq Range(r[g].events)
               /\ Len(reps[g].events) <= Len(r[g].events)
    BY <1>1 DEF Grows, Longer
  <1>2. ASSUME g \in DOMAIN reps, k.totalEvents <= Len(reps[g].events)
        PROVE  k.totalEvents <= Len(r[g].events)
    <2>1. Len(reps[g].events) \in Nat /\ Len(r[g].events) \in Nat
      BY <1>1, <1>2 DEF Stored, Document, Events
    <2>2. Len(reps[g].events) <= Len(r[g].events)
      BY <1>1, <1>2
    <2> QED BY <1>2, <2>1, <2>2
  <1> QED BY <1>1, <1>2 DEF Underway

(* A save goes on: which games are being saved does not change. *)
LEMMA SaveMoves ==
  ASSUME StorageInv, NEW c \in DOMAIN calls, NEW k \in Call, SameSave(k, calls[c]),
         calls' = [calls EXCEPT ![c] = k], Underway(k, replays', files),
         Stored(replays'), Grows(replays, replays'), UNCHANGED files
  PROVE  /\ StorageInv'
         /\ \A g : Removing(g)' <=> Removing(g)
         /\ \A g : Pending(g)' <=> Pending(g)
  <1>1. /\ DOMAIN calls' = DOMAIN calls /\ calls'[c] = k
        /\ \A d \in DOMAIN calls : d # c => calls'[d] = calls[d]
    OBVIOUS
  <1>2. CallsInv'
    BY <1>1 DEF StorageInv, CallsInv
  <1>3. ASSUME NEW d \in DOMAIN calls PROVE Underway(calls'[d], replays', files')
    <2>1. CASE d = c
      BY <1>1, <2>1
    <2>2. CASE d # c
      <3>1. Underway(calls[d], replays, files) /\ calls'[d] = calls[d]
        BY <1>1, <2>2 DEF StorageInv, AllUnderway
      <3>2. calls[d].totalEvents \in Nat
        BY DEF StorageInv, CallsInv, Call
      <3> QED BY <3>1, <3>2, UnderwayKept DEF StorageInv
    <2> QED BY <2>1, <2>2
  <1>4. StorageInv'
    BY <1>1, <1>2, <1>3 DEF StorageInv, AllUnderway
  <1>5. \A d \in DOMAIN calls :
          /\ calls'[d].for = calls[d].for /\ calls'[d].gameId = calls[d].gameId
          /\ calls'[d].events = calls[d].events
    BY <1>1 DEF SameSave
  <1> QED BY <1>1, <1>4, <1>5 DEF Removing, Pending

(* A save begins. *)
LEMMA SaveBegins ==
  ASSUME StorageInv, NEW c \in Calls, c \notin DOMAIN calls, NEW k \in Call,
         calls' = Put(calls, c, k), Underway(k, replays, files'),
         files \subseteq files', UNCHANGED replays
  PROVE  /\ StorageInv'
         /\ \A g : Removing(g) => Removing(g)'
         /\ \A g : Pending(g) => Pending(g)'
         /\ k.for = "removeGame" => Removing(k.gameId)'
         /\ k.events # <<>> => Pending(k.gameId)'
  <1>1. /\ DOMAIN calls' = DOMAIN calls \cup {c} /\ calls'[c] = k
        /\ \A d \in DOMAIN calls : calls'[d] = calls[d]
    BY DEF Put
  <1>2. CallsInv'
    BY <1>1 DEF StorageInv, CallsInv
  <1>3. AllUnderway'
    BY <1>1 DEF StorageInv, AllUnderway, Underway
  <1>4. StorageInv'
    BY <1>2, <1>3 DEF StorageInv
  <1> QED BY <1>1, <1>4 DEF Removing, Pending

-----------------------------------------------------------------------------
(* The steps of the recorder and of the controller *)

(* The recordings change, and those of the games that are going on stay    *)
(* active, but perhaps the one of g.                                       *)
LEMMA GamesKept ==
  ASSUME GamesInv, NEW X, ActiveKept(recordings, recordings', X),
         live' \subseteq live \cup X, excused \subseteq excused' \cup X,
         files \subseteq files', DOMAIN replays \subseteq DOMAIN replays',
         \A g : Removing(g) => Removing(g)', \A g : Pending(g) => Pending(g)',
         \A g \in X \cap live' : Removing(g)' \/ Recorded(g)',
         \A g \in X \ excused' : Persisted(g)' \/ Pending(g)' \/ Recorded(g)'
  PROVE  GamesInv'
  <1>1. \A g : g \notin X /\ Recorded(g) => Recorded(g)'
    BY DEF Recorded, ActiveKept
  <1>2. \A g : Persisted(g) => Persisted(g)'
    BY DEF Persisted
  <1>3. \A g \in live' : Removing(g)' \/ Recorded(g)'
    BY <1>1 DEF GamesInv
  <1>4. \A g \in Games \ excused' : Persisted(g)' \/ Pending(g)' \/ Recorded(g)'
    BY <1>1, <1>2 DEF GamesInv
  <1> QED BY <1>3, <1>4 DEF GamesInv

LEMMA CountedEvent ==
  ASSUME RecorderInv, CountEvent
  PROVE  sequenceCounter + 1 \in 1..MaxSequence /\ sequenceCounter' \in 0..MaxSequence
  BY PipelineAssumption DEF RecorderInv, CountEvent

LEMMA SameSaves ==
  ASSUME StorageInv, UNCHANGED <<files, replays, calls>>
  PROVE  StorageInv' /\ \A g : /\ Removing(g) => Removing(g)'
                               /\ Pending(g) => Pending(g)'
  BY DEF StorageInv, CallsInv, AllUnderway, Removing, Pending

LEMMA CreateGameStep ==
  ASSUME PipelineInv, NEW g \in Games, CreateGame(g)
  PROVE  PipelineInv'
  <1>1. /\ sequenceCounter + 1 \in 1..MaxSequence
        /\ sequenceCounter' \in 0..MaxSequence
    BY CountedEvent DEF PipelineInv, CreateGame
  <1>2. recordings' = startRecording(recordings, g)
    BY DEF CreateGame
  <1>3. /\ Managed(recordings') /\ ActiveKept(recordings, recordings', {g})
        /\ Recorded(g)'
    BY <1>1, <1>2, StartRecording DEF PipelineInv, RecorderInv, Recorded
  <1>4. /\ live' = live \cup {g} /\ excused' = excused \ {g}
        /\ UNCHANGED <<files, replays, calls>>
    BY DEF CreateGame
  <1>5. StorageInv' /\ \A h : /\ Removing(h) => Removing(h)'
                              /\ Pending(h) => Pending(h)'
    BY <1>4, SameSaves DEF PipelineInv
  <1>6. GamesInv'
    BY <1>3, <1>4, <1>5, GamesKept DEF PipelineInv
  <1> QED BY <1>1, <1>3, <1>5, <1>6 DEF PipelineInv, RecorderInv

LEMMA HandleGameEventStep ==
  ASSUME PipelineInv, NEW g \in Games, HandleGameEvent(g)
  PROVE  PipelineInv'
  <1>1. /\ sequenceCounter + 1 \in 1..MaxSequence
        /\ sequenceCounter' \in 0..MaxSequence
    BY CountedEvent DEF PipelineInv, HandleGameEvent
  <1>2. g \in DOMAIN recordings /\ recordings' = recordEvent(recordings, g)
    BY DEF HandleGameEvent
  <1>3. Managed(recordings') /\ ActiveKept(recordings, recordings', {})
    BY <1>1, <1>2, RecordEvent DEF PipelineInv, RecorderInv
  <1>4. UNCHANGED <<live, files, replays, calls, excused>>
    BY DEF HandleGameEvent
  <1>5. StorageInv' /\ \A h : /\ Removing(h) => Removing(h)'
                              /\ Pending(h) => Pending(h)'
    BY <1>4, SameSaves DEF PipelineInv
  <1>6. GamesInv'
    BY <1>3, <1>4, <1>5, GamesKept DEF PipelineInv
  <1> QED BY <1>1, <1>3, <1>5, <1>6 DEF PipelineInv, RecorderInv

(* A save that is begun with the events of a recording. *)
LEMMA SaveReplay ==
  ASSUME StorageInv, NEW c \in Calls, c \notin DOMAIN calls, NEW g \in Games,
         NEW for \in {"removeGame", "saveRoute"}, NEW events \in Events,
         saveReplay(c, for, g, events), UNCHANGED replays
  PROVE  /\ StorageInv' /\ files \subseteq files'
         /\ \A h : Removing(h) => Removing(h)'
         /\ \A h : Pending(h) => Pending(h)'
         /\ for = "removeGame" => Removing(g)'
         /\ events # <<>> => Pending(g)'
  <1>1. PICK written \in BOOLEAN :
          /\ saveReplayToFile(g, written)
          /\ calls' = Put(calls, c,
               [step |-> IF replayService THEN "getReplay" ELSE "notSaved",
                for |-> for, gameId |-> g, events |-> events,
                totalEvents |-> 0, file |-> written])
    BY DEF saveReplay
  <1> DEFINE k == [step |-> IF replayService THEN "getReplay" ELSE "notSaved",
                   for |-> for, gameId |-> g, events |-> events,
                   totalEvents |-> 0, file |-> written]
  <1>2. /\ k \in Call /\ k.for = for /\ k.gameId = g /\ k.events = events
        /\ k.step \in {"getReplay", "notSaved"} /\ k.file = written
    BY DEF Call, Step, Request
  <1>3. files \subseteq files' /\ (written => g \in files')
    BY <1>1 DEF saveReplayToFile
  <1>4. calls' = Put(calls, c, k)
    BY <1>1
  <1> HIDE DEF k
  <1>5. Underway(k, replays, files')
    BY <1>2, <1>3 DEF Underway
  <1> QED BY <1>2, <1>3, <1>4, <1>5, SaveBegins

LEMMA SaveNothing ==
  ASSUME StorageInv, NEW c \in Calls, c \notin DOMAIN calls, NEW g \in Games,
         saveNothing(c, g), UNCHANGED replays
  PROVE  /\ StorageInv' /\ files' = files
         /\ \A h : Removing(h) => Removing(h)'
         /\ \A h : Pending(h) => Pending(h)'
         /\ Removing(g)'
  <1> DEFINE k == [step |-> "notSaved", for |-> "removeGame", gameId |-> g,
                   events |-> <<>>, totalEvents |-> 0, file |-> FALSE]
  <1>1. calls' = Put(calls, c, k) /\ files' = files
    BY DEF saveNothing
  <1>2. /\ k \in Call /\ k.for = "removeGame" /\ k.gameId = g
        /\ k.step = "notSaved" /\ ~k.file
    BY DEF Call, Step, Request, Events
  <1> HIDE DEF k
  <1>3. Underway(k, replays, files')
    BY <1>2 DEF Underway
  <1> QED BY <1>1, <1>2, <1>3, SaveBegins

LEMMA RemoveGameStep ==
  ASSUME PipelineInv, NEW c \in Calls, NEW g \in Games, RemoveGame(c, g)
  PROVE  PipelineInv'
  <1>1. /\ sequenceCounter + 1 \in 1..MaxSequence
        /\ sequenceCounter' \in 0..MaxSequence
    BY CountedEvent DEF PipelineInv, RemoveGame
  <1>2. /\ c \notin DOMAIN calls /\ g \in DOMAIN recordings
        /\ recordings' = endRecording(recordings, g)
        /\ UNCHANGED <<live, replays>>
    BY DEF RemoveGame
  <1>3. /\ Managed(recordings') /\ ActiveKept(recordings, recordings', {g})
        /\ g \notin DOMAIN recordings' =>
             /\ Cardinality(DOMAIN recordings') >= MaxReplaysInMemory
             /\ Inactive(recordings') = {}
    BY <1>1, <1>2, EndRecording DEF PipelineInv, RecorderInv
  <1>4. CASE g \in DOMAIN recordings'
    <2>1. recordings'[g].events \in Events /\ recordings'[g].events # <<>>
      BY <1>3, <1>4 DEF Managed, Recordings, Begun, Recording
    <2>2. /\ saveReplay(c, "removeGame", g, recordings'[g].events)
          /\ excused' = excused
      BY <1>4 DEF RemoveGame
    <2>3. /\ StorageInv' /\ files \subseteq files'
          /\ \A h : Removing(h) => Removing(h)'
          /\ \A h : Pending(h) => Pending(h)'
          /\ Removing(g)' /\ Pending(g)'
      BY <1>2, <2>1, <2>2, SaveReplay DEF PipelineInv
    <2>4. GamesInv'
      BY <1>2, <1>3, <2>2, <2>3, GamesKept DEF PipelineInv
    <2> QED BY <1>1, <1>3, <2>3, <2>4 DEF PipelineInv, RecorderInv
  <1>5. CASE g \notin DOMAIN recordings'
    <2>1. saveNothing(c, g) /\ excused' = excused \cup {g}
      BY <1>3, <1>5 DEF RemoveGame
    <2>2. /\ StorageInv' /\ files' = files /\ Removing(g)'
          /\ \A h : Removing(h) => Removing(h)'
          /\ \A h : Pending(h) => Pending(h)'
      BY <1>2, <2>1, SaveNothing DEF PipelineInv
    <2>3. GamesInv'
      BY <1>2, <1>3, <2>1, <2>2, GamesKept DEF PipelineInv
    <2> QED BY <1>1, <1>3, <2>2, <2>3 DEF PipelineInv, RecorderInv
  <1> QED BY <1>4, <1>5

LEMMA NoneLost ==
  ASSUME NEW X
  PROVE  ActiveKept(recordings, recordings, X)
  BY DEF ActiveKept

LEMMA RemoveGameUnrecordedStep ==
  ASSUME PipelineInv, NEW c \in Calls, NEW g \in Games, RemoveGameUnrecorded(c, g)
  PROVE  PipelineInv'
  <1>1. /\ c \notin DOMAIN calls /\ saveNothing(c, g)
        /\ UNCHANGED <<live, recordings, sequenceCounter, replays, excused>>
    BY DEF RemoveGameUnrecorded
  <1>2. /\ StorageInv' /\ files' = files
        /\ \A h : Removing(h) => Removing(h)'
        /\ \A h : Pending(h) => Pending(h)'
    BY <1>1, SaveNothing DEF PipelineInv
  <1>3. GamesInv'
    <2>1. ActiveKept(recordings, recordings', {})
      BY <1>1, NoneLost
    <2> QED BY <1>1, <1>2, <2>1, GamesKept DEF PipelineInv
  <1> QED BY <1>1, <1>2, <1>3 DEF PipelineInv, RecorderInv

LEMMA SaveRouteStep ==
  ASSUME PipelineInv, NEW c \in Calls, NEW g \in Games, SaveRoute(c, g)
  PROVE  PipelineInv'
  <1>1. /\ c \notin DOMAIN calls /\ g \in DOMAIN recordings
        /\ saveReplay(c, "saveRoute", g, recordings[g].events)
        /\ UNCHANGED <<live, recordings, sequenceCounter, replays, excused>>
    BY DEF SaveRoute
  <1>2. recordings[g].events \in Events
    BY <1>1 DEF PipelineInv, RecorderInv, Managed, Recordings, Recording
  <1>3. /\ StorageInv' /\ files \subseteq files'
        /\ \A h : Removing(h) => Removing(h)'
        /\ \A h : Pending(h) => Pending(h)'
    BY <1>1, <1>2, SaveReplay DEF PipelineInv
  <1>4. GamesInv'
    <2>1. ActiveKept(recordings, recordings', {})
      BY <1>1, NoneLost
    <2> QED BY <1>1, <1>3, <2>1, GamesKept DEF PipelineInv
  <1> QED BY <1>1, <1>3, <1>4 DEF PipelineInv, RecorderInv

(* The save of c answers: its game is stored, or both stores have failed. *)
LEMMA AnsweredStep ==
  ASSUME PipelineInv, NEW c \in Calls, Answered(c)
  PROVE  PipelineInv'
  <1> DEFINE k == calls[c]
             g == k.gameId
             X == IF k.for = "removeGame" THEN {g} ELSE {}
  <1>1. /\ c \in DOMAIN calls /\ k.step \in {"saved", "notSaved"}
        /\ UNCHANGED <<recordings, sequenceCounter, files, replays>>
        /\ live' = live \ X
        /\ excused' = IF k.step = "notSaved" /\ ~k.file /\ k.events # <<>>
                      THEN excused \cup {g} ELSE excused
        /\ calls' = Restrict(calls, DOMAIN calls \ {c})
    BY DEF Answered
  <1>2. /\ DOMAIN calls' = DOMAIN calls \ {c}
        /\ \A d \in DOMAIN calls' : calls'[d] = calls[d]
    BY <1>1 DEF Restrict
  <1>3. StorageInv'
    BY <1>1, <1>2 DEF PipelineInv, StorageInv, CallsInv, AllUnderway
  <1>4. Underway(k, replays, files)
    BY <1>1 DEF PipelineInv, StorageInv, AllUnderway
  <1>5. \A h : Removing(h) => Removing(h)' \/ h \in X
    BY <1>2 DEF Removing
  <1>6. \A h : Pending(h) => Pending(h)' \/ (h = g /\ k.events # <<>>)
    BY <1>2 DEF Pending
  <1>7. k.events # <<>> => g \in excused' \/ Persisted(g)
    BY <1>1, <1>4 DEF Underway, Persisted
  <1>8. \A h : /\ Recorded(h) => Recorded(h)'
               /\ Persisted(h) => Persisted(h)'
    BY <1>1 DEF Recorded, Persisted
  <1>9. excused \subseteq excused'
    BY <1>1
  <1>10. \A h \in live' : Removing(h)' \/ Recorded(h)'
    BY <1>1, <1>5, <1>8 DEF PipelineInv, GamesInv
  <1>11. \A h \in Games \ excused' : Persisted(h)' \/ Pending(h)' \/ Recorded(h)'
    BY <1>6, <1>7, <1>8, <1>9 DEF PipelineInv, GamesInv
  <1>12. RecorderInv'
    BY <1>1 DEF PipelineInv, RecorderInv
  <1> QED BY <1>3, <1>10, <1>11, <1>12 DEF PipelineInv, GamesInv

-----------------------------------------------------------------------------
(* The requests to the database *)

(* What a request leaves alone. *)
Elsewhere ==
  UNCHANGED <<live, recordings, sequenceCounter, files, excused>>

(* A save goes to its next step, with a new number of events perhaps. *)
LEMMA RequestStep ==
  ASSUME PipelineInv, NEW c \in DOMAIN calls, NEW step \in Step, NEW n \in Nat,
         calls' = [calls EXCEPT ![c] = [calls[c] EXCEPT !.step = step,
                                                       !.totalEvents = n]],
         Stored(replays'), Grows(replays, replays'), Elsewhere,
         step \in {"push", "findAgain", "updateAnalytics", "saved"}
           => calls[c].gameId \in DOMAIN replays',
         step \in {"findAgain", "updateAnalytics", "saved"}
           => Range(calls[c].events) \subseteq Range(replays'[calls[c].gameId].events),
         step = "updateAnalytics" => n <= Len(replays'[calls[c].gameId].events)
  PROVE  PipelineInv'
  <1> DEFINE l == calls[c]
             k == [l EXCEPT !.step = step, !.totalEvents = n]
  <1>1. l \in Call /\ Underway(l, replays, files)
    BY DEF PipelineInv, StorageInv, CallsInv, AllUnderway
  <1>2. /\ k \in Call /\ SameSave(k, l) /\ k.step = step /\ k.totalEvents = n
        /\ k.gameId = l.gameId /\ k.events = l.events /\ k.file = l.file
    BY <1>1 DEF Call, SameSave
  <1>3. calls' = [calls EXCEPT ![c] = k] /\ UNCHANGED files
    BY DEF Elsewhere
  <1>4. Underway(k, replays', files)
    <2>1. l.file => l.gameId \in files
      BY <1>1 DEF Underway
    <2> HIDE DEF k
    <2> QED BY <1>2, <2>1 DEF Underway
  <1> HIDE DEF k
  <1>5. /\ StorageInv'
        /\ \A g : Removing(g)' <=> Removing(g)
        /\ \A g : Pending(g)' <=> Pending(g)
    BY <1>2, <1>3, <1>4, SaveMoves DEF PipelineInv
  <1>6. GamesInv'
    <2>1. ActiveKept(recordings, recordings', {})
      BY NoneLost DEF Elsewhere
    <2>2. DOMAIN replays \subseteq DOMAIN replays'
      BY DEF Grows
    <2>3. live' = live /\ files' = files /\ excused' = excused
      BY DEF Elsewhere
    <2> QED BY <1>5, <2>1, <2>2, <2>3, GamesKept DEF PipelineInv
  <1> QED BY <1>5, <1>6 DEF PipelineInv, RecorderInv, Elsewhere

(* The same for the steps that Goto() takes. *)
LEMMA GotoStep ==
  ASSUME PipelineInv, NEW c \in DOMAIN calls, NEW step \in Step \ {"updateAnalytics"},
         Goto(c, step), Stored(replays'), Grows(replays, replays'), Elsewhere,
         step \in {"push", "findAgain", "saved"}
           => calls[c].gameId \in DOMAIN replays',
         step \in {"findAgain", "saved"}
           => Range(calls[c].events) \subseteq Range(replays'[calls[c].gameId].events)
  PROVE  PipelineInv'
  <1> DEFINE l == calls[c]
             n == l.totalEvents
  <1>1. l \in Call
    BY DEF PipelineInv, StorageInv, CallsInv
  <1>2. n \in Nat
    BY <1>1 DEF Call
  <1>3. [l EXCEPT !.step = step] = [l EXCEPT !.step = step, !.totalEvents = n]
    BY <1>1 DEF Call
  <1>4. calls' = [calls EXCEPT ![c] = [l EXCEPT !.step = step]]
    BY DEF Goto
  <1>5. calls' = [calls EXCEPT ![c] = [l EXCEPT !.step = step, !.totalEvents = n]]
    BY <1>3, <1>4
  <1> HIDE DEF n
  <1> QED BY <1>2, <1>5, RequestStep

(* What the three writing requests make of the collection. *)
LEMMA CreatedStored ==
  ASSUME PipelineInv, NEW c \in DOMAIN calls
  PROVE  /\ Stored(Created(c)) /\ Grows(replays, Created(c))
         /\ Created(c) # replays =>
              /\ calls[c].gameId \in DOMAIN Created(c)
              /\ Range(calls[c].events)
                   \subseteq Range(Created(c)[calls[c].gameId].events)
  <1> DEFINE g == calls[c].gameId
             doc == [events |-> calls[c].events, totalEvents |-> Len(calls[c].events)]
             r == Put(replays, g, doc)
  <1>1. Stored(replays) /\ calls[c].events \in Events /\ g \in Games
    BY DEF PipelineInv, StorageInv, CallsInv, Call
  <1>2. CASE g \in DOMAIN replays
    BY <1>1, <1>2, GrowsItself DEF Created
  <1>3. CASE g \notin DOMAIN replays
    <2>1. /\ DOMAIN r = DOMAIN replays \cup {g} /\ r[g] = doc
          /\ \A h \in DOMAIN replays : r[h] = replays[h]
      BY <1>3 DEF Put
    <2>2. Len(calls[c].events) \in Nat
      BY <1>1 DEF Events
    <2>3. doc \in Document /\ doc.totalEvents <= Len(doc.events)
      BY <1>1, <2>2 DEF Document
    <2>4. doc.events = calls[c].events
      OBVIOUS
    <2>5. Created(c) = r
      BY <1>3 DEF Created
    <2> HIDE DEF r, doc
    <2>6. Stored(r)
      BY <1>1, <2>1, <2>3 DEF Stored
    <2>7. Grows(replays, r)
      BY <1>1, <2>1, GrowsItself DEF Grows
    <2> QED BY <2>1, <2>4, <2>5, <2>6, <2>7
  <1> QED BY <1>2, <1>3

LEMMA PushedStored ==
  ASSUME PipelineInv, NEW c \in DOMAIN calls, calls[c].step = "push"
  PROVE  /\ Stored(Pushed(c)) /\ Grows(replays, Pushed(c))
         /\ calls[c].gameId \in DOMAIN Pushed(c)
         /\ Range(calls[c].events)
              \subseteq Range(Pushed(c)[calls[c].gameId].events)
  <1> DEFINE g == calls[c].gameId
             old == replays[g]
             doc == [old EXCEPT !.events = @ \o calls[c].events]
  <1>1. /\ Stored(replays) /\ g \in DOMAIN replays /\ calls[c].events \in Events
    BY DEF PipelineInv, StorageInv, CallsInv, AllUnderway, Underway, Call
  <1>2. old \in Document /\ old.totalEvents <= Len(old.events)
    BY <1>1 DEF Stored
  <1>3. Pushed(c) = WithDocument(replays, g, doc)
    BY DEF Pushed, WithDocument
  <1> HIDE DEF old
  <1>4. /\ old.events \o calls[c].events \in Events
        /\ Longer(old.events, old.events \o calls[c].events)
        /\ Range(calls[c].events) \subseteq Range(old.events \o calls[c].events)
    BY <1>1, <1>2, LongerConcat DEF Document
  <1>5. /\ doc \in Document /\ doc.events = old.events \o calls[c].events
        /\ doc.totalEvents = old.totalEvents
    BY <1>2, <1>4 DEF Document
  <1> HIDE DEF doc
  <1>6. doc.totalEvents <= Len(doc.events)
    <2>1. /\ old.totalEvents \in Nat /\ Len(old.events) \in Nat
          /\ Len(doc.events) \in Nat
      BY <1>2, <1>5 DEF Document, Events
    <2>2. Len(old.events) <= Len(doc.events)
      BY <1>4, <1>5 DEF Longer
    <2>3. old.totalEvents <= Len(old.events) /\ doc.totalEvents = old.totalEvents
      BY <1>2, <1>5
    <2> QED BY <2>1, <2>2, <2>3
  <1>7. Longer(replays[g].events, doc.events)
    BY <1>4, <1>5 DEF old
  <1>8. /\ Stored(Pushed(c)) /\ Grows(replays, Pushed(c))
        /\ g \in DOMAIN Pushed(c) /\ Pushed(c)[g] = doc
    <2>1. doc \in Document
      BY <1>5
    <2> QED BY <1>1, <1>3, <1>6, <1>7, <2>1, StoredExcept
  <1> QED BY <1>4, <1>5, <1>8

LEMMA CountedStored ==
  ASSUME PipelineInv, NEW c \in DOMAIN calls, calls[c].step = "updateAnalytics"
  PROVE  /\ Stored(Counted(c)) /\ Grows(replays, Counted(c))
         /\ calls[c].gameId \in DOMAIN Counted(c)
         /\ Range(calls[c].events)
              \subseteq Range(Counted(c)[calls[c].gameId].events)
  <1> DEFINE g == calls[c].gameId
             old == replays[g]
             doc == [old EXCEPT !.totalEvents = calls[c].totalEvents]
  <1>1. /\ Stored(replays) /\ g \in DOMAIN replays
        /\ calls[c].totalEvents \in Nat
        /\ Range(calls[c].events) \subseteq Range(old.events)
        /\ calls[c].totalEvents <= Len(old.events)
    BY DEF PipelineInv, StorageInv, CallsInv, AllUnderway, Underway, Call
  <1>2. old \in Document
    BY <1>1 DEF Stored
  <1>3. Counted(c) = WithDocument(replays, g, doc)
    BY DEF Counted, WithDocument
  <1> HIDE DEF old
  <1>4. /\ doc \in Document /\ doc.events = old.events
        /\ doc.totalEvents = calls[c].totalEvents
    BY <1>1, <1>2 DEF Document
  <1> HIDE DEF doc
  <1>5. Longer(old.events, doc.events)
    BY <1>2, <1>4, LongerConcat DEF Document
  <1>6. Longer(replays[g].events, doc.events) /\ doc.totalEvents <= Len(doc.events)
    BY <1>1, <1>4, <1>5 DEF old
  <1>7. /\ Stored(Counted(c)) /\ Grows(replays, Counted(c))
        /\ g \in DOMAIN Counted(c) /\ Counted(c)[g] = doc
    BY <1>1, <1>3, <1>4, <1>6, StoredExcept
  <1> QED BY <1>1, <1>4, <1>7

LEMMA ExecuteStep ==
  ASSUME PipelineInv, NEW c \in Calls, Execute(c)
  PROVE  PipelineInv' /\ Grows(replays, replays')
  <1>0. Grows(replays, replays) /\ Stored(replays)
    BY GrowsItself DEF PipelineInv, StorageInv
  <1>1. /\ c \in DOMAIN calls /\ Elsewhere
        /\ calls[c] \in Call /\ Underway(calls[c], replays, files)
    BY DEF Execute, GetReplay, CreateReplay, AddEvents, Push, FindAgain,
           UpdateAnalytics, Requested, Elsewhere, PipelineInv, StorageInv,
           CallsInv, AllUnderway
  <1>2. CASE GetReplay(c)
    <2>1. PICK step \in {"notSaved", "addEvents", "createReplay"} : Goto(c, step)
      BY <1>2 DEF GetReplay
    <2>2. replays' = replays
      BY <1>2 DEF GetReplay
    <2> QED BY <1>0, <1>1, <2>1, <2>2, GotoStep DEF Step, Request
  <1>3. CASE CreateReplay(c)
    <2>1. /\ replays' = Created(c)
          /\ Goto(c, IF replays' = replays THEN "notSaved" ELSE "saved")
      BY <1>3 DEF CreateReplay
    <2>2. CASE replays' = replays
      BY <1>0, <1>1, <2>1, <2>2, GotoStep DEF Step
    <2>3. CASE replays' # replays
      BY <1>1, <2>1, <2>3, CreatedStored, GotoStep DEF Step
    <2> QED BY <2>2, <2>3
  <1>4. CASE AddEvents(c)
    <2>1. /\ replays' = replays
          /\ Goto(c, IF calls[c].gameId \in DOMAIN replays THEN "push" ELSE "notSaved")
      BY <1>4 DEF AddEvents
    <2> QED BY <1>0, <1>1, <2>1, GotoStep DEF Step, Request
  <1>5. CASE Push(c)
    <2>1. calls[c].step = "push" /\ replays' = Pushed(c) /\ Goto(c, "findAgain")
      BY <1>5 DEF Push, Requested
    <2> QED BY <1>1, <2>1, PushedStored, GotoStep DEF Step, Request
  <1>6. CASE FindAgain(c)
    <2> DEFINE n == Len(replays[calls[c].gameId].events)
    <2>1. /\ calls[c].step = "findAgain" /\ replays' = replays
          /\ calls' = [calls EXCEPT ![c].step = "updateAnalytics",
                                    ![c].totalEvents = n]
      BY <1>6 DEF FindAgain, Requested, generateAnalytics
    <2>2. /\ calls[c].gameId \in DOMAIN replays
          /\ Range(calls[c].events) \subseteq Range(replays[calls[c].gameId].events)
      BY <1>1, <2>1 DEF Underway
    <2>3. n \in Nat
      BY <1>0, <2>2 DEF Stored, Document, Events
    <2>4. calls' = [calls EXCEPT ![c] = [calls[c] EXCEPT
                      !.step = "updateAnalytics", !.totalEvents = n]]
      BY <1>1, <2>1
    <2>5. n <= Len(replays'[calls[c].gameId].events)
      BY <2>1, <2>3
    <2> HIDE DEF n
    <2>6. "updateAnalytics" \in Step
      BY DEF Step, Request
    <2>7. Stored(replays') /\ Grows(replays, replays')
      BY <1>0, <2>1
    <2>8. /\ calls[c].gameId \in DOMAIN replays'
          /\ Range(calls[c].events) \subseteq Range(replays'[calls[c].gameId].events)
      BY <2>1, <2>2
    <2> QED BY <1>1, <2>3, <2>4, <2>5, <2>6, <2>7, <2>8, RequestStep
  <1>7. CASE UpdateAnalytics(c)
    <2>1. /\ calls[c].step = "updateAnalytics" /\ replays' = Counted(c)
          /\ Goto(c, "saved")
      BY <1>7 DEF UpdateAnalytics, Requested
    <2> QED BY <1>1, <2>1, CountedStored, GotoStep DEF Step, Request
  <1> QED BY <1>2, <1>3, <1>4, <1>5, <1>6, <1>7 DEF Execute

(* A request fails, executed or not. *)
LEMMA FailureStep ==
  ASSUME PipelineInv, NEW c \in Calls, RequestFails(c) \/ AnswerLost(c)
  PROVE  PipelineInv' /\ Grows(replays, replays')
  <1>0. Grows(replays, replays) /\ Stored(replays)
    BY GrowsItself DEF PipelineInv, StorageInv
  <1>1. c \in DOMAIN calls /\ Elsewhere /\ Goto(c, "notSaved")
    BY DEF RequestFails, AnswerLost, Requested, Elsewhere
  <1>2. \/ replays' = replays \/ replays' = Created(c)
        \/ calls[c].step = "push" /\ replays' = Pushed(c)
        \/ calls[c].step = "updateAnalytics" /\ replays' = Counted(c)
    BY DEF RequestFails, AnswerLost, Requested
  <1>3. Stored(replays') /\ Grows(replays, replays')
    BY <1>0, <1>1, <1>2, CreatedStored, PushedStored, CountedStored
  <1> QED BY <1>1, <1>3, GotoStep DEF Step

-----------------------------------------------------------------------------
(* The theorems *)

LEMMA PipelineInvStep ==
  ASSUME PipelineInv, [Next]_vars
  PROVE  PipelineInv' /\ Grows(replays, replays')
  <1>0. Grows(replays, replays)
    BY GrowsItself DEF PipelineInv, StorageInv
  <1>1. ASSUME UNCHANGED pipelineVars PROVE PipelineInv'
    <2>1. RecorderInv' /\ StorageInv'
      BY <1>1 DEF pipelineVars, PipelineInv, RecorderInv, StorageInv, CallsInv,
                  AllUnderway
    <2>2. GamesInv'
      BY <1>1 DEF pipelineVars, PipelineInv, GamesInv, Removing, Pending,
                  Persisted, Recorded
    <2> QED BY <2>1, <2>2 DEF PipelineInv
  <1>2. CASE UNCHANGED vars \/ Connect \/ ConnectFails \/ Disconnected \/ Reconnected
    <2>1. UNCHANGED pipelineVars /\ replays' = replays
      BY <1>2 DEF vars, pipelineVars, Connect, ConnectFails, Disconnected, Reconnected
    <2> QED BY <1>0, <1>1, <2>1
  <1>3. ASSUME NEW g \in Games, CreateGame(g) \/ HandleGameEvent(g)
        PROVE  PipelineInv' /\ Grows(replays, replays')
    <2>1. replays' = replays
      BY <1>3 DEF CreateGame, HandleGameEvent
    <2> QED BY <1>0, <1>3, <2>1, CreateGameStep, HandleGameEventStep
  <1>4. ASSUME NEW c \in Calls, NEW g \in Games,
               RemoveGame(c, g) \/ RemoveGameUnrecorded(c, g) \/ SaveRoute(c, g)
        PROVE  PipelineInv' /\ Grows(replays, replays')
    <2>1. replays' = replays
      BY <1>4 DEF RemoveGame, RemoveGameUnrecorded, SaveRoute
    <2> QED BY <1>0, <1>4, <2>1, RemoveGameStep, RemoveGameUnrecordedStep, SaveRouteStep
  <1>5. ASSUME NEW c \in Calls, Answered(c)
        PROVE  PipelineInv' /\ Grows(replays, replays')
    <2>1. replays' = replays
      BY <1>5 DEF Answered
    <2> QED BY <1>0, <1>5, <2>1, AnsweredStep
  <1> QED BY <1>2, <1>3, <1>4, <1>5, ExecuteStep, FailureStep DEF Next

(* The invariant that the theorems rest on. *)
LEMMA Invariant == Spec => []PipelineInv
  <1>1. Init => PipelineInv
    <2> SUFFICES ASSUME Init PROVE PipelineInv
      OBVIOUS
    <2>1. /\ DOMAIN recordings = {} /\ DOMAIN replays = {} /\ DOMAIN calls = {}
          /\ live = {} /\ excused = Games /\ sequenceCounter = 0
      BY DEF Init, Nothing
    <2>2. Managed(recordings)
      <3>1. Inactive(recordings) = {} /\ IsFiniteSet(DOMAIN recordings)
        BY <2>1, FS_EmptySet DEF Inactive
      <3> QED BY <2>1, <3>1 DEF Managed, Recordings, Begun, Tight
    <2>3. RecorderInv
      BY <2>1, <2>2, PipelineAssumption DEF RecorderInv
    <2>4. StorageInv
      BY <2>1 DEF StorageInv, CallsInv, AllUnderway, Stored
    <2>5. GamesInv
      BY <2>1 DEF GamesInv
    <2> QED BY <2>3, <2>4, <2>5 DEF PipelineInv
  <1>2. PipelineInv /\ [Next]_vars => PipelineInv'
    BY PipelineInvStep
  <1> QED BY <1>1, <1>2, PTL DEF Spec

(* manageMemory() never takes a recording away from a game that is going   *)
(* on, however small the memory is and in whatever order games begin and   *)
(* end.                                                                    *)
THEOREM GoingOnStaysRecorded == Spec => []GoingOnIsRecorded
  <1>1. PipelineInv => GoingOnIsRecorded
    BY DEF PipelineInv, GamesInv, Removing, Recorded, GoingOnIsRecorded
  <1> QED BY <1>1, Invariant, PTL

(* A game that was recorded and removed is found by a reader once its      *)
(* saves are over, unless both stores failed or the memory was full of     *)
(* games going on when it ended: what manageMemory() drops has been saved. *)
THEOREM RemovedStaysReadable == Spec => []RemovedIsReadable
  <1>1. PipelineInv => RemovedIsReadable
    BY DEF PipelineInv, GamesInv, Pending, Persisted, Recorded, RemovedIsReadable,
           getReplayFromAnySource
  <1> QED BY <1>1, Invariant, PTL

(* A save that reports mongoSuccess has stored every event of its          *)
(* recording, whichever saves of the same game ran between its requests.   *)
THEOREM ReportsAreTrue == Spec => []ReportedIsStored
  <1>1. PipelineInv => ReportedIsStored
    BY DEF PipelineInv, StorageInv, AllUnderway, Underway, ReportedIsStored
  <1> QED BY <1>1, Invariant, PTL

(* The step that StoredIsKept speaks of. *)
KeepsStored ==
  \A g \in DOMAIN replays :
    /\ g \in DOMAIN replays'
    /\ SubSeq(replays'[g].events, 1, Len(replays[g].events)) = replays[g].events
    /\ replays'[g].totalEvents <= Len(replays'[g].events)

(* Stored events are neither lost nor reordered, and the analytics never   *)
(* count an event that is not there, although they are computed from what  *)
(* was read two requests earlier.                                          *)
THEOREM StoredStays == Spec => StoredIsKept
  <1>1. PipelineInv /\ [Next]_vars => [KeepsStored]_vars
    <2> SUFFICES ASSUME PipelineInv, [Next]_vars PROVE KeepsStored
      OBVIOUS
    <2>1. Stored(replays') /\ Grows(replays, replays')
      BY PipelineInvStep DEF PipelineInv, StorageInv
    <2> QED BY <2>1 DEF KeepsStored, Stored, Grows, Longer
  <1> QED BY <1>1, Invariant, PTL DEF Spec, StoredIsKept, KeepsStored

-----------------------------------------------------------------------------
(* The viewer of the replays in the dashboard *)

(* The fetches under way, of every replay the first, the second, and so on. *)
Fetches == UNION {{r} \X (1..loading[r]) : r \in Replays}

(* Every fetch and every set of listeners but the first goes back to a     *)
(* click.                                                                  *)
ClicksInv ==
  /\ cached \subseteq Replays
  /\ clicks \in Nat /\ clicks <= MaxClicks
  /\ loading \in [Replays -> Nat] /\ \A r \in Replays : loading[r] <= clicks
  /\ IsFiniteSet(Fetches)
  /\ listeners \in Nat \ {0} /\ listeners + Cardinality(Fetches) <= clicks + 1

(* The indices a player of the replay r may be at. *)
Indices(r) == {i \in Nat : i <= EventCount[r] - 1 \/ i = 0}

(* Playing takes an interval. *)
PlayerInv ==
  /\ intervals \in Nat
  /\ replayPlayer # NoPlayer =>
       /\ replayPlayer \in [gameId : Replays, currentEventIndex : Nat,
                            isPlaying : BOOLEAN]
       /\ replayPlayer.currentEventIndex \in Indices(replayPlayer.gameId)
       /\ replayPlayer.isPlaying => intervals > 0

ViewerInv == ClicksInv /\ PlayerInv

(* The greater and the smaller of two numbers. *)
LEMMA MaxOfTwo ==
  ASSUME NEW a \in Int, NEW b \in Int
  PROVE  /\ Max({a, b}) = IF a >= b THEN a ELSE b
         /\ Min({a, b}) = IF a <= b THEN a ELSE b
  BY DEF Max, Min

(* Where the steps, the slider and the list put the player: an index of    *)
(* the replay, the first one if it is empty.                               *)
LEMMA IndexInReplay ==
  ASSUME NEW r \in Replays
  PROVE  /\ EventCount[r] \in Nat /\ 0 \in Indices(r)
         /\ Indices(r) = 0..Max({0, EventCount[r] - 1})
         /\ \A x \in Int :
              Max({0, Min({x, EventCount[r] - 1})}) \in Indices(r)
         /\ \A i \in Indices(r), x \in Int :
              Max({i, Min({x, EventCount[r] - 1})}) \in Indices(r)
         /\ \A i \in Indices(r), n \in Nat : Max({i - n, 0}) \in Indices(r)
  <1> DEFINE last == EventCount[r] - 1
  <1>1. EventCount[r] \in Nat
    BY ViewerAssumption
  <1>2. last \in Int /\ last >= -1
    BY <1>1
  <1>3. Indices(r) = {i \in Nat : i <= last \/ i = 0}
    BY DEF Indices
  <1> HIDE DEF last
  <1>4. Max({0, last}) = IF 0 >= last THEN 0 ELSE last
    BY <1>2, MaxOfTwo
  <1>5. Indices(r) = 0..Max({0, last})
    BY <1>2, <1>3, <1>4
  <1>6. ASSUME NEW x \in Int, NEW i \in Indices(r)
        PROVE  Max({i, Min({x, last})}) \in Indices(r)
    <2> DEFINE y == Min({x, last})
    <2>1. y = IF x <= last THEN x ELSE last
      BY <1>2, MaxOfTwo
    <2>2. y \in Int /\ y <= last
      BY <1>2, <2>1
    <2> HIDE DEF y
    <2>3. i \in Int
      BY <1>3
    <2>4. Max({i, y}) = IF i >= y THEN i ELSE y
      BY <2>2, <2>3, MaxOfTwo
    <2> QED BY <1>2, <1>3, <2>2, <2>4 DEF y
  <1>7. 0 \in Indices(r)
    BY <1>3
  <1>8. ASSUME NEW i \in Indices(r), NEW n \in Nat
        PROVE  Max({i - n, 0}) \in Indices(r)
    <2> DEFINE y == i - n
    <2>1. y \in Int /\ i \in Nat /\ y <= i
      BY <1>3
    <2> HIDE DEF y
    <2>2. Max({y, 0}) = IF y >= 0 THEN y ELSE 0
      BY <2>1, MaxOfTwo
    <2> QED BY <1>2, <1>3, <2>1, <2>2 DEF y
  <1> QED BY <1>1, <1>5, <1>6, <1>7, <1>8 DEF last

(* A fetch more. *)
LEMMA FetchMore ==
  ASSUME ClicksInv, NEW r \in Replays,
         loading' = [loading EXCEPT ![r] = @ + 1]
  PROVE  IsFiniteSet(Fetches') /\ Cardinality(Fetches') = Cardinality(Fetches) + 1
  <1> DEFINE new == <<r, loading[r] + 1>>
  <1>1. Fetches' = Fetches \cup {new} /\ new \notin Fetches
    BY DEF ClicksInv, Fetches
  <1> HIDE DEF new
  <1>2. IsFiniteSet(Fetches)
    BY DEF ClicksInv
  <1>3. /\ IsFiniteSet(Fetches \cup {new})
        /\ Cardinality(Fetches \cup {new}) = Cardinality(Fetches) + 1
    BY <1>1, <1>2, FS_AddElement, Zenon
  <1> QED BY <1>1, <1>3, Zenon

(* A fetch less. *)
LEMMA FetchLess ==
  ASSUME ClicksInv, NEW r \in Replays, loading[r] > 0,
         loading' = [loading EXCEPT ![r] = @ - 1]
  PROVE  IsFiniteSet(Fetches') /\ Cardinality(Fetches') = Cardinality(Fetches) - 1
  <1> DEFINE old == <<r, loading[r]>>
  <1>1. /\ loading \in [Replays -> Nat] /\ loading[r] \in 1..loading[r]
        /\ 1..(loading[r] - 1) = (1..loading[r]) \ {loading[r]}
    BY DEF ClicksInv
  <1>2. /\ \A s \in Replays \ {r} : loading'[s] = loading[s]
        /\ loading'[r] = loading[r] - 1
    BY <1>1
  <1>3. Fetches' = Fetches \ {old} /\ old \in Fetches
    BY <1>1, <1>2 DEF Fetches
  <1> HIDE DEF old
  <1>4. IsFiniteSet(Fetches)
    BY DEF ClicksInv
  <1>5. /\ IsFiniteSet(Fetches \ {old})
        /\ Cardinality(Fetches \ {old}) = Cardinality(Fetches) - 1
    BY <1>3, <1>4, FS_RemoveElement, Zenon
  <1> QED BY <1>3, <1>5, Zenon

(* A click that fetches nothing and sets up no listeners. *)
LEMMA OtherClick ==
  ASSUME ClicksInv, Click,
         UNCHANGED <<cached, loading, listeners>>
  PROVE  ClicksInv'
  <1>1. Fetches' = Fetches
    BY DEF Fetches
  <1>2. Cardinality(Fetches) \in Nat
    BY FS_CardinalityType DEF ClicksInv
  <1>3. MaxClicks \in Nat
    BY ViewerAssumption
  <1> QED BY <1>1, <1>2, <1>3 DEF ClicksInv, Click

(* A replay is shown from its start. *)
LEMMA InitializedPlayer ==
  ASSUME PlayerInv, NEW r \in Replays,
         initializeReplayPlayer(r), UNCHANGED intervals
  PROVE  PlayerInv'
  <1>1. 0 \in Indices(r)
    BY IndexInReplay
  <1>2. replayPlayer' = [gameId |-> r, currentEventIndex |-> 0, isPlaying |-> FALSE]
    BY DEF initializeReplayPlayer
  <1>3. Indices(r)' = Indices(r)
    BY DEF Indices
  <1> QED BY <1>1, <1>2, <1>3 DEF PlayerInv

LEMMA OpenStep ==
  ASSUME ViewerInv, NEW r \in Replays,
         OpenReplayViewer(r)
  PROVE  ViewerInv'
  <1>1. /\ clicks < MaxClicks /\ clicks' = clicks + 1
        /\ UNCHANGED <<cached, intervals>>
    BY DEF OpenReplayViewer, Click
  <1>2. Cardinality(Fetches) \in Nat
    BY FS_CardinalityType DEF ViewerInv, ClicksInv
  <1>3. MaxClicks \in Nat
    BY ViewerAssumption
  <1>4. CASE r \in cached
    <2>1. initializeReplayPlayer(r) /\ UNCHANGED loading
      BY <1>4 DEF OpenReplayViewer
    <2>2. listeners' = listeners + 1 /\ Fetches' = Fetches
      BY <2>1 DEF initializeReplayPlayer, Fetches
    <2>3. ClicksInv'
      BY <1>1, <1>2, <1>3, <2>1, <2>2 DEF ViewerInv, ClicksInv
    <2> QED BY <1>1, <2>1, <2>3, InitializedPlayer DEF ViewerInv
  <1>5. CASE r \notin cached
    <2>1. /\ loading' = [loading EXCEPT ![r] = @ + 1]
          /\ UNCHANGED <<replayPlayer, listeners>>
      BY <1>5 DEF OpenReplayViewer
    <2>2. IsFiniteSet(Fetches') /\ Cardinality(Fetches') = Cardinality(Fetches) + 1
      BY <2>1, FetchMore DEF ViewerInv
    <2>3. loading' \in [Replays -> Nat] /\ \A s \in Replays : loading'[s] <= clicks'
      BY <1>1, <2>1 DEF ViewerInv, ClicksInv
    <2>4. ClicksInv'
      BY <1>1, <1>2, <1>3, <2>1, <2>2, <2>3 DEF ViewerInv, ClicksInv
    <2>5. PlayerInv'
      BY <1>1, <2>1 DEF ViewerInv, PlayerInv, Indices
    <2> QED BY <2>4, <2>5 DEF ViewerInv
  <1> QED BY <1>4, <1>5

LEMMA AnswerStep ==
  ASSUME ViewerInv, NEW r \in Replays,
         Loaded(r) \/ LoadFails(r)
  PROVE  ViewerInv'
  <1>1. /\ loading[r] > 0 /\ loading' = [loading EXCEPT ![r] = @ - 1]
        /\ UNCHANGED <<cached, intervals, clicks>>
    BY DEF Loaded, LoadFails
  <1>2. Cardinality(Fetches) \in Nat
    BY FS_CardinalityType DEF ViewerInv, ClicksInv
  <1>3. IsFiniteSet(Fetches') /\ Cardinality(Fetches') = Cardinality(Fetches) - 1
    BY <1>1, FetchLess DEF ViewerInv
  <1>4. loading' \in [Replays -> Nat] /\ \A s \in Replays : loading'[s] <= clicks'
    BY <1>1 DEF ViewerInv, ClicksInv
  <1>5. listeners' \in {listeners, listeners + 1}
    BY DEF Loaded, LoadFails, initializeReplayPlayer
  <1>6. ClicksInv'
    BY <1>1, <1>2, <1>3, <1>4, <1>5 DEF ViewerInv, ClicksInv
  <1>7. CASE Loaded(r)
    BY <1>1, <1>6, <1>7, InitializedPlayer DEF ViewerInv, Loaded
  <1>8. CASE LoadFails(r)
    <2>1. UNCHANGED <<replayPlayer, intervals>>
      BY <1>8 DEF LoadFails
    <2>2. PlayerInv'
      BY <2>1 DEF ViewerInv, PlayerInv, Indices
    <2> QED BY <1>6, <2>2 DEF ViewerInv
  <1> QED BY <1>7, <1>8

(* The list of the replays changes what is cached only. *)
LEMMA ListStep ==
  ASSUME ViewerInv,
         \/ LoadReplays
         \/ \E r \in Replays : LoadReplayMetadata(r)
  PROVE  ViewerInv'
  <1>1. /\ UNCHANGED <<loading, listeners, replayPlayer, intervals, clicks>>
        /\ cached' \subseteq Replays
    BY DEF LoadReplays, LoadReplayMetadata, ViewerInv, ClicksInv
  <1>2. Fetches' = Fetches
    BY <1>1 DEF Fetches
  <1>3. ClicksInv'
    BY <1>1, <1>2 DEF ViewerInv, ClicksInv
  <1>4. PlayerInv'
    BY <1>1 DEF ViewerInv, PlayerInv, Indices
  <1> QED BY <1>3, <1>4 DEF ViewerInv

(* Whatever the controls do, they leave the rest alone. *)
LEMMA ControlKeeps ==
  ASSUME ViewerInv, Control
  PROVE  /\ ClicksInv'
         /\ replayPlayer # NoPlayer
         /\ replayPlayer \in [gameId : Replays, currentEventIndex : Nat,
                              isPlaying : BOOLEAN]
         /\ replayPlayer.gameId \in Replays
         /\ replayPlayer.currentEventIndex \in Indices(replayPlayer.gameId)
  <1>1. ClicksInv'
    BY OtherClick DEF ViewerInv, Control
  <1> QED BY <1>1 DEF ViewerInv, PlayerInv, Control

(* An odd number of toggles starts a last interval that is not ended. *)
LEMMA ToggleStep ==
  ASSUME ViewerInv, ToggleReplayPlayback
  PROVE  ViewerInv'
  <1> DEFINE p == replayPlayer
             n == (IF p.isPlaying THEN listeners ELSE listeners + 1) \div 2
  <1>1. /\ ClicksInv' /\ p # NoPlayer /\ p.gameId \in Replays
        /\ p \in [gameId : Replays, currentEventIndex : Nat, isPlaying : BOOLEAN]
        /\ p.currentEventIndex \in Indices(p.gameId)
    BY ControlKeeps DEF ToggleReplayPlayback
  <1>2. /\ p' = [p EXCEPT !.isPlaying = IF listeners % 2 = 1 THEN ~@ ELSE @]
        /\ intervals' = intervals + n
    BY DEF ToggleReplayPlayback
  <1>3. listeners \in Nat \ {0} /\ intervals \in Nat
        /\ (p.isPlaying => intervals > 0)
    BY <1>1 DEF ViewerInv, ClicksInv, PlayerInv
  <1>4. n \in Nat /\ (~p.isPlaying /\ listeners % 2 = 1 => n > 0)
    BY <1>1, <1>3
  <1> HIDE DEF n
  <1>5. p'.isPlaying => intervals' > 0
    BY <1>1, <1>2, <1>3, <1>4
  <1>6. /\ p' \in [gameId : Replays, currentEventIndex : Nat, isPlaying : BOOLEAN]
        /\ p'.gameId = p.gameId /\ p'.currentEventIndex = p.currentEventIndex
    BY <1>1, <1>2
  <1>7. PlayerInv'
    BY <1>1, <1>2, <1>3, <1>4, <1>5, <1>6 DEF PlayerInv, Indices
  <1> QED BY <1>1, <1>7 DEF ViewerInv

(* The player goes to an index of its replay. *)
LEMMA SeekStep ==
  ASSUME ViewerInv, Control,
         NEW i \in Indices(replayPlayer.gameId),
         Seek(i)
  PROVE  ViewerInv'
  <1> DEFINE p == replayPlayer
  <1>1. /\ ClicksInv' /\ p # NoPlayer /\ p.gameId \in Replays
        /\ p \in [gameId : Replays, currentEventIndex : Nat, isPlaying : BOOLEAN]
    BY ControlKeeps
  <1>2. p' = [p EXCEPT !.currentEventIndex = i] /\ UNCHANGED intervals
    BY DEF Seek
  <1>3. i \in Nat
    BY DEF Indices
  <1>4. /\ p' \in [gameId : Replays, currentEventIndex : Nat, isPlaying : BOOLEAN]
        /\ p'.gameId = p.gameId /\ p'.currentEventIndex = i
        /\ p'.isPlaying = p.isPlaying
    BY <1>1, <1>2, <1>3
  <1>5. PlayerInv'
    BY <1>1, <1>2, <1>4 DEF ViewerInv, PlayerInv, Indices
  <1> QED BY <1>1, <1>5 DEF ViewerInv

(* The steps, the slider and the list seek within the replay. *)
LEMMA SeeksStep ==
  ASSUME ViewerInv,
         \/ StepReplayForward
         \/ StepReplayBackward
         \/ \E percent \in Percents : SeekToProgress(percent)
         \/ \E i \in Int : SeekToEvent(i)
  PROVE  ViewerInv'
  <1> DEFINE p == replayPlayer
             at == p.currentEventIndex
             count == EventCount[p.gameId]
  <1>1. Control
    BY DEF StepReplayForward, StepReplayBackward,
           SeekToProgress, SeekToEvent
  <1>2. p.gameId \in Replays /\ at \in Indices(p.gameId)
    BY <1>1, ControlKeeps
  <1>3. /\ count \in Nat
        /\ \A x \in Int : Max({0, Min({x, count - 1})}) \in Indices(p.gameId)
        /\ \A x \in Int : Max({at, Min({x, count - 1})}) \in Indices(p.gameId)
        /\ \A n \in Nat : Max({at - n, 0}) \in Indices(p.gameId)
    BY <1>2, IndexInReplay
  <1>4. listeners \in Nat /\ at \in Nat
    BY <1>2 DEF ViewerInv, ClicksInv, Indices
  <1>5. LastIndex = count - 1
    BY DEF LastIndex
  <1>6. \E i \in Indices(p.gameId) : Seek(i)
    <2>1. CASE StepReplayForward
      <3>1. at + listeners \in Int
        BY <1>4
      <3> QED BY <1>3, <1>5, <2>1, <3>1 DEF StepReplayForward
    <2>2. CASE StepReplayBackward
      BY <1>3, <1>4, <2>2 DEF StepReplayBackward
    <2>3. CASE \E percent \in Percents : SeekToProgress(percent)
      <3>1. PICK percent \in Percents : SeekToProgress(percent)
        BY <2>3
      <3>2. percent \in Int /\ count - 1 \in Int
        BY <1>3, ViewerAssumption
      <3> DEFINE y == count - 1
      <3>3. (percent * y) \div 100 \in Int
        <4> DEFINE z == percent * y
        <4>1. z \in Int
          BY <3>2
        <4> HIDE DEF z
        <4>2. z \div 100 \in Int
          BY <4>1
        <4> QED BY <4>2 DEF z
      <3> QED BY <1>3, <1>5, <3>1, <3>3 DEF SeekToProgress
    <2>4. CASE \E i \in Int : SeekToEvent(i)
      BY <1>3, <1>5, <2>4 DEF SeekToEvent
    <2> QED BY <2>1, <2>2, <2>3, <2>4
  <1> QED BY <1>1, <1>6, SeekStep

(* Neither a replay that starts again nor a closed viewer is playing. *)
LEMMA RestartStep ==
  ASSUME ViewerInv,
         RestartReplay \/ CloseReplayViewer
  PROVE  ViewerInv'
  <1> DEFINE p == replayPlayer
  <1>1. Control /\ UNCHANGED intervals
    BY DEF RestartReplay, CloseReplayViewer
  <1>2. /\ ClicksInv' /\ p # NoPlayer /\ p.gameId \in Replays
        /\ p \in [gameId : Replays, currentEventIndex : Nat, isPlaying : BOOLEAN]
    BY <1>1, ControlKeeps
  <1>3. CASE CloseReplayViewer
    BY <1>1, <1>2, <1>3 DEF CloseReplayViewer, ViewerInv, PlayerInv
  <1>4. CASE RestartReplay
    <2>1. p' = [p EXCEPT !.currentEventIndex = 0, !.isPlaying = FALSE]
      BY <1>4 DEF RestartReplay
    <2>2. /\ p' \in [gameId : Replays, currentEventIndex : Nat, isPlaying : BOOLEAN]
          /\ p'.gameId = p.gameId /\ p'.currentEventIndex = 0 /\ p'.isPlaying = FALSE
      BY <1>2, <2>1
    <2>3. PlayerInv'
      BY <1>1, <2>2 DEF ViewerInv, PlayerInv, Indices
    <2> QED BY <1>2, <2>3 DEF ViewerInv
  <1> QED BY <1>3, <1>4

(* An interval ends only when it finds its player paused or at the end,    *)
(* and then the player is not playing any more.                            *)
LEMMA FireStep ==
  ASSUME ViewerInv, IntervalFires
  PROVE  ViewerInv'
  <1> DEFINE p == replayPlayer
             last == EventCount[p.gameId] - 1
  <1>1. /\ intervals > 0 /\ p # NoPlayer
        /\ UNCHANGED <<cached, loading, listeners, clicks>>
    BY DEF IntervalFires
  <1>2. ClicksInv'
    BY <1>1 DEF ViewerInv, ClicksInv, Fetches
  <1>3. /\ p \in [gameId : Replays, currentEventIndex : Nat, isPlaying : BOOLEAN]
        /\ p.currentEventIndex \in Indices(p.gameId) /\ p.gameId \in Replays
        /\ intervals \in Nat
    BY <1>1 DEF ViewerInv, PlayerInv
  <1>4. EventCount[p.gameId] \in Nat
    BY <1>3, IndexInReplay
  <1>5. CASE ~p.isPlaying
    <2>1. p' = p /\ intervals' = intervals - 1
      BY <1>5 DEF IntervalFires
    <2>2. PlayerInv'
      BY <1>1, <1>3, <1>5, <2>1 DEF PlayerInv, Indices
    <2> QED BY <1>2, <2>2 DEF ViewerInv
  <1>6. CASE p.isPlaying /\ p.currentEventIndex >= last
    <2>1. p' = [p EXCEPT !.isPlaying = FALSE] /\ intervals' = intervals - 1
      BY <1>6 DEF IntervalFires, LastIndex
    <2>2. /\ p' \in [gameId : Replays, currentEventIndex : Nat, isPlaying : BOOLEAN]
          /\ p'.gameId = p.gameId /\ p'.currentEventIndex = p.currentEventIndex
          /\ p'.isPlaying = FALSE
      BY <1>3, <2>1
    <2>3. PlayerInv'
      BY <1>1, <1>3, <2>1, <2>2 DEF PlayerInv, Indices
    <2> QED BY <1>2, <2>3 DEF ViewerInv
  <1>7. CASE p.isPlaying /\ ~(p.currentEventIndex >= last)
    <2>1. p' = [p EXCEPT !.currentEventIndex = @ + 1] /\ intervals' = intervals
      BY <1>7 DEF IntervalFires, LastIndex
    <2>2. /\ p' \in [gameId : Replays, currentEventIndex : Nat, isPlaying : BOOLEAN]
          /\ p'.gameId = p.gameId /\ p'.currentEventIndex = p.currentEventIndex + 1
          /\ p'.isPlaying = p.isPlaying
      BY <1>3, <2>1
    <2>3. p.currentEventIndex + 1 \in Indices(p.gameId)
      BY <1>3, <1>4, <1>7 DEF Indices
    <2>4. PlayerInv'
      BY <1>1, <1>3, <2>1, <2>2, <2>3 DEF PlayerInv, Indices
    <2> QED BY <1>2, <2>4 DEF ViewerInv
  <1> QED BY <1>5, <1>6, <1>7

LEMMA ViewerInvariant == ViewerSpec => []ViewerInv
  <1>1. ViewerInit => ViewerInv
    <2> SUFFICES ASSUME ViewerInit PROVE ViewerInv
      OBVIOUS
    <2>1. /\ cached = {} /\ loading = [r \in Replays |-> 0] /\ listeners = 1
          /\ replayPlayer = NoPlayer /\ intervals = 0 /\ clicks = 0
      BY DEF ViewerInit
    <2>2. Fetches = {}
      BY <2>1 DEF Fetches
    <2>3. IsFiniteSet({}) /\ Cardinality({}) = 0
      BY FS_EmptySet
    <2>4. MaxClicks \in Nat
      BY ViewerAssumption
    <2> QED BY <2>1, <2>2, <2>3, <2>4 DEF ViewerInv, ClicksInv, PlayerInv
  <1>2. ViewerInv /\ [ViewerNext]_viewerVars => ViewerInv'
    <2> SUFFICES ASSUME ViewerInv, [ViewerNext]_viewerVars PROVE ViewerInv'
      OBVIOUS
    <2>1. CASE UNCHANGED viewerVars
      BY <2>1 DEF viewerVars, ViewerInv, ClicksInv, PlayerInv, Fetches, Indices
    <2>2. CASE \E r \in Replays : \E i \in 0..(EventCount[r] - 1) : SeekToEvent(i)
      <3>1. PICK r \in Replays : \E i \in 0..(EventCount[r] - 1) : SeekToEvent(i)
        BY <2>2
      <3>2. EventCount[r] \in Nat
        BY IndexInReplay
      <3>3. \E i \in Int : SeekToEvent(i)
        BY <3>1, <3>2
      <3> QED BY <3>3, SeeksStep
    <2> QED BY <2>1, <2>2, OpenStep, AnswerStep, ListStep, ToggleStep, SeeksStep,
               RestartStep, FireStep DEF ViewerNext
  <1> QED BY <1>1, <1>2, PTL DEF ViewerSpec

(* The type invariant of the viewer: clicks bound the fetches and the      *)
(* listeners, and the player is within its replay.                         *)
THEOREM ViewerTypeCorrect == ViewerSpec => []ViewerTypeOK
  <1>1. ViewerInv => ViewerTypeOK
    <2> SUFFICES ASSUME ViewerInv PROVE ViewerTypeOK
      OBVIOUS
    <2>1. MaxClicks \in Nat /\ Cardinality(Fetches) \in Nat
      BY FS_CardinalityType, ViewerAssumption DEF ViewerInv, ClicksInv
    <2>2. /\ loading \in [Replays -> 0..MaxClicks] /\ clicks \in 0..MaxClicks
          /\ listeners \in 1..(MaxClicks + 1) /\ cached \subseteq Replays
      BY <2>1 DEF ViewerInv, ClicksInv
    <2>3. CASE replayPlayer = NoPlayer
      BY <2>2, <2>3 DEF ViewerInv, PlayerInv, ViewerTypeOK
    <2>4. CASE replayPlayer # NoPlayer
      <3>1. /\ replayPlayer \in [gameId : Replays, currentEventIndex : Nat,
                                 isPlaying : BOOLEAN]
            /\ replayPlayer.gameId \in Replays
            /\ replayPlayer.currentEventIndex \in Indices(replayPlayer.gameId)
        BY <2>4 DEF ViewerInv, PlayerInv
      <3>2. Indices(replayPlayer.gameId)
              = 0..Max({0, EventCount[replayPlayer.gameId] - 1})
        BY <3>1, IndexInReplay
      <3>3. intervals \in Nat
        BY DEF ViewerInv, PlayerInv
      <3> QED BY <2>2, <3>1, <3>2, <3>3 DEF ViewerTypeOK
    <2> QED BY <2>3, <2>4
  <1> QED BY <1>1, ViewerInvariant, PTL

(* Whatever replays are opened over one another, however often the         *)
(* listeners are set up and whichever intervals are left over, a player    *)
(* that plays has an interval.                                             *)
THEOREM PlayingIsDriven == ViewerSpec => []PlayingHasInterval
  <1>1. ViewerInv => PlayingHasInterval
    BY DEF ViewerInv, PlayerInv, PlayingHasInterval
  <1> QED BY <1>1, ViewerInvariant, PTL

=============================================================================
