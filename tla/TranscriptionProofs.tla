------------------------- MODULE TranscriptionProofs -------------------------
(***************************************************************************)
(* What Transcription promises for any packets, chunks, windows and        *)
(* utterances, any number of connections and any size of upload.           *)
(***************************************************************************)
EXTENDS Transcription, SequenceTheorems, FiniteSetTheorems, WellFoundedInduction, TLAPS

-----------------------------------------------------------------------------
(* Audio is counted: what follows the a-th unit without a gap, what is in  *)
(* the order of the stream, and what ends before the n-th.                 *)
Run(s, a)   == s \in Seq(Nat) /\ \A i \in 1..Len(s) : s[i] = a + i
Rising(s)   == \A i, j \in 1..Len(s) : i < j => s[i] < s[j]
Below(s, n) == \A i \in 1..Len(s) : s[i] <= n

LEMMA RunUnits ==
  ASSUME NEW a \in Nat, NEW b \in Nat, a <= b
  PROVE  Run(Units(a, b), a) /\ Len(Units(a, b)) = b - a
<1>1. Units(a,b) \in Seq(Nat)
  BY DEF Units
<1>2. Len(Units(a,b)) = b - a
  BY DEF Units
<1> QED BY <1>1, <1>2 DEF Units, Run

LEMMA RunConcat ==
  ASSUME NEW a \in Nat, NEW s, NEW t, Run(s, a), Run(t, a + Len(s))
  PROVE  Run(s \o t, a) /\ Len(s \o t) = Len(s) + Len(t)
BY DEF Run

LEMMA RunPrefix ==
  ASSUME NEW a \in Nat, NEW s, Run(s, a), NEW n \in 0..Len(s)
  PROVE  Run(SubSeq(s, 1, n), a) /\ Len(SubSeq(s, 1, n)) = n
BY DEF Run

LEMMA RunFrom ==
  ASSUME NEW a \in Nat, NEW s, Run(s, a), NEW n \in 0..Len(s)
  PROVE  Run(From(s, n), a + n) /\ Len(From(s, n)) = Len(s) - n
BY DEF Run, From

LEMMA RisingRun ==
  ASSUME NEW s \in Seq(Nat), NEW n \in Nat, NEW m \in Nat, NEW t, Rising(s), Below(s, n),
         Run(t, m), n <= m
  PROVE  Rising(s \o t) /\ Below(s \o t, m + Len(t))
<1>1. t \in Seq(Nat) /\ Len(s) \in Nat /\ Len(t) \in Nat /\ \A i \in 1..Len(t) : t[i] = m + i
  BY DEF Run
<1>2. /\ Len(s \o t) = Len(s) + Len(t)
      /\ \A i \in 1..(Len(s) + Len(t)) :
           (s \o t)[i] = IF i <= Len(s) THEN s[i] ELSE t[i - Len(s)]
  BY <1>1, ConcatProperties
<1>3. \A i \in 1..Len(s) : s[i] \in Nat /\ s[i] <= n
  BY DEF Below
<1>4. \A i \in 1..(Len(s) + Len(t)) :
        IF i <= Len(s) THEN (s \o t)[i] = s[i] ELSE (s \o t)[i] = m + (i - Len(s))
  BY <1>1, <1>2
<1>5. Below(s \o t, m + Len(t))
  BY <1>1, <1>2, <1>3, <1>4 DEF Below
<1>6. ASSUME NEW i \in 1..Len(s \o t), NEW j \in 1..Len(s \o t), i < j
      PROVE  (s \o t)[i] < (s \o t)[j]
  <2>1. CASE j <= Len(s)
    BY <1>1, <1>2, <1>4, <1>6, <2>1 DEF Rising
  <2>2. CASE i <= Len(s) /\ j > Len(s)
    BY <1>1, <1>2, <1>3, <1>4, <2>2
  <2>3. CASE i > Len(s)
    BY <1>1, <1>2, <1>4, <1>6, <2>3
  <2> QED BY <1>1, <1>2, <2>1, <2>2, <2>3
<1> QED BY <1>5, <1>6 DEF Rising

LEMMA SetOfConcat ==
  ASSUME NEW s \in Seq(Nat), NEW t \in Seq(Nat)
  PROVE  ToSet(s \o t) = ToSet(s) \cup ToSet(t)
<1>1. /\ Len(s) \in Nat /\ Len(t) \in Nat /\ DOMAIN s = 1..Len(s) /\ DOMAIN t = 1..Len(t)
      /\ DOMAIN (s \o t) = 1..(Len(s) + Len(t))
      /\ \A i \in 1..(Len(s) + Len(t)) :
           (s \o t)[i] = IF i <= Len(s) THEN s[i] ELSE t[i - Len(s)]
  BY ConcatProperties, LenProperties
<1>2. ASSUME NEW x \in ToSet(s \o t) PROVE x \in ToSet(s) \cup ToSet(t)
  <2>1. PICK i \in 1..(Len(s) + Len(t)) : x = (s \o t)[i]
    BY <1>1 DEF ToSet
  <2>2. CASE i <= Len(s)
    BY <1>1, <2>1, <2>2 DEF ToSet
  <2>3. CASE i > Len(s)
    <3>1. i - Len(s) \in 1..Len(t) /\ x = t[i - Len(s)]
      BY <1>1, <2>1, <2>3
    <3> QED BY <1>1, <3>1 DEF ToSet
  <2> QED BY <1>1, <2>2, <2>3
<1>3. ASSUME NEW x \in ToSet(s) PROVE x \in ToSet(s \o t)
  <2>1. PICK i \in 1..Len(s) : x = s[i]
    BY <1>1 DEF ToSet
  <2>2. i \in 1..(Len(s) + Len(t)) /\ (s \o t)[i] = x
    BY <1>1, <2>1
  <2> QED BY <1>1, <2>2 DEF ToSet
<1>4. ASSUME NEW x \in ToSet(t) PROVE x \in ToSet(s \o t)
  <2>1. PICK i \in 1..Len(t) : x = t[i]
    BY <1>1 DEF ToSet
  <2>2. i + Len(s) \in 1..(Len(s) + Len(t)) /\ (s \o t)[i + Len(s)] = x
    BY <1>1, <2>1
  <2> QED BY <1>1, <2>2 DEF ToSet
<1> QED BY <1>2, <1>3, <1>4

LEMMA SetOfRun ==
  ASSUME NEW a \in Nat, NEW s, Run(s, a)
  PROVE  (a + 1)..(a + Len(s)) \subseteq ToSet(s)
<1>1. s \in Seq(Nat) /\ Len(s) \in Nat /\ DOMAIN s = 1..Len(s) /\ \A i \in 1..Len(s) : s[i] = a + i
  BY DEF Run
<1> SUFFICES ASSUME NEW x \in (a + 1)..(a + Len(s)) PROVE x \in ToSet(s)
  OBVIOUS
<1>2. x - a \in 1..Len(s) /\ s[x - a] = x
  BY <1>1
<1> QED BY <1>1, <1>2 DEF ToSet

-----------------------------------------------------------------------------
(* The streaming session.  What has been received and not yet gathered is  *)
(* one run of the stream, cut in three: the windows to be judged, what is  *)
(* less than a window and what is less than a chunk.                       *)
Reached == IF vadEnabled THEN judged ELSE received - Len(audioBuffer)

SessionTypeOK ==
  /\ vadEnabled \in BOOLEAN /\ active \in BOOLEAN
  /\ received \in Nat /\ judged \in Nat /\ Reached \in Nat
  /\ past \in Seq(Nat) /\ utterance \in Seq(Nat)

Pipeline ==
  /\ Run(windows, Reached)
  /\ Run(vadBuffer, Reached + Len(windows))
  /\ Run(audioBuffer, Reached + Len(windows) + Len(vadBuffer))
  /\ received = Reached + Len(windows) + Len(vadBuffer) + Len(audioBuffer)
  /\ ~vadEnabled => windows = <<>> /\ vadBuffer = <<>>
  /\ \E k \in 0..Len(windows) : Len(windows) = k * WindowUnits

(* Where the task can be with something in the windows, in the buffer and  *)
(* in the utterance.                                                       *)
Places ==
  /\ windows # <<>> => step \in {"windows", "final"}
  /\ step \in {"tail", "last", "closing", "ended"} => audioBuffer = <<>>
  /\ step \in {"connect", "load", "vad"} => audioBuffer = <<>> /\ utterance = <<>>
  /\ step \in {"closing", "ended"} => utterance = <<>>
  /\ ~active => utterance = <<>>

Gathered == past \o utterance

InOrder == Rising(Gathered) /\ Below(Gathered, Reached)

(* Without a VAD everything up to the front is speech.                     *)
SpeechGathered ==
  /\ vadEnabled => speech \subseteq ToSet(Gathered)
  /\ ~vadEnabled => 1..Reached \subseteq ToSet(Gathered) /\ speech \subseteq 1..received

SessionInv == SessionTypeOK /\ Pipeline /\ Places /\ InOrder /\ SpeechGathered

LEMMA TypesOfRuns ==
  ASSUME SessionInv
  PROVE  /\ Reached \in Nat /\ Len(windows) \in Nat /\ Len(vadBuffer) \in Nat
         /\ Len(audioBuffer) \in Nat /\ WindowUnits \in Nat \ {0} /\ ChunkUnits \in Nat \ {0}
         /\ windows \in Seq(Nat) /\ vadBuffer \in Seq(Nat) /\ audioBuffer \in Seq(Nat)
<1>1. Reached \in Nat /\ windows \in Seq(Nat) /\ vadBuffer \in Seq(Nat) /\ audioBuffer \in Seq(Nat)
  BY DEF SessionInv, SessionTypeOK, Pipeline, Run
<1>2. WindowUnits \in Nat \ {0} /\ ChunkUnits \in Nat \ {0}
  BY StreamingAssumption
<1> QED BY <1>1, <1>2

(* What comes next in the stream is gathered in order.                     *)
LEMMA GatherNext ==
  ASSUME SessionInv, NEW piece, Run(piece, Reached), past' = past, utterance' = utterance \o piece
  PROVE  /\ utterance' \in Seq(Nat)
         /\ Rising(Gathered') /\ Below(Gathered', Reached + Len(piece))
         /\ ToSet(Gathered') = ToSet(Gathered) \cup ToSet(piece)
         /\ (Reached + 1)..(Reached + Len(piece)) \subseteq ToSet(Gathered')
<1>1. /\ past \in Seq(Nat) /\ utterance \in Seq(Nat) /\ piece \in Seq(Nat) /\ Reached \in Nat
      /\ Rising(Gathered) /\ Below(Gathered, Reached)
  BY DEF SessionInv, SessionTypeOK, InOrder, Run
<1>2. Gathered' = Gathered \o piece /\ Gathered \in Seq(Nat) /\ utterance' \in Seq(Nat)
  <2>1. utterance \o piece \in Seq(Nat) /\ past \o utterance \in Seq(Nat)
    BY <1>1, ConcatProperties
  <2>2. past \o (utterance \o piece) = (past \o utterance) \o piece
    <3>1. \A s, t, u \in Seq(Nat) : (s \o t) \o u = s \o (t \o u)
      BY ConcatAssociative
    <3>2. past \in Seq(Nat) /\ utterance \in Seq(Nat) /\ piece \in Seq(Nat)
      BY <1>1
    <3> QED BY <3>1, <3>2
  <2> QED BY <2>1, <2>2 DEF Gathered
<1>3. ToSet(Gathered') = ToSet(Gathered) \cup ToSet(piece)
  BY <1>1, <1>2, SetOfConcat
<1>4. (Reached + 1)..(Reached + Len(piece)) \subseteq ToSet(piece)
  BY <1>1, SetOfRun
<1>5. Rising(Gathered \o piece) /\ Below(Gathered \o piece, Reached + Len(piece))
  BY <1>1, <1>2, RisingRun
<1> QED BY <1>2, <1>3, <1>4, <1>5

(* Most steps leave what is gathered and where the front is.               *)
LEMMA SameStream ==
  ASSUME SessionInv, UNCHANGED <<vadEnabled, buffers, received, speech>>,
         Gathered' = Gathered, past' \in Seq(Nat), utterance' \in Seq(Nat), active' \in BOOLEAN,
         Places'
  PROVE  SessionInv'
<1>1. Reached' = Reached
  BY DEF Reached, buffers
<1>2. SessionTypeOK'
  BY <1>1 DEF SessionInv, SessionTypeOK, buffers
<1>3. Pipeline'
  BY <1>1 DEF SessionInv, Pipeline, buffers
<1>4. InOrder' /\ SpeechGathered'
  BY <1>1 DEF SessionInv, InOrder, SpeechGathered
<1> QED BY <1>2, <1>3, <1>4 DEF SessionInv

LEMMA MovesOnKeep ==
  ASSUME SessionInv, Connect \/ LoadModel \/ LoadVad \/ NoChunk \/ WindowsDone \/ NothingNew
                     \/ Close \/ Leave("stop") \/ Leave("disconnect")
                     \/ \E text \in Hypotheses : Partial(text)
  PROVE  SessionInv'
<1>1. /\ UNCHANGED <<vadEnabled, buffers, received, speech, past, utterance, active>>
  BY DEF Connect, LoadModel, LoadVad, NoChunk, WindowsDone, NothingNew, Close, Leave, Partial,
       place, current, history
<1>2. Gathered' = Gathered /\ past' \in Seq(Nat) /\ utterance' \in Seq(Nat) /\ active' \in BOOLEAN
  BY <1>1 DEF Gathered, SessionInv, SessionTypeOK
<1>3. Places'
  BY <1>1 DEF SessionInv, Places, buffers, Connect, LoadModel, LoadVad, NoChunk, WindowsDone,
       NothingNew, Close, Leave, Partial, ChunkReady
<1> QED BY <1>1, <1>2, <1>3, SameStream

LEMMA FinalKeeps ==
  ASSUME SessionInv, FinalShort \/ FinalFails \/ FinalText
  PROVE  SessionInv'
<1>1. /\ Finalizing /\ ResetUtterance /\ Return /\ past' = past \o utterance
      /\ UNCHANGED <<vadEnabled, buffers, received, speech>>
  BY DEF FinalShort, FinalFails, FinalText, place
<1>2. past \in Seq(Nat) /\ utterance \in Seq(Nat)
  BY DEF SessionInv, SessionTypeOK
<1>3. past' \in Seq(Nat) /\ utterance' = <<>> /\ utterance' \in Seq(Nat) /\ active' = FALSE
  BY <1>1, <1>2, ConcatProperties DEF ResetUtterance
<1>4. Gathered' = Gathered
  BY <1>1, <1>3, ConcatEmptySeq DEF Gathered
<1>5. Places'
  BY <1>1, <1>3 DEF SessionInv, Places, Pipeline, buffers, Finalizing, Return
<1> QED BY <1>1, <1>3, <1>4, <1>5, SameStream

-----------------------------------------------------------------------------
(* A packet is appended to the buffer.                                     *)
LEMMA PacketKeeps ==
  ASSUME SessionInv, NEW n \in Packets, Packet(n)
  PROVE  SessionInv'
<1> DEFINE more == Units(received, received + n)
<1>1. /\ step = "receive" /\ audioBuffer' = audioBuffer \o more /\ received' = received + n
      /\ speech' = IF vadEnabled THEN speech ELSE 1..received'
      /\ step' = "chunks"
      /\ UNCHANGED <<vadEnabled, vadBuffer, windows, judged, active, utterance, past>>
  BY DEF Packet, place, current
<1>2. n \in Nat /\ received \in Nat /\ received + n \in Nat /\ received <= received + n
  BY StreamingAssumption DEF SessionInv, SessionTypeOK
<1>3. Run(more, received) /\ Len(more) = n
  <2>1. (received + n) - received = n
    BY <1>2
  <2> QED BY <1>2, <2>1, RunUnits
<1> HIDE DEF more
<1>4. /\ Reached \in Nat /\ Len(windows) \in Nat /\ Len(vadBuffer) \in Nat
      /\ Len(audioBuffer) \in Nat
      /\ received = (Reached + Len(windows) + Len(vadBuffer)) + Len(audioBuffer)
      /\ Run(audioBuffer, Reached + Len(windows) + Len(vadBuffer))
      /\ Reached + Len(windows) + Len(vadBuffer) \in Nat
  BY TypesOfRuns DEF SessionInv, Pipeline
<1>5. /\ Run(audioBuffer', Reached + Len(windows) + Len(vadBuffer))
      /\ Len(audioBuffer') = Len(audioBuffer) + n
  BY <1>1, <1>3, <1>4, RunConcat
<1>6. Reached' = Reached
  BY <1>1, <1>2, <1>4, <1>5 DEF Reached, SessionInv, SessionTypeOK
<1>7. Pipeline'
  <2>1. \A a, b \in Nat : (a + b) + n = a + (b + n)
    BY <1>2
  <2>2. received' = Reached + Len(windows) + Len(vadBuffer) + Len(audioBuffer')
    BY <1>1, <1>4, <1>5, <2>1
  <2> QED BY <1>1, <1>5, <1>6, <2>2 DEF SessionInv, Pipeline
<1>8. SessionTypeOK'
  BY <1>1, <1>2, <1>6 DEF SessionInv, SessionTypeOK
<1>9. Places'
  BY <1>1 DEF SessionInv, Places
<1>10. InOrder' /\ SpeechGathered'
  BY <1>1, <1>6 DEF SessionInv, InOrder, SpeechGathered, Gathered
<1> QED BY <1>7, <1>8, <1>9, <1>10 DEF SessionInv

-----------------------------------------------------------------------------
(* Without a VAD the chunk is what comes next in the stream.               *)
LEMMA ChunkIsRun ==
  ASSUME SessionInv, ChunkReady
  PROVE  /\ Chunk \in Seq(Nat) /\ Len(Chunk) \in 1..Len(audioBuffer)
         /\ Run(Chunk, Reached + Len(windows) + Len(vadBuffer))
         /\ Run(From(audioBuffer, Len(Chunk)),
                Reached + Len(windows) + Len(vadBuffer) + Len(Chunk))
         /\ Len(From(audioBuffer, Len(Chunk))) = Len(audioBuffer) - Len(Chunk)
<1> DEFINE base == Reached + Len(windows) + Len(vadBuffer)
<1>1. /\ base \in Nat /\ Run(audioBuffer, base) /\ Len(audioBuffer) \in Nat
      /\ audioBuffer \in Seq(Nat)
  BY TypesOfRuns DEF SessionInv, Pipeline
<1> HIDE DEF base
<1>2. Run(Chunk, base) /\ Len(Chunk) \in 1..Len(audioBuffer)
  <2>1. CASE over = "no"
    <3>1. ChunkUnits \in 1..Len(audioBuffer) /\ Chunk = SubSeq(audioBuffer, 1, ChunkUnits)
      BY <1>1, <2>1, TypesOfRuns DEF ChunkReady, Chunk
    <3>2. ChunkUnits \in 0..Len(audioBuffer)
      BY <1>1, <3>1
    <3> QED BY <1>1, <3>1, <3>2, RunPrefix
  <2>2. CASE over # "no"
    <3>1. audioBuffer # <<>> /\ Chunk = audioBuffer
      BY <2>2 DEF ChunkReady, Chunk
    <3>2. Len(audioBuffer) > 0
      BY <1>1, <3>1, EmptySeq
    <3> QED BY <1>1, <3>1, <3>2
  <2> QED BY <2>1, <2>2
<1>3. Len(Chunk) \in 0..Len(audioBuffer)
  BY <1>1, <1>2
<1>4. /\ Run(From(audioBuffer, Len(Chunk)), base + Len(Chunk))
      /\ Len(From(audioBuffer, Len(Chunk))) = Len(audioBuffer) - Len(Chunk)
  BY <1>1, <1>3, RunFrom
<1> QED BY <1>2, <1>4 DEF Run, base

LEMMA HearChunkKeeps ==
  ASSUME SessionInv, HearChunk
  PROVE  SessionInv'
<1> DEFINE n == Len(Chunk)
<1>1. /\ step = "chunks" /\ ChunkReady /\ ~vadEnabled
      /\ audioBuffer' = From(audioBuffer, n) /\ active' = TRUE
      /\ utterance' = (IF active THEN utterance ELSE <<>>) \o Chunk
      /\ step' \in {"final", "partial"}
      /\ UNCHANGED <<vadEnabled, vadBuffer, windows, judged, received, past, speech>>
  BY DEF HearChunk, place, history
<1>2. windows = <<>> /\ vadBuffer = <<>> /\ Len(windows) = 0 /\ Len(vadBuffer) = 0
  BY <1>1, EmptySeq DEF SessionInv, Pipeline
<1>3. Reached \in Nat /\ Len(audioBuffer) \in Nat /\ received = Reached + Len(audioBuffer)
  BY <1>2, TypesOfRuns DEF SessionInv, Pipeline
<1>4. /\ Run(Chunk, Reached) /\ n \in Nat /\ n <= Len(audioBuffer)
      /\ Run(audioBuffer', Reached + n) /\ Len(audioBuffer') = Len(audioBuffer) - n
  BY <1>1, <1>2, <1>3, ChunkIsRun
<1>5. utterance' = utterance \o Chunk
  BY <1>1 DEF SessionInv, Places
<1> HIDE DEF n
<1>6. Reached' = Reached + n
  BY <1>1, <1>3, <1>4 DEF Reached
<1>7. /\ utterance' \in Seq(Nat)
      /\ Rising(Gathered') /\ Below(Gathered', Reached + n)
      /\ ToSet(Gathered) \subseteq ToSet(Gathered')
      /\ (Reached + 1)..(Reached + n) \subseteq ToSet(Gathered')
  BY <1>1, <1>4, <1>5, GatherNext DEF n
<1>8. SessionTypeOK'
  BY <1>1, <1>3, <1>4, <1>6, <1>7 DEF SessionInv, SessionTypeOK
<1>9. Pipeline'
  <2>1. /\ Run(windows', Reached') /\ Run(vadBuffer', Reached')
    BY <1>1, <1>2, <1>3, <1>4, <1>6, EmptySeq DEF Run
  <2>2. received' = Reached' + Len(audioBuffer')
    BY <1>1, <1>3, <1>4, <1>6
  <2>3. Reached' \in Nat /\ Reached' + 0 = Reached'
    BY <1>3, <1>4, <1>6
  <2>4. \E k \in 0..Len(windows') : Len(windows') = k * WindowUnits
    BY <1>1 DEF SessionInv, Pipeline
  <2> QED BY <1>1, <1>2, <1>4, <1>6, <2>1, <2>2, <2>3, <2>4 DEF Pipeline
<1>10. Places'
  BY <1>1, <1>2 DEF Places
<1>11. InOrder' /\ SpeechGathered'
  <2>1. 1..Reached \subseteq ToSet(Gathered) /\ speech \subseteq 1..received
    BY <1>1 DEF SessionInv, SpeechGathered
  <2>2. 1..(Reached + n) \subseteq ToSet(Gathered')
    <3>1. \A i \in 1..(Reached + n) : i \in 1..Reached \/ i \in (Reached + 1)..(Reached + n)
      BY <1>3, <1>4
    <3> QED BY <1>7, <2>1, <3>1
  <2> QED BY <1>1, <1>6, <1>7, <2>1, <2>2 DEF InOrder, SpeechGathered
<1> QED BY <1>8, <1>9, <1>10, <1>11 DEF SessionInv

(* With a VAD it goes on to the windows and to what is less than one.      *)
LEMMA WholeWindows ==
  ASSUME NEW l \in Nat, NEW w \in Nat \ {0}
  PROVE  /\ (l \div w) * w \in 0..l /\ l \div w \in 0..((l \div w) * w)
OBVIOUS

LEMMA SplitChunkKeeps ==
  ASSUME SessionInv, SplitChunk
  PROVE  SessionInv'
<1> DEFINE pcm == vadBuffer \o Chunk
           k   == Len(pcm) \div WindowUnits
           n   == k * WindowUnits
           v   == Len(vadBuffer)
           c   == Len(Chunk)
<1>1. /\ step = "chunks" /\ ChunkReady /\ vadEnabled
      /\ audioBuffer' = From(audioBuffer, c)
      /\ windows' = SubSeq(pcm, 1, n) /\ vadBuffer' = From(pcm, n)
      /\ step' = IF n = 0 THEN "chunks" ELSE "windows"
      /\ UNCHANGED <<vadEnabled, judged, active, utterance, past, received, speech>>
  BY DEF SplitChunk, place, current, history
<1>2. windows = <<>> /\ Len(windows) = 0
  BY <1>1, EmptySeq DEF SessionInv, Places
<1>3. /\ Reached \in Nat /\ v \in Nat /\ Run(vadBuffer, Reached) /\ Len(audioBuffer) \in Nat
      /\ received = Reached + v + Len(audioBuffer)
  BY <1>2, TypesOfRuns DEF SessionInv, Pipeline
<1>4. /\ Run(Chunk, Reached + v) /\ c \in 1..Len(audioBuffer)
      /\ Run(audioBuffer', Reached + v + c) /\ Len(audioBuffer') = Len(audioBuffer) - c
  BY <1>1, <1>2, <1>3, ChunkIsRun
<1>5. Run(pcm, Reached) /\ Len(pcm) = v + c
  BY <1>3, <1>4, RunConcat
<1>6. Len(pcm) \in Nat /\ WindowUnits \in Nat \ {0}
  BY <1>3, <1>4, <1>5, TypesOfRuns
<1>7. n \in 0..(v + c) /\ k \in 0..n
  BY <1>5, <1>6, WholeWindows
<1> HIDE DEF pcm, k, v, c
<1>8. /\ Run(windows', Reached) /\ Len(windows') = n
      /\ Run(vadBuffer', Reached + n) /\ Len(vadBuffer') = v + c - n
  <2> HIDE DEF n
  <2>1. n \in 0..Len(pcm)
    BY <1>5, <1>7
  <2>2. Run(SubSeq(pcm, 1, n), Reached) /\ Len(SubSeq(pcm, 1, n)) = n
    BY <1>3, <1>5, <2>1, RunPrefix
  <2>3. Run(From(pcm, n), Reached + n) /\ Len(From(pcm, n)) = Len(pcm) - n
    BY <1>3, <1>5, <2>1, RunFrom
  <2>4. windows' = SubSeq(pcm, 1, n) /\ vadBuffer' = From(pcm, n)
    BY <1>1
  <2>5. Len(From(pcm, n)) = v + c - n
    BY <1>3, <1>4, <1>5, <1>7, <2>3
  <2> QED BY <2>2, <2>3, <2>4, <2>5
<1>9. Reached' = Reached
  BY <1>1 DEF Reached
<1>10. Pipeline'
  <2>1. \E i \in 0..Len(windows') : Len(windows') = i * WindowUnits
    BY <1>7, <1>8
  <2> HIDE DEF n
  <2>2. Reached + n + (v + c - n) = Reached + v + c
    BY <1>3, <1>4, <1>7
  <2>3. received = Reached + n + (v + c - n) + Len(audioBuffer')
    BY <1>3, <1>4, <1>7
  <2> QED BY <1>1, <1>4, <1>8, <1>9, <2>1, <2>2, <2>3 DEF Pipeline
<1>11. SessionTypeOK'
  BY <1>1, <1>9 DEF SessionInv, SessionTypeOK
<1>12. Places'
  <2>1. n = 0 => windows' = <<>>
    BY <1>8, EmptySeq DEF Run
  <2> HIDE DEF n
  <2> QED BY <1>1, <2>1 DEF SessionInv, Places
<1>13. InOrder' /\ SpeechGathered'
  BY <1>1, <1>9 DEF SessionInv, InOrder, SpeechGathered, Gathered
<1> QED BY <1>10, <1>11, <1>12, <1>13 DEF SessionInv

-----------------------------------------------------------------------------
(* The window to be judged is what comes next in the stream.               *)
LEMMA WindowIsRun ==
  ASSUME SessionInv, step = "windows", windows # <<>>
  PROVE  /\ vadEnabled /\ Reached = judged /\ Run(Window, judged) /\ Len(Window) = WindowUnits
         /\ WindowUnits \in 1..Len(windows)
         /\ Run(From(windows, WindowUnits), judged + WindowUnits)
         /\ Len(From(windows, WindowUnits)) = Len(windows) - WindowUnits
         /\ \E k \in 0..(Len(windows) - WindowUnits) :
              Len(windows) - WindowUnits = k * WindowUnits
<1>1. vadEnabled /\ Reached = judged /\ Reached \in Nat /\ Run(windows, Reached)
  BY TypesOfRuns DEF SessionInv, Pipeline, Reached, SessionTypeOK
<1>2. Len(windows) \in Nat /\ Len(windows) > 0 /\ WindowUnits \in Nat /\ WindowUnits > 0
  BY TypesOfRuns, EmptySeq
<1>3. PICK k \in 0..Len(windows) : Len(windows) = k * WindowUnits
  BY DEF SessionInv, Pipeline
<1>4. /\ k - 1 \in Nat /\ (k - 1) * WindowUnits = Len(windows) - WindowUnits
      /\ Len(windows) - WindowUnits \in Nat /\ k - 1 <= Len(windows) - WindowUnits
  <2>1. \A l, m, w \in Nat : l > 0 /\ w > 0 /\ l = m * w =>
          m - 1 \in Nat /\ (m - 1) * w = l - w /\ l - w \in Nat /\ m - 1 <= l - w
    OBVIOUS
  <2> QED BY <1>2, <1>3, <2>1
<1>5. WindowUnits \in 0..Len(windows)
  BY <1>2, <1>4
<1>6. /\ Run(Window, judged) /\ Len(Window) = WindowUnits
      /\ Run(From(windows, WindowUnits), judged + WindowUnits)
      /\ Len(From(windows, WindowUnits)) = Len(windows) - WindowUnits
  BY <1>1, <1>5, RunPrefix, RunFrom DEF Window
<1>7. \E i \in 0..(Len(windows) - WindowUnits) : Len(windows) - WindowUnits = i * WindowUnits
  <2>1. k - 1 \in 0..(Len(windows) - WindowUnits)
    BY <1>4
  <2> QED BY <1>4, <2>1
<1>8. WindowUnits \in 1..Len(windows)
  BY <1>2, <1>5
<1> QED BY <1>1, <1>6, <1>7, <1>8

(* The windows after it, and both buffers, stay where they are.            *)
LEMMA WindowTaken ==
  ASSUME SessionInv, step = "windows", windows # <<>>,
         windows' = From(windows, WindowUnits), judged' = judged + WindowUnits,
         UNCHANGED <<vadEnabled, vadBuffer, audioBuffer, received>>
  PROVE  Pipeline' /\ Reached' = Reached + WindowUnits /\ Reached' \in Nat
<1>1. /\ Reached \in Nat /\ Len(windows) \in Nat /\ Len(vadBuffer) \in Nat
      /\ Len(audioBuffer) \in Nat /\ WindowUnits \in Nat
      /\ Run(vadBuffer, Reached + Len(windows))
      /\ Run(audioBuffer, Reached + Len(windows) + Len(vadBuffer))
      /\ received = Reached + Len(windows) + Len(vadBuffer) + Len(audioBuffer)
  BY TypesOfRuns DEF SessionInv, Pipeline
<1>2. Reached' = Reached + WindowUnits /\ Reached' \in Nat
  BY <1>1, WindowIsRun DEF Reached
<1>3. Len(windows') = Len(windows) - WindowUnits /\ Run(windows', Reached')
  BY <1>2, WindowIsRun
<1>4. Reached' + Len(windows') = Reached + Len(windows)
  BY <1>1, <1>2, <1>3
<1>5. \E k \in 0..Len(windows') : Len(windows') = k * WindowUnits
  BY <1>3, WindowIsRun
<1>6. vadEnabled'
  BY WindowIsRun
<1> QED BY <1>1, <1>2, <1>3, <1>4, <1>5, <1>6 DEF Pipeline

(* A window that is gathered.                                              *)
LEMMA WindowGathered ==
  ASSUME SessionInv, step = "windows", windows # <<>>,
         windows' = From(windows, WindowUnits), judged' = judged + WindowUnits,
         UNCHANGED <<vadEnabled, vadBuffer, audioBuffer, received, past>>,
         utterance' = utterance \o Window, active' = TRUE,
         speech' \subseteq speech \cup ToSet(Window), step' \in {"final", "windows"}
  PROVE  SessionInv'
<1>1. Pipeline' /\ Reached' = Reached + WindowUnits /\ Reached' \in Nat
  BY WindowTaken
<1>2. Run(Window, Reached) /\ Len(Window) = WindowUnits /\ vadEnabled
  BY WindowIsRun
<1>3. /\ utterance' \in Seq(Nat) /\ Rising(Gathered') /\ Below(Gathered', Reached + WindowUnits)
      /\ ToSet(Gathered') = ToSet(Gathered) \cup ToSet(Window)
  BY <1>2, GatherNext
<1>4. SessionTypeOK'
  <2>1. judged' \in Nat
    BY TypesOfRuns DEF SessionInv, SessionTypeOK
  <2> QED BY <1>1, <1>3, <2>1 DEF SessionInv, SessionTypeOK
<1>5. Places'
  BY DEF Places
<1>6. InOrder' /\ SpeechGathered'
  BY <1>1, <1>2, <1>3 DEF SessionInv, InOrder, SpeechGathered
<1> QED BY <1>1, <1>4, <1>5, <1>6 DEF SessionInv

LEMMA SpeechWindowKeeps ==
  ASSUME SessionInv, SpeechWindow
  PROVE  SessionInv'
<1>1. utterance' = utterance \o Window
  BY DEF SpeechWindow, SessionInv, Places
<1> QED BY <1>1, WindowGathered DEF SpeechWindow, place

LEMMA SilentWindowKeeps ==
  ASSUME SessionInv, SilentWindow
  PROVE  SessionInv'
<1>1. CASE active
  <2>1. speech' = speech /\ active' = TRUE /\ past' = past
    BY <1>1 DEF SilentWindow, history, SessionInv, SessionTypeOK
  <2> QED BY <1>1, <2>1, WindowGathered DEF SilentWindow, place
<1>2. CASE ~active
  <2>1. /\ Pipeline' /\ Reached' = Reached + WindowUnits /\ Reached' \in Nat
        /\ Reached \in Nat /\ WindowUnits \in Nat
    BY WindowTaken, TypesOfRuns DEF SilentWindow, place
  <2>2. UNCHANGED <<vadEnabled, past, utterance, received, speech, active, step, audioBuffer>>
    BY <1>2 DEF SilentWindow, place, history
  <2>3. Gathered' = Gathered /\ vadEnabled
    BY <2>2, WindowIsRun DEF Gathered, SilentWindow
  <2>4. SessionTypeOK'
    <3>1. judged' \in Nat
      BY <2>1 DEF SessionInv, SessionTypeOK, SilentWindow
    <3> QED BY <2>1, <2>2, <3>1 DEF SessionInv, SessionTypeOK
  <2>5. Places'
    BY <2>2 DEF SessionInv, Places, SilentWindow
  <2>6. InOrder'
    <3>1. \A i \in 1..Len(Gathered) : Gathered[i] <= Reached => Gathered[i] <= Reached + WindowUnits
      <4>1. Gathered \in Seq(Nat)
        BY ConcatProperties DEF Gathered, SessionInv, SessionTypeOK
      <4> QED BY <2>1, <4>1
    <3> QED BY <2>1, <2>3, <3>1 DEF SessionInv, InOrder, Below
  <2>7. SpeechGathered'
    BY <2>2, <2>3 DEF SessionInv, SpeechGathered
  <2> QED BY <2>1, <2>4, <2>5, <2>6, <2>7 DEF SessionInv
<1> QED BY <1>1, <1>2

(* The flush ends with what is less than a window.                         *)
LEMMA FlushTailKeeps ==
  ASSUME SessionInv, FlushTail
  PROVE  SessionInv'
<1> DEFINE v == Len(vadBuffer)
<1>1. /\ step = "tail" /\ vadBuffer' = <<>> /\ judged' = judged + v
      /\ utterance' = IF active THEN utterance \o vadBuffer ELSE utterance
      /\ step' = IF active /\ utterance' # <<>> THEN "last" ELSE "closing"
      /\ UNCHANGED <<vadEnabled, audioBuffer, windows, active, past, received, speech>>
  BY DEF FlushTail, place, history
<1>2. windows = <<>> /\ Len(windows) = 0 /\ audioBuffer = <<>> /\ Len(audioBuffer) = 0
  BY <1>1, EmptySeq DEF SessionInv, Places
<1>3. /\ Reached \in Nat /\ v \in Nat /\ Run(vadBuffer, Reached) /\ received = Reached + v
      /\ vadBuffer \in Seq(Nat)
  BY <1>2, TypesOfRuns DEF SessionInv, Pipeline
<1>4. Reached' = Reached + v /\ judged' \in Nat
  <2>1. ~vadEnabled => v = 0
    BY EmptySeq DEF SessionInv, Pipeline
  <2>2. judged \in Nat /\ received \in Nat /\ judged' = judged + v
    BY <1>1 DEF SessionInv, SessionTypeOK
  <2> QED BY <1>1, <1>3, <2>1, <2>2 DEF Reached
<1> HIDE DEF v
<1>5. Pipeline'
  <2>1. <<>> \in Seq(Nat) /\ Len(<<>>) = 0
    OBVIOUS
  <2>2. received' = Reached' + 0 + 0 + 0 /\ Reached' \in Nat
    BY <1>1, <1>3, <1>4
  <2>3. Run(<<>>, Reached') /\ Run(<<>>, Reached' + 0) /\ Run(<<>>, Reached' + 0 + 0)
    BY <2>1 DEF Run
  <2>4. \E k \in 0..0 : 0 = k * WindowUnits
    BY TypesOfRuns
  <2> QED BY <1>1, <1>2, <2>1, <2>2, <2>3, <2>4 DEF Pipeline
<1>6. /\ utterance' \in Seq(Nat) /\ Rising(Gathered') /\ Below(Gathered', Reached + v)
      /\ ToSet(Gathered) \subseteq ToSet(Gathered')
      /\ ~vadEnabled => v = 0
  <2>0. ~vadEnabled => v = 0
    BY EmptySeq DEF SessionInv, Pipeline, v
  <2>1. CASE active
    <3>1. utterance' = utterance \o vadBuffer /\ past' = past
      BY <1>1, <2>1
    <3> QED BY <1>3, <2>0, <3>1, GatherNext DEF v
  <2>2. CASE ~active
    <3>1. Gathered' = Gathered /\ utterance' \in Seq(Nat)
      BY <1>1, <2>2 DEF Gathered, SessionInv, SessionTypeOK
    <3>2. Gathered \in Seq(Nat)
      BY ConcatProperties DEF Gathered, SessionInv, SessionTypeOK
    <3>3. Below(Gathered, Reached + v)
      BY <1>3, <3>2 DEF SessionInv, InOrder, Below
    <3> QED BY <2>0, <3>1, <3>3 DEF SessionInv, InOrder
  <2> QED BY <2>1, <2>2
<1>7. SessionTypeOK'
  BY <1>1, <1>3, <1>4, <1>6 DEF SessionInv, SessionTypeOK
<1>8. Places'
  BY <1>1, <1>2 DEF SessionInv, Places
<1>9. InOrder' /\ SpeechGathered'
  <2>1. ~vadEnabled => Reached' = Reached
    BY <1>3, <1>4, <1>6
  <2> QED BY <1>1, <1>4, <1>6, <2>1 DEF SessionInv, InOrder, SpeechGathered
<1> QED BY <1>5, <1>7, <1>8, <1>9 DEF SessionInv

-----------------------------------------------------------------------------
LEMMA SessionInitEstablishes == SessionInit => SessionInv
<1> SUFFICES ASSUME SessionInit PROVE SessionInv
  OBVIOUS
<1>1. <<>> \in Seq(Nat) /\ Len(<<>>) = 0 /\ <<>> \o <<>> = <<>>
  OBVIOUS
<1>2. Reached = 0
  <2>1. judged = 0 /\ received = 0 /\ Len(audioBuffer) = 0
    BY <1>1 DEF SessionInit
  <2> QED BY <2>1 DEF Reached
<1>3. SessionTypeOK
  BY <1>1, <1>2 DEF SessionTypeOK, SessionInit
<1>4. Pipeline
  <2>1. Run(<<>>, 0) /\ 0 + 0 = 0
    BY <1>1 DEF Run
  <2>2. \E k \in 0..0 : 0 = k * WindowUnits
    BY StreamingAssumption
  <2> QED BY <1>1, <1>2, <2>1, <2>2 DEF Pipeline, SessionInit
<1>5. Places
  BY DEF Places, SessionInit
<1>6. InOrder /\ SpeechGathered
  <2>1. Gathered = <<>>
    BY <1>1 DEF Gathered, SessionInit
  <2>2. 1..0 = {}
    OBVIOUS
  <2> QED
    BY <1>1, <1>2, <2>1, <2>2 DEF InOrder, SpeechGathered, Rising, Below, SessionInit
<1> QED BY <1>3, <1>4, <1>5, <1>6 DEF SessionInv

LEMMA SessionStepPreserves == SessionInv /\ [SessionNext]_sessionVars => SessionInv'
<1> SUFFICES ASSUME SessionInv, [SessionNext]_sessionVars PROVE SessionInv'
  OBVIOUS
<1>1. CASE UNCHANGED sessionVars
  <2>1. UNCHANGED <<step, vadEnabled, buffers, received, speech, past, utterance, active>>
    BY <1>1 DEF sessionVars, place, current, history
  <2>2. Gathered' = Gathered /\ Places'
    BY <2>1 DEF Gathered, SessionInv, Places, buffers
  <2> QED BY <2>1, <2>2, SameStream DEF SessionInv, SessionTypeOK
<1>2. ASSUME NEW n \in Packets, Packet(n) PROVE SessionInv'
  BY <1>2, PacketKeeps
<1> QED
  BY <1>1, <1>2, MovesOnKeep, HearChunkKeeps, SplitChunkKeeps, SpeechWindowKeeps,
     SilentWindowKeeps, FinalKeeps, FlushTailKeeps DEF SessionNext

LEMMA SessionInvImplies == SessionInv => SpeechOnce
<1> SUFFICES ASSUME SessionInv PROVE SpeechOnce
  OBVIOUS
<1>1. \A i, j \in 1..Len(past \o utterance) :
        i < j => (past \o utterance)[i] < (past \o utterance)[j]
  BY DEF SessionInv, InOrder, Rising, Gathered
<1>2. ASSUME step = "ended" PROVE speech \subseteq ToSet(past)
  <2>1. utterance = <<>> /\ audioBuffer = <<>> /\ past \in Seq(Nat)
    BY <1>2 DEF SessionInv, Places, SessionTypeOK
  <2>2. Gathered = past
    BY <2>1, ConcatEmptySeq DEF Gathered
  <2>3. ~vadEnabled => Reached = received
    BY <2>1, EmptySeq DEF Reached, SessionInv, SessionTypeOK
  <2> QED BY <2>2, <2>3 DEF SessionInv, SessionTypeOK, SpeechGathered
<1> QED BY <1>1, <1>2 DEF SpeechOnce
-----------------------------------------------------------------------------
(* The client.  A chunk that was taken from the source was sent off, or is *)
(* the one pending.                                                        *)
NothingLost ==
  /\ given \in Nat /\ sent \in Seq(Nat) /\ Len(sent) \in Nat
  /\ \A i \in 1..Len(sent) : sent[i] = i
  /\ \/ pending = 0 /\ given = Len(sent)
     \/ pending = Len(sent) + 1 /\ given = pending

(* Where the sender has nothing pending, and when the source is done.      *)
SourceSpent ==
  /\ sender \in {"next", "stop", "done"} => pending = 0
  /\ sender = "send" => pending # 0
  /\ given <= Chunks
  /\ source \in {"iterator", "generator"} /\ (source = "iterator" /\ closed => raised)
  /\ sourceDone => given = Chunks \/ closed
  /\ client = "returned" => sourceDone /\ pending = 0

ClientInv == NothingLost /\ SourceSpent

-----------------------------------------------------------------------------
(* The upload.  What was read is never more than the file has and, until   *)
(* the request is answered, than may be uploaded.                          *)
UploadRead ==
  /\ ask \in Upload \cup Wyoming
  /\ total \in Nat
  /\ IF ask.kind = "wyoming"
     THEN task \in {"event", "recognize", "answered"}
     ELSE /\ total <= ask.size
          /\ task # "event"
          /\ task # "answered" => total <= MaxUpload
          /\ task = "convert" => total = ask.size
          /\ task = "recognize" => total = ask.size /\ fed = {Piece(0, total)}

-----------------------------------------------------------------------------
LEMMA NothingLostKept ==
  ASSUME ClientInv, ClientNext
  PROVE  NothingLost'
<1>1. CASE Send /\ link = "up"
  <2>1. pending # 0 /\ sent' = Append(sent, pending) /\ pending' = 0 /\ given' = given
    BY <1>1 DEF Send, ClientInv, SourceSpent
  <2> QED BY <2>1 DEF ClientInv, NothingLost
<1>2. CASE TakeChunk
  <2>1. pending = 0 /\ given' = given + 1 /\ pending' = given + 1 /\ sent' = sent
    BY <1>2 DEF TakeChunk, ClientInv, SourceSpent
  <2> QED BY <2>1 DEF ClientInv, NothingLost
<1>3. CASE UNCHANGED <<given, pending, sent>>
  BY <1>3 DEF ClientInv, NothingLost
<1> QED
  BY <1>1, <1>2, <1>3 DEF ClientNext, ClientStep, Open, NothingPending, Send, Exhausted, SendStop,
     SessionEnd, NoticeLoss, CancelSender, Judge, SourceFails, LoseLink

LEMMA SourceSpentKept ==
  ASSUME ClientInv, ClientNext
  PROVE  SourceSpent'
<1>1. given \in Nat /\ Chunks \in Nat /\ pending \in Nat
  BY ClientAssumption DEF ClientInv, NothingLost
<1>2. CASE Open \/ NothingPending
  BY <1>2 DEF Open, NothingPending, ClientInv, SourceSpent
<1>3. CASE Send
  BY <1>3 DEF Send, ClientInv, SourceSpent
<1>4. CASE TakeChunk
  BY <1>1, <1>4 DEF TakeChunk, ClientInv, SourceSpent
<1>5. CASE Exhausted
  BY <1>5 DEF Exhausted, ClientInv, SourceSpent
<1>6. CASE SendStop \/ LoseLink \/ SessionEnd \/ NoticeLoss
  BY <1>6 DEF SendStop, LoseLink, SessionEnd, NoticeLoss, ClientInv, SourceSpent
<1>7. CASE SourceFails
  <2>1. /\ raised' /\ sender' = "failed"
        /\ UNCHANGED <<client, pending, sourceDone, source, given>>
    BY <1>7 DEF SourceFails
  <2>2. ~closed
    BY <1>7 DEF SourceFails
  <2> QED BY <2>1, <2>2 DEF ClientInv, SourceSpent
<1>8. CASE CancelSender
  <2>1. /\ sender' = "cancelled" /\ client = "leaving"
        /\ UNCHANGED <<client, pending, sourceDone, source, given, raised>>
    BY <1>8 DEF CancelSender
  <2>2. closed => closed'
    BY <1>8 DEF CancelSender
  <2>3. source = "iterator" /\ closed' => closed
    BY <1>8 DEF CancelSender
  <2> QED BY <2>1, <2>2, <2>3 DEF ClientInv, SourceSpent
<1>9. CASE Judge
  BY <1>9 DEF Judge, ClientInv, SourceSpent
<1> QED BY <1>2, <1>3, <1>4, <1>5, <1>6, <1>7, <1>8, <1>9 DEF ClientNext, ClientStep

LEMMA ClientInitEstablishes == ClientInit => ClientInv
<1>1. <<>> \in Seq(Nat) /\ Len(<<>>) = 0
  OBVIOUS
<1> QED
  BY <1>1, ClientAssumption DEF ClientInit, ClientInv, NothingLost, SourceSpent

LEMMA ClientStepPreserves == ClientInv /\ [ClientNext]_clientVars => ClientInv'
<1>1. ASSUME ClientInv, UNCHANGED clientVars PROVE ClientInv'
  BY <1>1 DEF clientVars, ClientInv, NothingLost, SourceSpent
<1> QED BY <1>1, NothingLostKept, SourceSpentKept DEF ClientInv

LEMMA ClientInvImplies == ClientInv => NothingSkipped
BY DEF ClientInv, NothingLost, SourceSpent, NothingSkipped

-----------------------------------------------------------------------------
LEMMA RecognitionSizes ==
  /\ ReadSize \in Nat /\ ReadSize > 0 /\ MinSpeechWindows \in Nat /\ MinSpeechWindows > 0
  /\ SilenceWindows \in Nat /\ SilenceWindows > 0
  /\ Second \in Nat /\ Second > 0 /\ WindowMs \in Nat /\ WindowMs > 0
  /\ Rates \subseteq Nat /\ MaxUpload \in Nat /\ MaxFile \in Nat
<1>1. \A n \in Nat \ {0} : n \in Nat /\ n > 0
  OBVIOUS
<1> QED BY <1>1, RecognitionAssumption

LEMMA Asked ==
  ASSUME ask \in Upload \cup Wyoming
  PROVE  /\ ask.kind = "wyoming" => ask \in Wyoming
         /\ ask.kind # "wyoming" => ask \in Upload /\ ask.size \in Nat
<1>1. ASSUME ask \in Upload
      PROVE  ask.size \in Nat /\ ask.kind \in {"transcribe", "translate"}
  BY <1>1, RecognitionSizes DEF Upload
<1>2. ASSUME ask \in Wyoming PROVE ask.kind = "wyoming"
  BY <1>2 DEF Wyoming
<1> QED BY <1>1, <1>2

LEMMA UploadInitEstablishes == RecognitionInit => UploadRead
<1> SUFFICES ASSUME RecognitionInit PROVE UploadRead
  OBVIOUS
<1>1. ask \in Upload \cup Wyoming
  BY DEF RecognitionInit
<1> QED BY <1>1, Asked, RecognitionSizes DEF RecognitionInit, UploadRead

LEMMA UploadStepPreserves == UploadRead /\ [RecognitionNext]_recognitionVars => UploadRead'
<1> SUFFICES ASSUME UploadRead, [RecognitionNext]_recognitionVars PROVE UploadRead'
  OBVIOUS
<1>1. /\ total \in Nat /\ MaxUpload \in Nat /\ ReadSize \in Nat /\ ReadSize > 0
      /\ ask \in Upload \cup Wyoming
      /\ ask.kind # "wyoming" => ask.size \in Nat
  BY Asked, RecognitionSizes DEF UploadRead
<1>2. CASE UNCHANGED recognitionVars
  BY <1>2 DEF recognitionVars, UploadRead
<1>3. CASE Validate
  BY <1>3 DEF Validate, Answer, UploadRead
<1>4. CASE Read
  <2>1. ask.kind # "wyoming"
    BY <1>4 DEF Read, UploadRead
  <2> QED BY <1>1, <1>4, <2>1 DEF Read, Got, Want, Smaller, Answer, UploadRead
<1>5. CASE EndOfFile
  <2>1. ask.kind # "wyoming"
    BY <1>5 DEF EndOfFile, UploadRead
  <2> QED BY <1>1, <1>5, <2>1 DEF EndOfFile, Got, Want, Smaller, Answer, UploadRead
<1>6. CASE Convert
  BY <1>6 DEF Convert, Answer, UploadRead
<1>7. CASE Recognize \/ Translate \/ LogHistory \/ Diarize
  BY <1>7 DEF Recognize, Translate, LogHistory, Diarize, Answer, UploadRead
<1>8. CASE Transcribe \/ AudioStop \/ Transcript \/ \E speech_ \in BOOLEAN : AudioChunk(speech_)
  <2>1. ask.kind = "wyoming"
    BY <1>8 DEF Transcribe, AudioStop, Transcript, AudioChunk, UploadRead
  <2>2. ask' = ask /\ total' \in Nat
    BY <1>1, <1>8 DEF Transcribe, AudioStop, Transcript, AudioChunk
  <2>3. task' \in {"event", "recognize", "answered"}
    BY <1>8 DEF Transcribe, AudioStop, Transcript, AudioChunk, Answer
  <2> QED BY <1>1, <2>1, <2>2, <2>3 DEF UploadRead
<1> QED
  BY <1>2, <1>3, <1>4, <1>5, <1>6, <1>7, <1>8 DEF RecognitionNext

-----------------------------------------------------------------------------
(* Numbers: a set of them has a least, so what holds of 0 and goes from    *)
(* each to the next holds of all.                                          *)
LEMMA LeastNat ==
  ASSUME NEW T, T \subseteq Nat, T # {}
  PROVE  \E n \in T : \A m \in T : n <= m
<1> DEFINE R == OpToRel(<, Nat)
<1>1. IsWellFoundedOn(R, Nat)
  BY NatLessThanWellFounded
<1>2. \A m, n \in Nat : m < n => <<m, n>> \in R
  BY DEF OpToRel
<1> HIDE DEF R
<1>3. PICK n \in T : \A m \in T : <<m, n>> \notin R
  BY <1>1, WFMin
<1>4. \A m \in T : ~(m < n)
  BY <1>2, <1>3
<1>5. \A m \in T : n <= m
  <2> TAKE m \in T
  <2>1. n \in Nat /\ m \in Nat
    OBVIOUS
  <2> QED BY <2>1, <1>4
<1> QED BY <1>5

LEMMA Induct ==
  ASSUME NEW S, 0 \in S, \A n \in Nat : n \in S => n + 1 \in S
  PROVE  Nat \subseteq S
<1> DEFINE T == {n \in Nat : n \notin S}
<1> SUFFICES ASSUME T # {} PROVE FALSE
  OBVIOUS
<1>1. PICK n \in T : \A m \in T : n <= m
  BY LeastNat
<1>2. n \in Nat /\ n # 0
  OBVIOUS
<1>3. n - 1 \in Nat /\ ~(n <= n - 1) /\ (n - 1) + 1 = n
  BY <1>2
<1>4. n - 1 \in S
  BY <1>1, <1>3
<1> QED BY <1>1, <1>2, <1>3, <1>4

(* The VAD.  The fold of get_speech_segments goes over the windows one     *)
(* after the other: Judged[1..k] is what it has after the k-th, where      *)
(* Judged is the function on sets of windows by which FoldLeftDomain is    *)
(* defined.                                                                *)
Latest(s) == CHOOSE x \in s : \A y \in s : x >= y
Place == [i \in DOMAIN chunks |-> i]
Judges(verdicts, D) ==
  verdicts = [s \in D |-> IF s = {} THEN NoSegment
                        ELSE JudgeWindow(verdicts[s \ {Latest(s)}], Place[Latest(s)])]
Judged == CHOOSE verdicts : Judges(verdicts, SUBSET (DOMAIN Place))

LEMMA SegmentsFolded ==
  SpeechSegments =
    LET s == Judged[DOMAIN Place]
    IN  s.kept \cup Segment(s, Len(chunks))
BY DEF SpeechSegments, FoldLeftDomain, FoldLeft, MapThenFoldSet, Judged, Judges, Latest, Max,
       Place

LEMMA LatestOf ==
  ASSUME NEW k \in Nat, NEW s \in SUBSET (1..(k + 1)), k + 1 \in s
  PROVE  Latest(s) = k + 1
<1>1. \A y \in s : y \in Nat /\ k + 1 >= y
  OBVIOUS
<1>2. Latest(s) \in s /\ \A y \in s : Latest(s) >= y
  BY <1>1 DEF Latest
<1>3. Latest(s) >= k + 1 /\ k + 1 >= Latest(s) /\ Latest(s) \in Nat
  BY <1>1, <1>2
<1> QED BY <1>3

LEMMA JudgesExists ==
  ASSUME chunks \in Seq(BOOLEAN)
  PROVE  \E verdicts : Judges(verdicts, SUBSET (DOMAIN Place))
<1> DEFINE Done == {k \in Nat : \E verdicts : Judges(verdicts, SUBSET (1..k))}
<1>1. 0 \in Done
  <2> DEFINE it == [s \in SUBSET (1..0) |-> NoSegment]
  <2>1. SUBSET (1..0) = {{}}
    OBVIOUS
  <2>2. Judges(it, SUBSET (1..0))
    BY <2>1 DEF Judges
  <2> HIDE DEF it
  <2> QED BY <2>2
<1>2. ASSUME NEW k \in Nat, k \in Done PROVE k + 1 \in Done
  <2>1. PICK old : Judges(old, SUBSET (1..k))
    BY <1>2
  <2> DEFINE it == [s \in SUBSET (1..(k + 1)) |->
                      IF k + 1 \in s THEN JudgeWindow(old[s \ {k + 1}], Place[k + 1])
                      ELSE old[s]]
  <2>2. ASSUME NEW s \in SUBSET (1..k)
        PROVE  s \in SUBSET (1..(k + 1)) /\ it[s] = old[s]
    <3>1. k + 1 \notin s /\ s \in SUBSET (1..(k + 1))
      OBVIOUS
    <3> QED BY <3>1
  <2>3. ASSUME NEW s \in SUBSET (1..(k + 1))
        PROVE  it[s] = IF s = {} THEN NoSegment
                       ELSE JudgeWindow(it[s \ {Latest(s)}], Place[Latest(s)])
    <3>1. CASE k + 1 \in s
      <4>1. Latest(s) = k + 1 /\ s \ {k + 1} \in SUBSET (1..k) /\ s # {}
        BY <3>1, LatestOf
      <4>2. it[s] = JudgeWindow(old[s \ {k + 1}], Place[k + 1])
        BY <3>1
      <4>3. it[s \ {k + 1}] = old[s \ {k + 1}]
        BY <2>2, <4>1
      <4> QED BY <4>1, <4>2, <4>3
    <3>2. CASE k + 1 \notin s
      <4>1. s \in SUBSET (1..k)
        BY <3>2
      <4>2. old[s] = IF s = {} THEN NoSegment
                     ELSE JudgeWindow(old[s \ {Latest(s)}], Place[Latest(s)])
        BY <2>1, <4>1 DEF Judges
      <4>3. s \ {Latest(s)} \in SUBSET (1..k)
        BY <4>1
      <4>4. it[s] = old[s] /\ it[s \ {Latest(s)}] = old[s \ {Latest(s)}]
        BY <2>2, <4>1, <4>3
      <4> QED BY <4>2, <4>4
    <3> QED BY <3>1, <3>2
  <2>4. it = [s \in SUBSET (1..(k + 1)) |->
                IF s = {} THEN NoSegment
                ELSE JudgeWindow(it[s \ {Latest(s)}], Place[Latest(s)])]
    BY <2>3
  <2> HIDE DEF it
  <2>5. Judges(it, SUBSET (1..(k + 1)))
    BY <2>4 DEF Judges
  <2> QED BY <2>5
<1> HIDE DEF Done
<1>3. Nat \subseteq Done
  BY <1>1, <1>2, Induct
<1>4. Len(chunks) \in Done /\ DOMAIN Place = 1..Len(chunks)
  BY <1>3 DEF Place
<1> QED BY <1>4 DEF Done

LEMMA JudgedSteps ==
  ASSUME chunks \in Seq(BOOLEAN)
  PROVE  /\ Judged[1..0] = NoSegment
         /\ \A k \in Nat : k + 1 <= Len(chunks) =>
              Judged[1..(k + 1)] = JudgeWindow(Judged[1..k], k + 1)
<1>1. Judges(Judged, SUBSET (DOMAIN Place))
  BY JudgesExists DEF Judged
<1>2. DOMAIN Place = 1..Len(chunks) /\ Len(chunks) \in Nat
  BY DEF Place
<1>3. \A s \in SUBSET (DOMAIN Place) :
        Judged[s] = IF s = {} THEN NoSegment
                    ELSE JudgeWindow(Judged[s \ {Latest(s)}], Place[Latest(s)])
  BY <1>1 DEF Judges
<1>4. Judged[1..0] = NoSegment
  <2>1. 1..0 = {} /\ {} \in SUBSET (DOMAIN Place)
    OBVIOUS
  <2> QED BY <1>3, <2>1
<1>5. ASSUME NEW k \in Nat, k + 1 <= Len(chunks)
      PROVE  Judged[1..(k + 1)] = JudgeWindow(Judged[1..k], k + 1)
  <2>1. 1..(k + 1) \in SUBSET (DOMAIN Place) /\ k + 1 \in 1..(k + 1) /\ k + 1 \in DOMAIN chunks
    BY <1>2, <1>5
  <2>2. Latest(1..(k + 1)) = k + 1
    BY <2>1, LatestOf
  <2>3. (1..(k + 1)) \ {k + 1} = 1..k
    OBVIOUS
  <2>4. Place[k + 1] = k + 1
    BY <2>1 DEF Place
  <2> QED BY <1>3, <2>1, <2>2, <2>3, <2>4
<1> QED BY <1>4, <1>5

-----------------------------------------------------------------------------
(* After the k-th window: f is where the open segment begins or 0, q its   *)
(* silence, w its speech.  What is before the edge can no longer belong    *)
(* together with what comes, and what of it counts has been kept.          *)
Edge(f, k) == IF f = 0 THEN k + 1 ELSE f

SpokenIn(a, b) == {j \in Spoken : a <= j /\ j <= b}

PartedAt(e) == \A j \in Spoken : j < e => ~Together(j, e - 1)

KeptTo(e, kept) == \A i \in Spoken : i \in kept <=> i < e /\ i \in LongSpeech

Opened(f, q, w, k) ==
  /\ q < SilenceWindows /\ f <= k - q /\ chunks[f] /\ chunks[k - q]
  /\ \A m \in (k - q + 1)..k : ~chunks[m]
  /\ Together(f, k) /\ w = Cardinality(SpokenIn(f, k))

(* Where a stretch of kept windows begins there is speech, and where it    *)
(* ends a segment does.                                                    *)
Bordered(kept) ==
  \A i \in kept : (i - 1 \in kept \/ chunks[i]) /\ (i + 1 \in kept \/ EndsAt(i))

Judging(f, q, w, kept, k) ==
  /\ Bordered(kept)
  /\ f \in 0..k /\ q \in Nat /\ w \in Nat /\ kept \in SUBSET (1..k)
  /\ PartedAt(Edge(f, k)) /\ KeptTo(Edge(f, k), kept)
  /\ IF f = 0 THEN q = 0 /\ w = 0 ELSE Opened(f, q, w, k)

LEMMA PartedWider ==
  ASSUME NEW a \in Int, NEW b \in Int, NEW c \in Int, NEW d \in Int,
         c <= a, b <= d, ~Together(a, b)
  PROVE  ~Together(c, d)
<1>1. SilenceWindows \in Nat /\ SilenceWindows > 0
  BY RecognitionSizes
<1>2. PICK k \in a..b : /\ k + SilenceWindows - 1 <= b
                        /\ \A m \in k..(k + SilenceWindows - 1) : ~chunks[m]
  BY DEF Together
<1>3. k \in c..d /\ k + SilenceWindows - 1 <= d
  BY <1>1, <1>2
<1> QED BY <1>2, <1>3 DEF Together

LEMMA SpokenFinite ==
  ASSUME chunks \in Seq(BOOLEAN)
  PROVE  /\ Spoken \subseteq 1..Len(chunks) /\ Len(chunks) \in Nat
         /\ \A S \in SUBSET Spoken : IsFiniteSet(S) /\ Cardinality(S) \in Nat
<1>1. Spoken \subseteq 1..Len(chunks) /\ Len(chunks) \in Nat
  BY DEF Spoken
<1>2. IsFiniteSet(1..Len(chunks))
  BY <1>1, FS_Interval
<1> QED BY <1>1, <1>2, FS_Subset, FS_CardinalityType

(* A segment that is over, or that the audio ends: what was said in it     *)
(* belongs together, and nothing else with it.                             *)
LEMMA SegmentCounts ==
  ASSUME chunks \in Seq(BOOLEAN), NEW k \in 0..Len(chunks), NEW f \in 1..k, NEW q \in Nat,
         NEW w \in Nat, PartedAt(f), Opened(f, q, w, k),
         \A j \in Spoken : j > k => ~Together(k - q, j)
  PROVE  \A i \in SpokenIn(f, k) : i \in LongSpeech <=> w >= MinSpeechWindows
<1> SUFFICES ASSUME NEW i \in SpokenIn(f, k)
             PROVE  i \in LongSpeech <=> w >= MinSpeechWindows
  OBVIOUS
<1>1. /\ Len(chunks) \in Nat /\ k \in Nat /\ f \in Nat /\ i \in Nat /\ i \in Spoken
      /\ \A j \in Spoken : j \in Nat /\ j >= 1
      /\ f <= i /\ i <= k /\ k - q \in Nat /\ f <= k - q
  BY SpokenFinite DEF SpokenIn, Opened
<1>2. i <= k - q
  BY <1>1 DEF Opened, Spoken, SpokenIn
<1>3. ASSUME NEW j \in Spoken, f <= j, j <= k PROVE Together(i, j) /\ Together(j, i)
  BY <1>1, <1>3, PartedWider DEF Opened
<1>4. ASSUME NEW j \in Spoken, j < f PROVE ~Together(j, i)
  <2>1. ~Together(j, f - 1)
    BY <1>4 DEF PartedAt
  <2> QED BY <1>1, <1>4, <2>1, PartedWider
<1>5. ASSUME NEW j \in Spoken, j > k PROVE ~Together(i, j)
  BY <1>1, <1>2, <1>5, PartedWider
<1>6. {j \in Spoken : Together(i, j) /\ Together(j, i)} = SpokenIn(f, k)
  <2>1. ASSUME NEW j \in Spoken PROVE Together(i, j) /\ Together(j, i) <=> f <= j /\ j <= k
    BY <1>1, <1>3, <1>4, <1>5
  <2> QED BY <2>1 DEF SpokenIn
<1> QED BY <1>1, <1>6 DEF LongSpeech, Opened

LEMMA BorderedWith ==
  ASSUME NEW kept, Bordered(kept), NEW f \in Nat, NEW k \in Nat, chunks[f], EndsAt(k)
  PROVE  Bordered(kept \cup f..k)
<1> SUFFICES ASSUME NEW i \in kept \cup f..k
             PROVE  /\ i - 1 \in kept \cup f..k \/ chunks[i]
                    /\ i + 1 \in kept \cup f..k \/ EndsAt(i)
  BY DEF Bordered
<1>1. CASE i \in kept
  BY <1>1 DEF Bordered
<1>2. CASE i \in f..k
  <2>1. i \in Nat /\ (i = f \/ i - 1 \in f..k) /\ (i = k \/ i + 1 \in f..k)
    BY <1>2
  <2> QED BY <2>1
<1> QED BY <1>1, <1>2

(* The five things that a window does.                                     *)
LEMMA SpeechOpens ==
  ASSUME chunks \in Seq(BOOLEAN), NEW k \in Nat, k + 1 <= Len(chunks), chunks[k + 1],
         NEW kept, Judging(0, 0, 0, kept, k)
  PROVE  Judging(k + 1, 0, 1, kept, k + 1)
<1>1. Edge(0, k) = k + 1 /\ Edge(k + 1, k + 1) = k + 1
  BY DEF Edge
<1>2. SpokenIn(k + 1, k + 1) = {k + 1}
  BY DEF SpokenIn, Spoken
<1>3. Cardinality(SpokenIn(k + 1, k + 1)) = 1
  BY <1>2, FS_Singleton
<1>4. Together(k + 1, k + 1)
  BY RecognitionSizes DEF Together
<1>5. Opened(k + 1, 0, 1, k + 1)
  BY <1>3, <1>4, RecognitionSizes DEF Opened
<1> QED BY <1>1, <1>5 DEF Judging

LEMMA SpeechGoesOn ==
  ASSUME chunks \in Seq(BOOLEAN), NEW k \in Nat, k + 1 <= Len(chunks), chunks[k + 1],
         NEW f, NEW q, NEW w, NEW kept, f # 0, Judging(f, q, w, kept, k)
  PROVE  Judging(f, 0, w + 1, kept, k + 1)
<1>1. f \in 1..k /\ q \in Nat /\ w \in Nat /\ kept \in SUBSET (1..k) /\ Opened(f, q, w, k)
  BY DEF Judging
<1>2. Edge(f, k) = f /\ Edge(f, k + 1) = f
  BY DEF Edge
<1>3. SpokenIn(f, k) \in SUBSET Spoken /\ k + 1 \notin SpokenIn(f, k)
  BY <1>1, SpokenFinite DEF SpokenIn
<1>4. SpokenIn(f, k + 1) = SpokenIn(f, k) \cup {k + 1}
  BY <1>1 DEF SpokenIn, Spoken
<1>5. Cardinality(SpokenIn(f, k + 1)) = w + 1
  BY <1>1, <1>3, <1>4, SpokenFinite, FS_AddElement DEF Opened
<1>6. Together(f, k + 1)
  <2> SUFFICES ASSUME NEW r \in f..(k + 1), r + SilenceWindows - 1 <= k + 1,
                      \A m \in r..(r + SilenceWindows - 1) : ~chunks[m]
               PROVE  FALSE
    BY DEF Together
  <2>1. SilenceWindows \in Nat /\ SilenceWindows > 0
    BY RecognitionSizes
  <2>2. k + 1 \notin r..(r + SilenceWindows - 1)
    OBVIOUS
  <2>3. r \in f..k /\ r + SilenceWindows - 1 <= k
    BY <1>1, <2>1, <2>2
  <2> QED BY <1>1, <2>3 DEF Opened, Together
<1>7. Opened(f, 0, w + 1, k + 1)
  <2>1. (k + 1) - 0 = k + 1 /\ ((k + 1) - 0 + 1)..(k + 1) = {} /\ f <= k + 1
    BY <1>1
  <2>2. 0 < SilenceWindows /\ chunks[f]
    BY <1>1, RecognitionSizes DEF Opened
  <2> QED BY <1>5, <1>6, <2>1, <2>2 DEF Opened
<1> QED BY <1>1, <1>2, <1>7 DEF Judging

LEMMA PauseBegins ==
  ASSUME chunks \in Seq(BOOLEAN), NEW k \in Nat, k + 1 <= Len(chunks), ~chunks[k + 1],
         NEW f, NEW q, NEW w, NEW kept, f # 0, Judging(f, q, w, kept, k),
         q + 1 < SilenceWindows
  PROVE  Judging(f, q + 1, w, kept, k + 1)
<1>1. f \in 1..k /\ q \in Nat /\ w \in Nat /\ kept \in SUBSET (1..k) /\ Opened(f, q, w, k)
  BY DEF Judging
<1>2. Edge(f, k) = f /\ Edge(f, k + 1) = f
  BY DEF Edge
<1>3. SpokenIn(f, k + 1) = SpokenIn(f, k)
  BY <1>1 DEF SpokenIn, Spoken
<1>4. k - q \in Nat /\ f <= k - q /\ chunks[k - q] /\ (k + 1) - (q + 1) = k - q
      /\ ((k + 1) - (q + 1)) + 1 = (k - q) + 1
  BY <1>1 DEF Opened
<1>5. \A m \in ((k - q) + 1)..(k + 1) : ~chunks[m]
  BY <1>1 DEF Opened
<1>6. Together(f, k + 1)
  <2> SUFFICES ASSUME NEW r \in f..(k + 1), r + SilenceWindows - 1 <= k + 1,
                      \A m \in r..(r + SilenceWindows - 1) : ~chunks[m]
               PROVE  FALSE
    BY DEF Together
  <2>1. SilenceWindows \in Nat
    BY RecognitionSizes
  <2>2. CASE r + SilenceWindows - 1 <= k
    <3>1. r \in f..k
      BY <1>1, <2>1, <2>2, RecognitionSizes
    <3> QED BY <1>1, <2>2, <3>1 DEF Opened, Together
  <2>3. CASE ~(r + SilenceWindows - 1 <= k)
    <3>1. k - q \in r..(r + SilenceWindows - 1)
      BY <1>1, <1>4, <2>1, <2>3
    <3> QED BY <1>4, <3>1
  <2> QED BY <2>2, <2>3
<1>7. Opened(f, q + 1, w, k + 1)
  BY <1>1, <1>3, <1>4, <1>5, <1>6 DEF Opened
<1> QED BY <1>1, <1>2, <1>7 DEF Judging

LEMMA NothingSaid ==
  ASSUME chunks \in Seq(BOOLEAN), NEW k \in Nat, k + 1 <= Len(chunks), ~chunks[k + 1],
         NEW kept, Judging(0, 0, 0, kept, k)
  PROVE  Judging(0, 0, 0, kept, k + 1)
<1>1. Edge(0, k) = k + 1 /\ Edge(0, k + 1) = k + 2 /\ kept \in SUBSET (1..k)
  BY DEF Edge, Judging
<1>2. ASSUME NEW j \in Spoken, j < k + 2 PROVE j < k + 1 /\ ~Together(j, k + 1)
  <2>1. j \in Nat /\ j # k + 1
    BY SpokenFinite DEF Spoken
  <2>2. ~Together(j, k)
    BY <1>1, <1>2, <2>1 DEF Judging, PartedAt
  <2> QED BY <1>2, <2>1, <2>2, PartedWider
<1>3. PartedAt(k + 2)
  BY <1>2 DEF PartedAt
<1>4. KeptTo(k + 2, kept)
  <2>1. \A j \in Spoken : j < k + 2 <=> j < k + 1
    BY <1>2, SpokenFinite
  <2> QED BY <1>1, <2>1 DEF Judging, KeptTo
<1> QED BY <1>1, <1>3, <1>4 DEF Judging

LEMMA PauseParts ==
  ASSUME chunks \in Seq(BOOLEAN), NEW k \in Nat, k + 1 <= Len(chunks), ~chunks[k + 1],
         NEW f, NEW q, NEW w, NEW kept, f # 0, Judging(f, q, w, kept, k),
         q + 1 >= SilenceWindows
  PROVE  Judging(0, 0, 0, kept \cup (IF w >= MinSpeechWindows THEN f..k ELSE {}), k + 1)
<1>1. f \in 1..k /\ q \in Nat /\ w \in Nat /\ kept \in SUBSET (1..k) /\ Opened(f, q, w, k)
      /\ PartedAt(f) /\ KeptTo(f, kept)
  BY DEF Judging, Edge
<1>2. SilenceWindows \in Nat /\ SilenceWindows = q + 1
  BY <1>1, RecognitionSizes DEF Opened
<1>3. k - q \in Nat /\ f <= k - q
  BY <1>1 DEF Opened
<1>4. ~Together(k - q, k + 1)
  <2>1. (k - q) + 1 \in (k - q)..(k + 1) /\ ((k - q) + 1) + SilenceWindows - 1 = k + 1
    BY <1>1, <1>2, <1>3
  <2>2. \A m \in ((k - q) + 1)..(k + 1) : ~chunks[m]
    BY <1>1 DEF Opened
  <2> QED BY <2>1, <2>2 DEF Together
<1>5. ASSUME NEW j \in Spoken, j > k PROVE ~Together(k - q, j)
  <2>1. j \in Nat /\ k + 1 <= j
    BY <1>5, SpokenFinite
  <2> QED BY <1>3, <1>4, <2>1, PartedWider
<1>6. \A i \in SpokenIn(f, k) : i \in LongSpeech <=> w >= MinSpeechWindows
  <2>1. k \in 0..Len(chunks)
    BY SpokenFinite
  <2> QED BY <1>1, <1>5, <2>1, SegmentCounts
<1>7. PartedAt(k + 2)
  <2> SUFFICES ASSUME NEW j \in Spoken, j < k + 2 PROVE ~Together(j, k + 1)
    BY DEF PartedAt
  <2>1. j \in Nat
    BY SpokenFinite
  <2>2. CASE j < f
    <3>1. ~Together(j, f - 1)
      BY <1>1, <2>2 DEF PartedAt
    <3> QED BY <1>1, <2>1, <3>1, PartedWider
  <2>3. CASE ~(j < f)
    <3>1. j <= k - q
      BY <1>1, <2>1, <2>3 DEF Opened, Spoken
    <3> QED BY <1>3, <1>4, <2>1, <3>1, PartedWider
  <2> QED BY <2>2, <2>3
<1> DEFINE all == kept \cup (IF w >= MinSpeechWindows THEN f..k ELSE {})
<1>8. KeptTo(k + 2, all)
  <2> SUFFICES ASSUME NEW i \in Spoken PROVE i \in all <=> i < k + 2 /\ i \in LongSpeech
    BY DEF KeptTo
  <2>1. i \in Nat /\ i # k + 1
    BY SpokenFinite DEF Spoken
  <2>2. CASE i < f
    BY <1>1, <2>1, <2>2 DEF KeptTo
  <2>3. CASE f <= i /\ i <= k
    <3>1. i \in SpokenIn(f, k) /\ i \notin kept
      BY <1>1, <2>1, <2>3 DEF SpokenIn, KeptTo
    <3> QED BY <1>1, <1>6, <2>1, <2>3, <3>1
  <2>4. CASE k < i
    BY <1>1, <2>1, <2>4
  <2> QED BY <1>1, <2>1, <2>2, <2>3, <2>4
<1>9. all \in SUBSET (1..(k + 1)) /\ Edge(0, k + 1) = k + 2
  BY <1>1 DEF Edge
<1>11. Bordered(all)
  <2>1. Bordered(kept)
    BY DEF Judging
  <2>2. EndsAt(k)
    <3>1. SilenceWindows <= k + 1
      BY <1>1, <1>2, <1>3
    <3>2. \A m \in ((k - q) + 1)..k : ~chunks[m]
      BY <1>1 DEF Opened
    <3>3. \A m \in ((k - q) + 1)..(k + 1) : ~chunks[m]
      BY <1>1, <1>3, <3>2
    <3>4. k + 2 - SilenceWindows = (k - q) + 1
      BY <1>1, <1>2, <1>3
    <3>5. \A m \in (k + 2 - SilenceWindows)..(k + 1) : ~chunks[m]
      BY <3>3, <3>4
    <3> QED BY <3>1, <3>5 DEF EndsAt
  <2>3. chunks[f] /\ f \in Nat
    BY <1>1 DEF Opened
  <2>4. Bordered(kept \cup f..k)
    BY <2>1, <2>2, <2>3, BorderedWith
  <2> QED BY <2>1, <2>4
<1> HIDE DEF all
<1>10. Judging(0, 0, 0, all, k + 1)
  BY <1>7, <1>8, <1>9, <1>11 DEF Judging
<1> QED BY <1>10 DEF all

SegmentState == [from : Nat, silent : Nat, spoken : Nat, kept : SUBSET Nat]

JudgingState(s, k) ==
  s \in SegmentState /\ Judging(s.from, s.silent, s.spoken, s.kept, k)

LEMMA JudgeKeeps ==
  ASSUME chunks \in Seq(BOOLEAN), NEW k \in Nat, k + 1 <= Len(chunks),
         NEW s, JudgingState(s, k)
  PROVE  JudgingState(JudgeWindow(s, k + 1), k + 1)
<1>2. SUFFICES ASSUME NEW t, t = JudgeWindow(s, k + 1) PROVE JudgingState(t, k + 1)
  OBVIOUS
<1>1. s \in SegmentState /\ s.from \in Nat /\ s.silent \in Nat /\ s.spoken \in Nat
      /\ s.kept \in SUBSET Nat
  BY DEF JudgingState, SegmentState
<1>3. CASE chunks[k + 1]
  <2> DEFINE from == IF s.from = 0 THEN k + 1 ELSE s.from
             spoken == s.spoken + 1
  <2>1. t = [s EXCEPT !.from = from, !.silent = 0, !.spoken = spoken]
    BY <1>2, <1>3 DEF JudgeWindow
  <2>5. from \in Nat /\ spoken \in Nat
    BY <1>1
  <2> HIDE DEF from, spoken
  <2>2. /\ t.from = from /\ t.silent = 0 /\ t.spoken = spoken /\ t.kept = s.kept
        /\ t \in SegmentState
    BY <1>1, <2>1, <2>5 DEF SegmentState
  <2>3. CASE s.from = 0
    <3>1. s.silent = 0 /\ s.spoken = 0
      BY <2>3 DEF JudgingState, Judging
    <3>2. Judging(0, 0, 0, s.kept, k)
      BY <2>3, <3>1 DEF JudgingState
    <3>3. Judging(k + 1, 0, 1, s.kept, k + 1)
      BY <1>3, <3>2, SpeechOpens
    <3>4. from = k + 1 /\ spoken = 1
      BY <2>3, <3>1 DEF from, spoken
    <3> QED BY <2>2, <3>3, <3>4 DEF JudgingState
  <2>4. CASE s.from # 0
    <3>1. Judging(s.from, 0, s.spoken + 1, s.kept, k + 1)
      BY <1>3, <2>4, SpeechGoesOn DEF JudgingState
    <3>2. from = s.from /\ spoken = s.spoken + 1
      BY <2>4 DEF from, spoken
    <3> QED BY <2>2, <3>1, <3>2 DEF JudgingState
  <2> QED BY <2>3, <2>4
<1>4. CASE ~chunks[k + 1] /\ s.from # 0 /\ s.silent + 1 >= SilenceWindows
  <2> DEFINE all == s.kept \cup (IF s.spoken >= MinSpeechWindows THEN s.from..k ELSE {})
  <2>1. t = [NoSegment EXCEPT !.kept = s.kept \cup Segment(s, (k + 1) - 1)]
    BY <1>2, <1>4 DEF JudgeWindow
  <2>2. s.kept \cup Segment(s, (k + 1) - 1) = all
    <3>1. (k + 1) - 1 = k
      OBVIOUS
    <3> QED BY <1>4, <3>1 DEF Segment
  <2>3. Judging(0, 0, 0, all, k + 1)
    BY <1>4, PauseParts DEF JudgingState
  <2>4. all \in SUBSET Nat
    BY <1>1
  <2> HIDE DEF all
  <2>5. t.from = 0 /\ t.silent = 0 /\ t.spoken = 0 /\ t.kept = all /\ t \in SegmentState
    BY <2>1, <2>2, <2>4 DEF NoSegment, SegmentState
  <2> QED BY <2>3, <2>5 DEF JudgingState
<1>5. CASE ~chunks[k + 1] /\ ~(s.from # 0 /\ s.silent + 1 >= SilenceWindows)
  <2> DEFINE silent == IF s.from = 0 THEN 0 ELSE s.silent + 1
  <2>1. t = [s EXCEPT !.silent = silent]
    BY <1>2, <1>5 DEF JudgeWindow
  <2>5. silent \in Nat
    BY <1>1
  <2> HIDE DEF silent
  <2>2. /\ t.from = s.from /\ t.silent = silent /\ t.spoken = s.spoken /\ t.kept = s.kept
        /\ t \in SegmentState
    BY <1>1, <2>1, <2>5 DEF SegmentState
  <2>3. CASE s.from = 0
    <3>1. s.silent = 0 /\ s.spoken = 0
      BY <2>3 DEF JudgingState, Judging
    <3>2. Judging(0, 0, 0, s.kept, k)
      BY <2>3, <3>1 DEF JudgingState
    <3>3. Judging(0, 0, 0, s.kept, k + 1)
      BY <1>5, <3>2, NothingSaid
    <3>4. silent = 0
      BY <2>3 DEF silent
    <3> QED BY <2>2, <2>3, <3>1, <3>3, <3>4 DEF JudgingState
  <2>4. CASE s.from # 0
    <3>1. s.silent + 1 < SilenceWindows
      BY <1>1, <1>5, <2>4, RecognitionSizes
    <3>2. Judging(s.from, s.silent + 1, s.spoken, s.kept, k + 1)
      BY <1>5, <2>4, <3>1, PauseBegins DEF JudgingState
    <3>3. silent = s.silent + 1
      BY <2>4 DEF silent
    <3> QED BY <2>2, <3>2, <3>3 DEF JudgingState
  <2> QED BY <2>3, <2>4
<1> QED BY <1>3, <1>4, <1>5

LEMMA NothingJudged ==
  ASSUME chunks \in Seq(BOOLEAN)
  PROVE  JudgingState(NoSegment, 0)
<1>1. NoSegment \in SegmentState /\ NoSegment.from = 0 /\ NoSegment.silent = 0
      /\ NoSegment.spoken = 0 /\ NoSegment.kept = {}
  BY DEF NoSegment, SegmentState
<1>2. \A j \in Spoken : j \in Nat /\ ~(j < 1)
  BY SpokenFinite
<1>3. Judging(0, 0, 0, {}, 0)
  BY <1>2 DEF Judging, Edge, PartedAt, KeptTo, Bordered
<1> QED BY <1>1, <1>3 DEF JudgingState

(* What the VAD leaves of the audio has the long speech and no other.      *)
LEMMA SegmentsHoldSpeech ==
  ASSUME chunks \in Seq(BOOLEAN)
  PROVE  /\ SpeechSegments \cap Spoken = LongSpeech
         /\ SpeechSegments \subseteq 1..Len(chunks) /\ Bordered(SpeechSegments)
<1> DEFINE n == Len(chunks)
           Done == {k \in Nat : k <= n => JudgingState(Judged[1..k], k)}
           s == Judged[1..n]
<1>1. n \in Nat /\ DOMAIN Place = 1..n
  BY DEF Place
<1>2. 0 \in Done
  BY NothingJudged, JudgedSteps
<1>3. ASSUME NEW k \in Nat, k \in Done PROVE k + 1 \in Done
  <2> SUFFICES ASSUME k + 1 <= n PROVE JudgingState(Judged[1..(k + 1)], k + 1)
    OBVIOUS
  <2>1. JudgingState(Judged[1..k], k)
    BY <1>1, <1>3
  <2> QED BY <2>1, JudgedSteps, JudgeKeeps
<1> HIDE DEF Done
<1>4. n \in Done
  BY <1>1, <1>2, <1>3, Induct
<1>5. JudgingState(s, n)
  BY <1>1, <1>4 DEF Done
<1>6. SpeechSegments = s.kept \cup Segment(s, n)
  BY <1>1, SegmentsFolded
<1> HIDE DEF s
<1>7. s \in SegmentState /\ Judging(s.from, s.silent, s.spoken, s.kept, n)
  BY <1>5 DEF JudgingState
<1>8. PICK f \in Nat, q \in Nat, w \in Nat, kept \in SUBSET Nat :
        s.from = f /\ s.silent = q /\ s.spoken = w /\ s.kept = kept
  BY <1>7 DEF SegmentState
<1>9. /\ Judging(f, q, w, kept, n)
      /\ SpeechSegments = kept \cup (IF f # 0 /\ w >= MinSpeechWindows THEN f..n ELSE {})
  BY <1>6, <1>7, <1>8 DEF Segment
<1>10. Spoken \subseteq 1..n /\ LongSpeech \subseteq Spoken
  BY SpokenFinite DEF LongSpeech
<1>11. ASSUME NEW i \in Spoken PROVE i \in SpeechSegments <=> i \in LongSpeech
  <2>1. i \in Nat /\ i <= n
    BY <1>10
  <2>2. CASE f = 0
    <3>1. KeptTo(n + 1, kept)
      BY <1>9, <2>2 DEF Judging, Edge
    <3> QED BY <1>1, <1>9, <2>1, <2>2, <3>1 DEF KeptTo
  <2>3. CASE f # 0
    <3>1. f \in 1..n /\ Opened(f, q, w, n) /\ PartedAt(f) /\ KeptTo(f, kept)
      BY <1>1, <1>9, <2>3 DEF Judging, Edge
    <3>2. \A j \in Spoken : ~(j > n)
      BY <1>1, <1>10
    <3>3. \A j \in SpokenIn(f, n) : j \in LongSpeech <=> w >= MinSpeechWindows
      BY <1>1, <3>1, <3>2, SegmentCounts
    <3>4. CASE i < f
      BY <1>9, <2>1, <3>1, <3>4 DEF KeptTo
    <3>5. CASE f <= i
      <4>1. i \in SpokenIn(f, n) /\ i \notin kept
        BY <2>1, <3>1, <3>5 DEF SpokenIn, KeptTo
      <4> QED BY <1>9, <2>1, <2>3, <3>3, <3>5, <4>1
    <3> QED BY <2>1, <3>1, <3>4, <3>5
  <2> QED BY <2>2, <2>3
<1>12. kept \subseteq 1..n /\ f \in 0..n /\ Bordered(kept)
  BY <1>9 DEF Judging
<1>13. SpeechSegments \subseteq 1..n
  <2>1. f # 0 => f..n \subseteq 1..n
    BY <1>1, <1>12
  <2> QED BY <1>9, <1>12, <2>1
<1>14. Bordered(SpeechSegments)
  <2>1. CASE f # 0 /\ w >= MinSpeechWindows
    <3>1. chunks[f] /\ EndsAt(n)
      BY <1>9, <2>1 DEF Judging, Opened, EndsAt
    <3> QED BY <1>1, <1>9, <1>12, <2>1, <3>1, BorderedWith
  <2>2. CASE ~(f # 0 /\ w >= MinSpeechWindows)
    BY <1>9, <1>12, <2>2
  <2> QED BY <2>1, <2>2
<1> QED BY <1>10, <1>11, <1>13, <1>14

(* Where windows end and where they are cut, in order; a cut comes early   *)
(* or in place.                                                            *)
LEMMA TimesKeeps ==
  ASSUME NEW a \in Nat, NEW b \in Nat, NEW c \in Nat, b <= c
  PROVE  a * b <= a * c /\ b * a <= c * a /\ a * b \in Nat /\ b * a \in Nat
<1>1. a * b \in Nat /\ b * a \in Nat
  BY SMTT(30)
<1>2. a * b <= a * c
  BY SMTT(30)
<1>3. b * a <= c * a
  BY SMTT(30)
<1> QED BY <1>1, <1>2, <1>3

LEMMA WindowsCut ==
  ASSUME ask \in Wyoming
  PROVE  /\ \A i \in Nat : EndOf(i) \in Nat /\ CutAt(i) \in Nat /\ CutAt(i) <= EndOf(i)
         /\ \A i, j \in Nat : i <= j => EndOf(i) <= EndOf(j) /\ CutAt(i) <= CutAt(j)
<1>1. ask.rate \in Nat /\ Second \in Nat /\ Second > 0 /\ WindowMs \in Nat
  BY RecognitionSizes DEF Wyoming
<1> DEFINE c == ask.rate \div Second
           u == WindowMs * ask.rate
           v == WindowMs * (c * Second)
<1>2. c \in Nat /\ c * Second \in Nat /\ c * Second <= ask.rate
  BY <1>1
<1> HIDE DEF c
<1>3. u \in Nat /\ v \in Nat /\ v <= u
  BY <1>1, <1>2, TimesKeeps
<1>4. ASSUME NEW i \in Nat PROVE EndOf(i) = i * u /\ CutAt(i) = i * v
  <2>1. i * WindowMs * ask.rate = i * (WindowMs * ask.rate)
    BY <1>1
  <2>2. i * WindowMs * c * Second = i * (WindowMs * (c * Second))
    BY <1>1, <1>2
  <2> QED BY <2>1, <2>2 DEF EndOf, CutAt, c
<1> HIDE DEF u, v
<1>5. ASSUME NEW i \in Nat PROVE EndOf(i) \in Nat /\ CutAt(i) \in Nat /\ CutAt(i) <= EndOf(i)
  BY <1>3, <1>4, TimesKeeps
<1>6. ASSUME NEW i \in Nat, NEW j \in Nat, i <= j
      PROVE  EndOf(i) <= EndOf(j) /\ CutAt(i) <= CutAt(j)
  BY <1>3, <1>4, <1>6, TimesKeeps
<1> QED BY <1>5, <1>6

(* What of a Wyoming client's audio the recognizer has, when it has it.    *)
HeardIn(pieces, x) == \E p \in pieces : p.from <= x /\ x < p.to

LongHeard(pieces, how) ==
  \A i \in LongSpeech : \A x \in Span(i) :
    \/ HeardIn(pieces, x)
    \/ how = "extracted" /\ \E k \in i..Len(chunks) : EndsAt(k) /\ CutAt(k) <= x

ShortUnheard(pieces) ==
  \A j \in Spoken \ LongSpeech : \A x \in Span(j) :
    HeardIn(pieces, x) => \E i \in LongSpeech : j < i /\ CutAt(i - 1) <= x

FedWell(pieces, how) ==
  /\ LongHeard(pieces, how)
  /\ how = "extracted" /\ LongSpeech # {} => ShortUnheard(pieces)

Pieces == {Piece(CutAt(i - 1), CutAt(i)) : i \in SpeechSegments}

LEMMA WholeHeard ==
  ASSUME chunks \in Seq(BOOLEAN), ask \in Wyoming, NEW how
  PROVE  LongHeard({Whole}, how)
<1> SUFFICES ASSUME NEW i \in LongSpeech, NEW x \in Span(i) PROVE HeardIn({Whole}, x)
  BY DEF LongHeard
<1>1. i \in 1..Len(chunks) /\ Len(chunks) \in Nat /\ i \in Nat /\ i - 1 \in Nat
  BY SpokenFinite DEF LongSpeech
<1>2. /\ EndOf(i - 1) \in Nat /\ EndOf(i) \in Nat /\ EndOf(Len(chunks)) \in Nat
      /\ EndOf(i) <= EndOf(Len(chunks))
  <2>1. i <= Len(chunks)
    BY <1>1
  <2> QED BY <1>1, <2>1, WindowsCut, Zenon
<1>3. 0 <= x /\ x < EndOf(Len(chunks))
  BY <1>2 DEF Span
<1>4. Whole.from = 0 /\ Whole.to = EndOf(Len(chunks))
  BY DEF Whole, Piece
<1> QED BY <1>3, <1>4 DEF HeardIn

(* Pieces of windows: the speech of a segment is in them up to the cut of  *)
(* the segment's end.                                                      *)
LEMMA PiecesHeard ==
  ASSUME chunks \in Seq(BOOLEAN), ask \in Wyoming
  PROVE  LongHeard(Pieces, "extracted")
<1> SUFFICES ASSUME NEW i \in LongSpeech, NEW x \in Span(i),
                    ~\E k \in i..Len(chunks) : EndsAt(k) /\ CutAt(k) <= x
             PROVE  HeardIn(Pieces, x)
  BY DEF LongHeard
<1> DEFINE n == Len(chunks)
<1>1. /\ n \in Nat /\ i \in SpeechSegments /\ i \in 1..n /\ i \in Nat
      /\ SpeechSegments \subseteq 1..n /\ Bordered(SpeechSegments)
  BY SegmentsHoldSpeech
<1>2. i - 1 \in Nat /\ n + 1 \notin SpeechSegments
  BY <1>1
<1>3. x \in Nat /\ CutAt(i - 1) <= x
  <2>1. CutAt(i - 1) \in Nat /\ CutAt(i - 1) <= EndOf(i - 1) /\ EndOf(i - 1) \in Nat
        /\ EndOf(i) \in Nat
    BY <1>1, <1>2, WindowsCut, Zenon
  <2> QED BY <2>1 DEF Span
<1> HIDE DEF n
<1> DEFINE Ends == {k \in i..n : k + 1 \notin SpeechSegments}
<1>4. Ends \subseteq Nat /\ n \in Ends
  BY <1>1, <1>2
<1>5. PICK k \in Ends : \A m \in Ends : k <= m
  BY <1>4, LeastNat
<1>6. k \in i..n /\ k + 1 \notin SpeechSegments /\ k \in Nat
  BY <1>1, <1>5
<1>7. \A j \in i..k : j \in SpeechSegments
  <2> SUFFICES ASSUME NEW j \in i..k, j # i PROVE j \in SpeechSegments
    BY <1>1
  <2>1. j - 1 \in i..n /\ (j - 1) + 1 = j /\ ~(k <= j - 1)
    BY <1>1, <1>6
  <2> QED BY <1>5, <2>1
<1>8. EndsAt(k)
  BY <1>1, <1>6, <1>7 DEF Bordered
<1>9. x < CutAt(k)
  BY <1>3, <1>6, <1>8, WindowsCut DEF n
<1> DEFINE Behind == {j \in i..k : x < CutAt(j)}
<1>10. Behind \subseteq Nat /\ k \in Behind
  BY <1>1, <1>6, <1>9
<1>11. PICK j \in Behind : \A m \in Behind : j <= m
  BY <1>10, LeastNat
<1>12. j \in i..k /\ j \in Nat /\ j - 1 \in Nat /\ x < CutAt(j) /\ j \in SpeechSegments
  BY <1>1, <1>6, <1>7, <1>11
<1>13. CutAt(j - 1) <= x
  <2>1. CASE j = i
    BY <1>3, <2>1
  <2>2. CASE j # i
    <3>1. j - 1 \in i..k /\ ~(j <= j - 1)
      BY <1>1, <1>12, <2>2
    <3>2. ~(x < CutAt(j - 1))
      BY <1>11, <3>1
    <3> QED BY <1>3, <1>12, <3>2, WindowsCut
  <2> QED BY <2>1, <2>2
<1>14. Piece(CutAt(j - 1), CutAt(j)) \in Pieces
  BY <1>12 DEF Pieces
<1> QED BY <1>12, <1>13, <1>14 DEF HeardIn, Piece

(* A piece that reaches back into shorter speech is of a segment that      *)
(* begins, with speech that is long enough, after it.                      *)
LEMMA PiecesUnheard ==
  ASSUME chunks \in Seq(BOOLEAN), ask \in Wyoming
  PROVE  ShortUnheard(Pieces)
<1> SUFFICES ASSUME NEW j \in Spoken \ LongSpeech, NEW x \in Span(j),
                    HeardIn(Pieces, x)
             PROVE  \E i \in LongSpeech : j < i /\ CutAt(i - 1) <= x
  BY DEF ShortUnheard
<1>1. /\ SpeechSegments \subseteq 1..Len(chunks) /\ Len(chunks) \in Nat
      /\ Bordered(SpeechSegments) /\ SpeechSegments \cap Spoken = LongSpeech
      /\ j \in 1..Len(chunks) /\ j \notin SpeechSegments
  BY SegmentsHoldSpeech, SpokenFinite
<1>2. PICK i \in SpeechSegments : CutAt(i - 1) <= x /\ x < CutAt(i)
  BY DEF HeardIn, Pieces, Piece
<1>3. i \in Nat /\ i - 1 \in Nat /\ j \in Nat /\ j - 1 \in Nat /\ i >= 1
  BY <1>1, <1>2
<1>4. x \in Nat /\ EndOf(j - 1) <= x
  BY <1>3, WindowsCut DEF Span
<1>5. j <= i
  <2> SUFFICES ASSUME i <= j - 1 PROVE FALSE
    BY <1>3
  <2>1. /\ CutAt(i) <= EndOf(i) /\ EndOf(i) <= EndOf(j - 1)
        /\ CutAt(i) \in Nat /\ EndOf(i) \in Nat /\ EndOf(j - 1) \in Nat
    BY <1>3, WindowsCut
  <2> QED BY <1>2, <1>4, <2>1
<1> DEFINE Starts == {a \in Nat : a <= i /\ a..i \subseteq SpeechSegments}
<1>6. Starts \subseteq Nat /\ i \in Starts
  BY <1>2, <1>3
<1>7. PICK a \in Starts : \A m \in Starts : a <= m
  BY <1>6, LeastNat
<1>8. a \in SpeechSegments /\ a \in Nat /\ a <= i /\ a - 1 \in Nat
  BY <1>1, <1>3, <1>7
<1>9. j < a
  BY <1>1, <1>3, <1>5, <1>7
<1>10. a - 1 \notin SpeechSegments
  <2> SUFFICES ASSUME a - 1 \in SpeechSegments PROVE FALSE
    OBVIOUS
  <2>1. (a - 1)..i \subseteq SpeechSegments
    BY <1>3, <1>7, <1>8
  <2>2. a - 1 \in Starts /\ ~(a <= a - 1)
    BY <1>3, <1>8, <2>1
  <2> QED BY <1>7, <2>2
<1>11. chunks[a]
  BY <1>1, <1>8, <1>10 DEF Bordered
<1>12. a \in LongSpeech
  BY <1>1, <1>8, <1>11 DEF Spoken
<1>13. CutAt(a - 1) <= x
  <2>1. /\ CutAt(a - 1) <= CutAt(i - 1) /\ CutAt(a - 1) \in Nat /\ CutAt(i - 1) \in Nat
    <3>1. a - 1 <= i - 1
      BY <1>3, <1>8
    <3> QED BY <1>3, <1>8, <3>1, WindowsCut, Zenon
  <2> QED BY <1>2, <1>4, <2>1
<1> QED BY <1>9, <1>12, <1>13

-----------------------------------------------------------------------------
LEMMA FedHolds ==
  ASSUME chunks \in Seq(BOOLEAN), ask \in Wyoming, NEW f \in {Extracted, {Whole}}
  PROVE  FedWell(f, IF f = Extracted THEN "extracted" ELSE "whole")
<1>1. SpeechSegments \cap Spoken = LongSpeech
  BY SegmentsHoldSpeech
<1>2. CASE SpeechSegments = {}
  <2>1. LongSpeech = {}
    BY <1>1, <1>2
  <2> QED BY <2>1 DEF FedWell, LongHeard
<1>3. CASE SpeechSegments # {}
  <2>1. Extracted = Pieces
    BY <1>3 DEF Extracted, Pieces
  <2>2. CASE f = Extracted
    BY <2>1, <2>2, PiecesHeard, PiecesUnheard DEF FedWell
  <2>3. CASE f # Extracted
    <3>1. f = {Whole} /\ "whole" # "extracted"
      BY <2>3
    <3> QED BY <2>3, <3>1, WholeHeard DEF FedWell
  <2> QED BY <2>2, <2>3
<1> QED BY <1>2, <1>3


WindowsHeard ==
  /\ chunks \in Seq(BOOLEAN)
  /\ task = "recognize" /\ ask.kind = "wyoming" => FedWell(fed, answer)

HeardInv == UploadRead /\ WindowsHeard

LEMMA WindowsInitEstablishes == RecognitionInit => WindowsHeard
BY DEF RecognitionInit, WindowsHeard

LEMMA WindowsStepPreserves == HeardInv /\ [RecognitionNext]_recognitionVars => WindowsHeard'
<1> SUFFICES ASSUME HeardInv, [RecognitionNext]_recognitionVars PROVE WindowsHeard'
  OBVIOUS
<1>1. chunks \in Seq(BOOLEAN) /\ WindowsHeard /\ UploadRead
  BY DEF HeardInv, WindowsHeard
<1>2. CASE UNCHANGED recognitionVars
  <2>1. FedWell(fed, answer)' <=> FedWell(fed, answer)
    BY <1>2 DEF recognitionVars, FedWell, LongHeard, ShortUnheard, LongSpeech, Spoken,
       Together, HeardIn, Span, EndsAt, EndOf, CutAt
  <2> QED BY <1>1, <1>2, <2>1 DEF recognitionVars, WindowsHeard
<1>4. CASE Validate \/ Read \/ EndOfFile \/ Convert \/ Recognize \/ Translate \/ LogHistory
           \/ Diarize
  <2>1. ask' = ask /\ chunks' = chunks
    BY <1>4 DEF Validate, Read, EndOfFile, Convert, Recognize, Translate, LogHistory, Diarize
  <2>2. ask.kind # "wyoming"
    <3>1. CASE Recognize \/ Translate
      BY <3>1 DEF Recognize, Translate
    <3>2. CASE ~(Recognize \/ Translate)
      BY <1>1, <1>4, <3>2 DEF Validate, Read, EndOfFile, Convert, LogHistory, Diarize, UploadRead
    <3> QED BY <3>1, <3>2
  <2> QED BY <1>1, <2>1, <2>2 DEF WindowsHeard
<1>5. CASE Transcribe \/ Transcript
  <2>1. chunks' = <<>> /\ task' = "event"
    BY <1>1, <1>5 DEF Transcribe, Transcript
  <2> QED BY <2>1 DEF WindowsHeard
<1>6. CASE \E speech_ \in BOOLEAN : AudioChunk(speech_)
  <2>1. PICK speech_ \in BOOLEAN : AudioChunk(speech_)
    BY <1>6
  <2> QED BY <1>1, <2>1 DEF AudioChunk, WindowsHeard
<1>7. CASE AudioStop
  <2>1. chunks' = chunks /\ ask' = ask
    BY <1>7 DEF AudioStop
  <2>2. CASE task' # "recognize"
    BY <1>1, <2>1, <2>2 DEF WindowsHeard
  <2>3. CASE task' = "recognize"
    <3>1. task = "event"
      BY <1>7 DEF AudioStop
    <3>2. ask.kind = "wyoming" /\ ask \in Wyoming
      BY <1>1, <3>1, Asked DEF UploadRead
    <3>3. /\ fed' \in {Extracted, {Whole}}
          /\ answer' = IF fed' = Extracted THEN "extracted" ELSE "whole"
      BY <1>7, <2>3, <3>1 DEF AudioStop, Answer
    <3>4. FedWell(fed', answer')
      BY <1>1, <3>2, <3>3, FedHolds
    <3>5. FedWell(fed, answer)'
      <4>1. LongSpeech' = LongSpeech /\ Spoken' = Spoken
        BY <2>1 DEF LongSpeech, Spoken, Together
      <4>2. \A i : /\ Span(i)' = Span(i) /\ CutAt(i)' = CutAt(i) /\ CutAt(i - 1)' = CutAt(i - 1)
                   /\ EndsAt(i)' <=> EndsAt(i)
        BY <2>1 DEF Span, EndsAt, EndOf, CutAt
      <4>3. LongHeard(fed, answer)'
        BY <2>1, <3>4, <4>1, <4>2 DEF FedWell, LongHeard, HeardIn
      <4>4. ShortUnheard(fed') => ShortUnheard(fed)'
        BY <2>1, <4>1, <4>2 DEF ShortUnheard, HeardIn
      <4> QED BY <3>4, <4>1, <4>3, <4>4 DEF FedWell
    <3> QED BY <1>1, <2>1, <3>5 DEF WindowsHeard
  <2> QED BY <2>2, <2>3
<1> QED
  BY <1>2, <1>4, <1>5, <1>6, <1>7 DEF RecognitionNext

LEMMA HeardInvImplies == HeardInv => HeardWhole
BY DEF HeardInv, UploadRead, WindowsHeard, FedWell, LongHeard, ShortUnheard, HeardIn, Heard,
   HeardWhole

-----------------------------------------------------------------------------
(* A use that does not move keeps its invariant.                           *)
THEOREM TranscriptionInvariance == Spec => [](SessionInv /\ ClientInv /\ HeardInv)
<1>1. Init => SessionInv /\ ClientInv /\ HeardInv
  BY SessionInitEstablishes, ClientInitEstablishes, UploadInitEstablishes, WindowsInitEstablishes
     DEF HeardInv, Init, SessionIdle, ClientIdle, RecognitionIdle
<1>2. SessionInv /\ ClientInv /\ HeardInv /\ [Next]_vars
        => (SessionInv /\ ClientInv /\ HeardInv)'
  <2>1. [Next]_vars => /\ [SessionNext]_sessionVars /\ [ClientNext]_clientVars
                       /\ [RecognitionNext]_recognitionVars
    BY DEF Next, vars, SessionStep, CallStep, RequestStep
  <2> QED
    BY <2>1, SessionStepPreserves, ClientStepPreserves, UploadStepPreserves,
       WindowsStepPreserves DEF HeardInv
<1> QED BY <1>1, <1>2, PTL DEF Spec

(* However the packets, the chunks and the windows cut the audio and       *)
(* wherever an utterance is forced to end, the utterances hold it in order *)
(* and none of it twice, and when the session has ended every unit that    *)
(* was judged speech was in one of them.                                   *)
THEOREM SessionHearsOnce == Spec => []SpeechOnce
BY TranscriptionInvariance, SessionInvImplies, PTL

(* The Python client sends the chunks off in order and none twice, over    *)
(* however many connections; and a call that returns without an error has  *)
(* sent off all that it took from its source.  That was the whole source   *)
(* unless the source raised or is an asynchronous generator that the       *)
(* client itself closed by cancelling the wait for its next chunk: of such *)
(* a generator the rest is dropped, and the theorem does not exclude it.   *)
THEOREM ClientSkipsNothing == Spec => []NothingSkipped
BY TranscriptionInvariance, ClientInvImplies, PTL

(* The recognizer is given every byte of an upload, whatever the size of a *)
(* read, and never more than may be uploaded; and of what a Wyoming client *)
(* said, at any sample rate, all speech that is long enough, however       *)
(* pauses cut it, up to the place where the end of its segment is cut.     *)
(* Where there is such speech it is given no shorter one before the place  *)
(* where the beginning of a later segment is cut, unless the audio was     *)
(* left as it is.                                                          *)
THEOREM RecognizerHearsWhole == Spec => []HeardWhole
BY TranscriptionInvariance, HeardInvImplies, PTL
=============================================================================
