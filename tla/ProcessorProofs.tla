-------------------------- MODULE ProcessorProofs --------------------------
(***************************************************************************)
(* What one turn leaves behind, for every number of calls, signatures,     *)
(* events and parts, every order of the events and every doom-loop         *)
(* threshold.                                                              *)
(***************************************************************************)
EXTENDS Processor, TLAPS

(* What a put changes: the store's copy of its own object, which is then that of
   memory or known to be lost. *)
LEMMA PutToolFacts ==
  ASSUME ProcTypeOK, tool' \in [Call -> ToolState], NEW c \in Call, PutTool(c)
  PROVE  /\ storedTool' \in [Call -> ToolState] /\ lostTool' \subseteq Call
         /\ UNCHANGED <<storedSeg, lostSeg, storedMessage, lostMessage>>
         /\ \A d \in Call : d # c => storedTool'[d] = storedTool[d] /\ (d \in lostTool' <=> d \in lostTool)
         /\ ctxDone \/ c \in lostTool' \/ storedTool'[c] = tool'[c]
         /\ storedTool'[c] \in {storedTool[c], tool'[c]}
  BY DEF ProcTypeOK, PutTool

LEMMA PutSegsFacts ==
  ASSUME ProcTypeOK, seg' \in [Part -> Segment], NEW X \in SUBSET Part, PutSegs(X)
  PROVE  /\ storedSeg' \in [Part -> Segment] /\ lostSeg' \subseteq Part
         /\ UNCHANGED <<storedTool, lostTool, storedMessage, lostMessage>>
         /\ \A x \in Part \ X : storedSeg'[x] = storedSeg[x] /\ (x \in lostSeg' <=> x \in lostSeg)
         /\ ctxDone \/ \A x \in X : x \in lostSeg' \/ storedSeg'[x] = seg'[x]
<1>1. CASE ctxDone /\ UNCHANGED <<storedSeg, lostSeg>>
  BY <1>1 DEF ProcTypeOK, PutSegs
<1>2. ASSUME NEW L \in SUBSET X,
             storedSeg' = [x \in Part |-> IF x \in X \ L THEN seg'[x] ELSE storedSeg[x]],
             lostSeg' = (lostSeg \ X) \cup L
      PROVE  /\ storedSeg' \in [Part -> Segment] /\ lostSeg' \subseteq Part
             /\ \A x \in Part \ X : storedSeg'[x] = storedSeg[x] /\ (x \in lostSeg' <=> x \in lostSeg)
             /\ \A x \in X : x \in lostSeg' \/ storedSeg'[x] = seg'[x]
  BY <1>2 DEF ProcTypeOK
<1> QED
  BY <1>1, <1>2 DEF PutSegs

LEMMA PutMessageFacts ==
  ASSUME ProcTypeOK, message' \in Message, PutMessage
  PROVE  /\ storedMessage' \in Message /\ lostMessage' \in BOOLEAN
         /\ UNCHANGED <<storedTool, lostTool, storedSeg, lostSeg>>
         /\ ctxDone \/ lostMessage' \/ storedMessage' = message'
  BY DEF ProcTypeOK, PutMessage

LEMMA ResolveFacts ==
  ASSUME ProcTypeOK, NEW c \in Call, NEW state \in ToolState, Resolve(c, state)
  PROVE  /\ tool' \in [Call -> ToolState] /\ blank' \subseteq Call
         /\ flags' \subseteq {"needsCompact", "shouldBreak"}
         /\ tool'[c] = state /\ \A d \in Call : d # c => tool'[d] = tool[d]
  BY DEF ProcTypeOK, Resolve

(* The holders: what the slot and the map hold are parts. *)
LEMMA HeldFacts ==
  ASSUME ProcTypeOK
  PROVE  Held \subseteq Part /\ OpenReasoning \subseteq Part /\ NoPart \notin Part
  BY ProcessorAssumption DEF ProcTypeOK, Held, OpenReasoning, Part, NoPart

(* To finish parts lets go of them and keeps the others. *)
LEMMA FinishFacts ==
  ASSUME ProcTypeOK, NEW X \in SUBSET Held, Finish(X)
  PROVE  /\ seg' \in [Part -> Segment]
         /\ currentText' \in Part \cup {NoPart} /\ reasoning' \in [Key -> Part \cup {NoPart}]
         /\ overwritten' = overwritten /\ PutSegs(X)
         /\ Held' = Held \ X
         /\ \A x \in X : seg'[x].state = "ended"
         /\ \A x \in Part \ X : seg'[x] = seg[x]
<1>0. X \subseteq Part /\ NoPart \notin X
  BY HeldFacts
<1>1. seg' \in [Part -> Segment]
  <2>1. seg \in [Part -> Segment]
    BY DEF ProcTypeOK
  <2>2. \A x \in Part : seg[x] \in Segment /\ [seg[x] EXCEPT !.state = "ended"] \in Segment
    BY <2>1 DEF Segment
  <2> QED
    BY <2>2 DEF Finish
<1>2. /\ currentText' \in Part \cup {NoPart} /\ reasoning' \in [Key -> Part \cup {NoPart}]
      /\ overwritten' = overwritten /\ PutSegs(X)
  <2>1. currentText \in Part \cup {NoPart} /\ reasoning \in [Key -> Part \cup {NoPart}]
    BY DEF ProcTypeOK
  <2>2. currentText' \in Part \cup {NoPart} /\ overwritten' = overwritten /\ PutSegs(X)
    BY <2>1 DEF Finish
  <2>3. reasoning' \in [Key -> Part \cup {NoPart}]
    BY <2>1 DEF Finish
  <2> QED
    BY <2>2, <2>3
<1>3. Held' = Held \ X
  <2>1. /\ currentText' = IF currentText \in X THEN NoPart ELSE currentText
        /\ reasoning' = [k \in Key |-> IF reasoning[k] \in X THEN NoPart ELSE reasoning[k]]
    BY DEF Finish
  <2> QED
    BY <2>1, <1>0 DEF ProcTypeOK, Held
<1>4. \A x \in X : seg'[x].state = "ended"
  BY <1>0 DEF ProcTypeOK, Finish, Segment
<1>5. \A x \in Part \ X : seg'[x] = seg[x]
  BY DEF Finish
<1> QED
  BY <1>1, <1>2, <1>3, <1>4, <1>5

(* Consuming is the stream phase; both are all that most steps need of it. *)
LEMMA ConsumingFacts ==
  ASSUME ProcTypeOK, Consuming
  PROVE  phase = "stream" /\ events' \in 0..MaxEvents
  BY ProcessorAssumption DEF ProcTypeOK, Consuming

(* Type correctness, for the events about text and reasoning ... *)
LEMMA SegmentEventTypes ==
  ASSUME ProcTypeOK,
         \/ \E x \in Part : \/ TextStart(x) \/ SegmentDelta(x) \/ SegmentEnd(x) \/ CleanSegment(x)
                            \/ \E k \in Key : ReasoningStart(k, x)
         \/ OnStepFinish
  PROVE  ProcTypeOK'
<1> USE ProcessorAssumption DEF engineVars, callVars, segVars, stored
<1>1. ASSUME NEW x \in Part, TextStart(x) PROVE ProcTypeOK'
  <2>1. seg' \in [Part -> Segment] /\ PutSegs({x})
    BY <1>1 DEF TextStart, NewPart, ProcTypeOK, Segment
  <2> QED
    BY <1>1, <2>1, PutSegsFacts, ConsumingFacts DEF TextStart, ProcTypeOK, NoPart
<1>2. ASSUME NEW x \in Part, NEW k \in Key, ReasoningStart(k, x) PROVE ProcTypeOK'
  <2>1. seg' \in [Part -> Segment] /\ PutSegs({x})
    BY <1>2 DEF ReasoningStart, NewPart, ProcTypeOK, Segment
  <2> QED
    BY <1>2, <2>1, PutSegsFacts, ConsumingFacts DEF ReasoningStart, ProcTypeOK, NoPart
<1>3. ASSUME NEW x \in Part, SegmentDelta(x) PROVE ProcTypeOK'
  <2>1. seg' \in [Part -> Segment]
    <3>1. seg[x] \in Segment /\ seg[x].text + 1 \in 0..MaxDeltas
      BY <1>3 DEF SegmentDelta, ProcTypeOK, Segment
    <3>2. [seg[x] EXCEPT !.text = @ + 1] \in Segment
      BY <3>1 DEF Segment
    <3>3. seg' = [seg EXCEPT ![x] = [seg[x] EXCEPT !.text = @ + 1]]
      BY <1>3 DEF SegmentDelta
    <3> QED
      BY <3>2, <3>3 DEF ProcTypeOK
  <2> QED
    BY <1>3, <2>1, ConsumingFacts DEF SegmentDelta, ProcTypeOK
<1>4. ASSUME NEW x \in Part, SegmentEnd(x) PROVE ProcTypeOK'
  <2>1. x \in Held /\ Finish({x})
    BY <1>4 DEF SegmentEnd
  <2>0. {x} \subseteq Held /\ {x} \subseteq Part
    BY <2>1
  <2> HIDE DEF engineVars, callVars, segVars, stored
  <2>2. /\ seg' \in [Part -> Segment] /\ currentText' \in Part \cup {NoPart}
        /\ reasoning' \in [Key -> Part \cup {NoPart}] /\ overwritten' = overwritten /\ PutSegs({x})
    BY <2>0, <2>1, FinishFacts
  <2>3. /\ storedSeg' \in [Part -> Segment] /\ lostSeg' \subseteq Part
        /\ UNCHANGED <<storedTool, lostTool, storedMessage, lostMessage>>
    BY <2>0, <2>2, PutSegsFacts
  <2> USE DEF engineVars, callVars, segVars, stored
  <2> QED
    BY <1>4, <2>2, <2>3, ConsumingFacts DEF SegmentEnd, ProcTypeOK
<1>5. ASSUME NEW x \in Part, CleanSegment(x) PROVE ProcTypeOK'
  <2>1. x \in Held /\ Finish({x})
    BY <1>5 DEF CleanSegment
  <2>0. {x} \subseteq Held /\ {x} \subseteq Part
    BY <2>1
  <2> HIDE DEF engineVars, callVars, segVars, stored
  <2>2. /\ seg' \in [Part -> Segment] /\ currentText' \in Part \cup {NoPart}
        /\ reasoning' \in [Key -> Part \cup {NoPart}] /\ overwritten' = overwritten /\ PutSegs({x})
    BY <2>0, <2>1, FinishFacts
  <2>3. /\ storedSeg' \in [Part -> Segment] /\ lostSeg' \subseteq Part
        /\ UNCHANGED <<storedTool, lostTool, storedMessage, lostMessage>>
    BY <2>0, <2>2, PutSegsFacts
  <2> USE DEF engineVars, callVars, segVars, stored
  <2> QED
    BY <1>5, <2>2, <2>3 DEF CleanSegment, ProcTypeOK
<1>6. CASE OnStepFinish
  <2>1. OpenReasoning \subseteq Held /\ OpenReasoning \subseteq Part /\ Finish(OpenReasoning)
    BY <1>6, HeldFacts DEF OnStepFinish, OpenReasoning, Held
  <2> HIDE DEF engineVars, callVars, segVars, stored
  <2>2. /\ seg' \in [Part -> Segment] /\ currentText' \in Part \cup {NoPart}
        /\ reasoning' \in [Key -> Part \cup {NoPart}] /\ overwritten' = overwritten
        /\ PutSegs(OpenReasoning)
    BY <2>1, FinishFacts
  <2>3. /\ storedSeg' \in [Part -> Segment] /\ lostSeg' \subseteq Part
        /\ UNCHANGED <<storedTool, lostTool, storedMessage, lostMessage>>
    BY <2>1, <2>2, PutSegsFacts
  <2>4. message' \in Message
    BY <1>6 DEF OnStepFinish, ProcTypeOK, Message
  <2> USE DEF engineVars, callVars, segVars, stored
  <2> QED
    BY <1>6, <2>2, <2>3, <2>4, ConsumingFacts DEF OnStepFinish, ProcTypeOK
<1> QED
  BY <1>1, <1>2, <1>3, <1>4, <1>5, <1>6

(* ... for those about calls ... *)
LEMMA ToolStepTypes ==
  ASSUME ProcTypeOK,
         \/ DoomAllowed \/ DoomDenied
         \/ \E c \in Call : \/ ToolInputStart(c) \/ OnToolCall(c) \/ ProviderResolves(c)
                            \/ ExecuteReturns(c) \/ ExecutePuts(c) \/ CleanTool(c)
  PROVE  ProcTypeOK'
<1> USE ProcessorAssumption DEF engineVars, callVars, segVars, stored
<1>1. ASSUME NEW c \in Call, ToolInputStart(c) PROVE ProcTypeOK'
  <2>1. tool' \in [Call -> ToolState] /\ PutTool(c) /\ toolOrder' \in Seq(Call)
    BY <1>1 DEF ToolInputStart, EnsureTool, ProcTypeOK, ToolState
  <2>2. sig' \in [Call -> Sig \cup {NoSig}] /\ last' \in [Call -> {"none", "input", "call", "refused", "answered"}]
    BY <1>1 DEF ToolInputStart, ProcTypeOK
  <2> QED
    BY <1>1, <2>1, <2>2, PutToolFacts, ConsumingFacts DEF ToolInputStart, ProcTypeOK
<1>2. ASSUME NEW c \in Call, OnToolCall(c) PROVE ProcTypeOK'
  <2>1. tool' \in [Call -> ToolState] /\ PutTool(c) /\ toolOrder' \in Seq(Call)
    BY <1>2 DEF OnToolCall, EnsureTool, ProcTypeOK, ToolState
  <2>2. sig' \in [Call -> Sig \cup {NoSig}] /\ last' \in [Call -> {"none", "input", "call", "refused", "answered"}]
    BY <1>2 DEF OnToolCall, ProcTypeOK
  <2>3. /\ phase' \in {"stream", "asking"} /\ (asking' # {} <=> phase' = "asking")
        /\ asking' \subseteq Call
    <3>1. \/ phase' = "asking" /\ asking' = {c}
          \/ phase' = "stream" /\ asking' = {}
      BY <1>2, ConsumingFacts DEF OnToolCall, ProcTypeOK
    <3> QED
      BY <3>1
  <2>4. blank' \subseteq Call /\ pending' \subseteq Call
    BY <1>2 DEF OnToolCall, ProcTypeOK
  <2>5. UNCHANGED <<executor, ctxDone, currentText, reasoning, seg, overwritten, worker, message, flags, outcome>>
    BY <1>2 DEF OnToolCall
  <2>6. /\ storedTool' \in [Call -> ToolState] /\ lostTool' \subseteq Call
        /\ UNCHANGED <<storedSeg, lostSeg, storedMessage, lostMessage>> /\ events' \in 0..MaxEvents
    BY <1>2, <2>1, PutToolFacts, ConsumingFacts DEF OnToolCall
  <2> QED
    BY <2>1, <2>2, <2>3, <2>4, <2>5, <2>6 DEF ProcTypeOK
<1>3. CASE DoomAllowed
  BY <1>3 DEF DoomAllowed, ProcTypeOK
<1>4. CASE DoomDenied
  <2>0. PICK c \in asking : /\ Resolve(c, "error") /\ PutTool(c)
                            /\ last' = [last EXCEPT ![c] = "refused"]
    BY <1>4 DEF DoomDenied
  <2>1. c \in Call /\ "error" \in ToolState
    BY DEF ProcTypeOK, ToolState
  <2>2. /\ tool' \in [Call -> ToolState] /\ blank' \subseteq Call
        /\ flags' \subseteq {"needsCompact", "shouldBreak"}
    BY <2>0, <2>1, ResolveFacts
  <2>3. last' \in [Call -> {"none", "input", "call", "refused", "answered"}]
    BY <2>0, <2>1 DEF ProcTypeOK
  <2> QED
    BY <1>4, <2>0, <2>1, <2>2, <2>3, PutToolFacts DEF DoomDenied, ProcTypeOK
<1>5. ASSUME NEW c \in Call, ProviderResolves(c) PROVE ProcTypeOK'
  <2>1. PICK state \in {"completed", "error"} : Resolve(c, state)
    BY <1>5 DEF ProviderResolves
  <2>2. /\ tool' \in [Call -> ToolState] /\ blank' \subseteq Call
        /\ flags' \subseteq {"needsCompact", "shouldBreak"}
    BY <2>1, ResolveFacts DEF ToolState
  <2>3. last' \in [Call -> {"none", "input", "call", "refused", "answered"}] /\ pending' \subseteq Call
    BY <1>5 DEF ProviderResolves, ProcTypeOK
  <2> QED
    BY <1>5, <2>2, <2>3, PutToolFacts, ConsumingFacts DEF ProviderResolves, ProcTypeOK
<1>6. ASSUME NEW c \in Call, ExecuteReturns(c) PROVE ProcTypeOK'
  <2>1. PICK state \in {"completed", "error", "interrupted"} : Resolve(c, state)
    BY <1>6 DEF ExecuteReturns
  <2>2. /\ tool' \in [Call -> ToolState] /\ blank' \subseteq Call
        /\ flags' \subseteq {"needsCompact", "shouldBreak"}
    BY <2>1, ResolveFacts DEF ToolState
  <2>3. worker' \in [Call -> {"none", "run", "put", "over"}]
    BY <1>6 DEF ExecuteReturns, ProcTypeOK
  <2> QED
    BY <1>6, <2>2, <2>3 DEF ExecuteReturns, ProcTypeOK
<1>7. ASSUME NEW c \in Call, ExecutePuts(c) PROVE ProcTypeOK'
  <2>1. /\ tool' \in [Call -> ToolState] /\ worker' \in [Call -> {"none", "run", "put", "over"}]
        /\ PutTool(c)
    BY <1>7 DEF ExecutePuts, ProcTypeOK
  <2> QED
    BY <1>7, <2>1, PutToolFacts DEF ExecutePuts, ProcTypeOK
<1>8. ASSUME NEW c \in Call, CleanTool(c) PROVE ProcTypeOK'
  <2>1. /\ tool' \in [Call -> ToolState] /\ blank' \subseteq Call
        /\ flags' \subseteq {"needsCompact", "shouldBreak"}
    BY <1>8, ResolveFacts DEF CleanTool, ToolState
  <2> QED
    BY <1>8, <2>1, PutToolFacts DEF CleanTool, ProcTypeOK
<1> QED
  BY <1>1, <1>2, <1>3, <1>4, <1>5, <1>6, <1>7, <1>8

(* ... and for the others. *)
LEMMA OtherStepTypes ==
  ASSUME ProcTypeOK,
         StoreFinish \/ OnProviderError \/ Cancel \/ ExecutePending \/ Wait \/ CleanMessage
  PROVE  ProcTypeOK'
<1> USE DEF engineVars, callVars, segVars, stored
<1>1. CASE StoreFinish
  <2>1. flags' \subseteq {"needsCompact", "shouldBreak"} /\ message' \in Message /\ PutMessage
    BY <1>1 DEF StoreFinish, ProcTypeOK, Overflow
  <2> QED
    BY <1>1, <2>1, PutMessageFacts DEF StoreFinish, ProcTypeOK
<1>2. CASE OnProviderError
  BY <1>2, ConsumingFacts DEF OnProviderError, ProcTypeOK, Message
<1>3. CASE Cancel
  BY <1>3 DEF Cancel, ProcTypeOK
<1>4. CASE ExecutePending
  BY <1>4 DEF ExecutePending, ProcTypeOK
<1>5. CASE Wait
  BY <1>5 DEF Wait, ProcTypeOK
<1>6. CASE CleanMessage
  <2>1. message' \in Message /\ PutMessage
    BY <1>6 DEF CleanMessage, ProcTypeOK, Message
  <2>2. outcome' \in {"none", "continue", "stop", "compact"}
    BY <1>6 DEF CleanMessage, ProcTypeOK
  <2> QED
    BY <1>6, <2>1, <2>2, PutMessageFacts DEF CleanMessage, ProcTypeOK
<1> QED
  BY <1>1, <1>2, <1>3, <1>4, <1>5, <1>6

(* The parts the store is behind with are those still held and those overwritten:
   finishing parts that are held, and storing them, keeps it so. *)
LEMMA FinishKeepsSegs ==
  ASSUME ProcTypeOK, SegsFollow, NEW X \in SUBSET Held, Finish(X), ctxDone' = ctxDone
  PROVE  SegsFollow'
<1>0. Held \subseteq Part
  BY HeldFacts
<1>1. /\ overwritten' = overwritten /\ PutSegs(X) /\ Held' = Held \ X
      /\ \A x \in X : seg'[x].state = "ended"
      /\ \A x \in Part \ X : seg'[x] = seg[x]
      /\ seg' \in [Part -> Segment]
  BY FinishFacts
<1>2. /\ \A x \in Part \ X : storedSeg'[x] = storedSeg[x] /\ (x \in lostSeg' <=> x \in lostSeg)
      /\ ctxDone \/ \A x \in X : x \in lostSeg' \/ storedSeg'[x] = seg'[x]
  BY <1>0, <1>1, PutSegsFacts
<1>3. currentText' = IF currentText \in X THEN NoPart ELSE currentText
  BY DEF Finish
<1>4. \A k \in Key : reasoning'[k] = IF reasoning[k] \in X THEN NoPart ELSE reasoning[k]
  BY DEF Finish
<1>5. \A x \in Part : seg'[x].state = "open" <=> x \in Held' \cup overwritten'
  BY <1>0, <1>1 DEF SegsFollow
<1>6. Held' \cap overwritten' = {}
  BY <1>1 DEF SegsFollow
<1>7. /\ \A k \in Key : reasoning'[k] # NoPart => reasoning'[k] # currentText'
      /\ \A j, k \in Key : reasoning'[j] = reasoning'[k] /\ reasoning'[k] # NoPart => j = k
  BY <1>3, <1>4 DEF SegsFollow
<1>8. ~ctxDone' => \A x \in Part \ lostSeg' :
        storedSeg'[x] = IF x \in Held' \cup overwritten' THEN [state |-> "open", text |-> 0]
                        ELSE seg'[x]
  <2> SUFFICES ASSUME ~ctxDone, NEW x \in Part \ lostSeg'
               PROVE  storedSeg'[x] = IF x \in Held' \cup overwritten'
                                      THEN [state |-> "open", text |-> 0] ELSE seg'[x]
    OBVIOUS
  <2>1. CASE x \in X
    BY <1>1, <1>2, <2>1 DEF SegsFollow
  <2>2. CASE x \notin X
    BY <1>1, <1>2, <2>2 DEF SegsFollow
  <2> QED
    BY <2>1, <2>2
<1> QED
  BY <1>5, <1>6, <1>7, <1>8 DEF SegsFollow

(* A new part is in nobody's hands, and the store has it as it starts. *)
LEMMA NewPartFacts ==
  ASSUME ProcTypeOK, SegsFollow, NEW x \in Part, NewPart(x)
  PROVE  /\ x \notin Held \cup overwritten /\ x # NoPart
         /\ seg'[x] = [state |-> "open", text |-> 0]
         /\ \A y \in Part : y # x => /\ seg'[y] = seg[y] /\ storedSeg'[y] = storedSeg[y]
                                      /\ (y \in lostSeg' <=> y \in lostSeg)
         /\ ctxDone \/ x \in lostSeg' \/ storedSeg'[x] = seg'[x]
<1>1. seg[x].state # "open" /\ x # NoPart
  BY HeldFacts DEF NewPart
<1>2. seg' = [seg EXCEPT ![x] = [state |-> "open", text |-> 0]] /\ seg' \in [Part -> Segment]
  BY ProcessorAssumption DEF NewPart, ProcTypeOK, Segment
<1>3. {x} \in SUBSET Part /\ PutSegs({x})
  BY DEF NewPart
<1>4. /\ \A y \in Part \ {x} : storedSeg'[y] = storedSeg[y] /\ (y \in lostSeg' <=> y \in lostSeg)
      /\ ctxDone \/ \A y \in {x} : y \in lostSeg' \/ storedSeg'[y] = seg'[y]
  BY <1>2, <1>3, PutSegsFacts
<1> QED
  BY <1>1, <1>2, <1>4 DEF SegsFollow, ProcTypeOK

(* The store follows the parts through every step. *)
LEMMA SegsStep ==
  ASSUME ProcTypeOK, SegsFollow, ProcNext
  PROVE  SegsFollow'
<1>0. Held \subseteq Part /\ NoPart \notin Part
  BY HeldFacts
<1>1. ASSUME UNCHANGED <<segVars, storedSeg, lostSeg, ctxDone>>  PROVE SegsFollow'
  <2>1. Held' = Held
    BY <1>1 DEF Held, segVars
  <2> QED
    BY <1>1, <2>1 DEF SegsFollow, segVars
<1>2. ASSUME UNCHANGED <<segVars, storedSeg, lostSeg>>, ctxDone'  PROVE SegsFollow'
  <2>1. Held' = Held
    BY <1>2 DEF Held, segVars
  <2> QED
    BY <1>2, <2>1 DEF SegsFollow, segVars
<1>3. ASSUME NEW x \in Part, TextStart(x) PROVE SegsFollow'
  <2>1. /\ NewPart(x) /\ currentText' = x /\ reasoning' = reasoning /\ ctxDone' = ctxDone
        /\ overwritten' = overwritten \cup ({currentText} \ {NoPart})
    BY <1>3 DEF TextStart, engineVars
  <2>2. Held' \cup overwritten' = Held \cup overwritten \cup {x}
    BY <1>0, <2>1 DEF Held
  <2>3. Held' = {x} \cup ({reasoning[k] : k \in Key} \ {NoPart})
    BY <1>0, <2>1 DEF Held
  <2>4. /\ x \notin Held \cup overwritten /\ x # NoPart
        /\ seg'[x] = [state |-> "open", text |-> 0]
        /\ \A y \in Part : y # x => /\ seg'[y] = seg[y] /\ storedSeg'[y] = storedSeg[y]
                                     /\ (y \in lostSeg' <=> y \in lostSeg)
        /\ ctxDone \/ x \in lostSeg' \/ storedSeg'[x] = seg'[x]
    BY <2>1, NewPartFacts
  <2>5. Held' \cap overwritten' = {}
    BY <2>1, <2>3, <2>4 DEF SegsFollow, Held
  <2>6. \A y \in Part : seg'[y].state = "open" <=> y \in Held' \cup overwritten'
    BY <2>2, <2>4 DEF SegsFollow
  <2>7. /\ \A k \in Key : reasoning'[k] # NoPart => reasoning'[k] # currentText'
        /\ \A j, k \in Key : reasoning'[j] = reasoning'[k] /\ reasoning'[k] # NoPart => j = k
    BY <2>1, <2>4 DEF SegsFollow, Held
  <2>8. ~ctxDone' => \A y \in Part \ lostSeg' :
          storedSeg'[y] = IF y \in Held' \cup overwritten' THEN [state |-> "open", text |-> 0]
                          ELSE seg'[y]
    BY <2>1, <2>2, <2>4 DEF SegsFollow
  <2> QED
    BY <2>5, <2>6, <2>7, <2>8 DEF SegsFollow
<1>4. ASSUME NEW x \in Part, NEW k \in Key, ReasoningStart(k, x) PROVE SegsFollow'
  <2>1. /\ NewPart(x) /\ currentText' = currentText /\ reasoning' = [reasoning EXCEPT ![k] = x]
        /\ ctxDone' = ctxDone /\ overwritten' = overwritten /\ reasoning[k] = NoPart
        /\ reasoning \in [Key -> Part \cup {NoPart}]
    BY <1>4 DEF ReasoningStart, engineVars, ProcTypeOK
  <2>4. /\ x \notin Held \cup overwritten /\ x # NoPart
        /\ seg'[x] = [state |-> "open", text |-> 0]
        /\ \A y \in Part : y # x => /\ seg'[y] = seg[y] /\ storedSeg'[y] = storedSeg[y]
                                     /\ (y \in lostSeg' <=> y \in lostSeg)
        /\ ctxDone \/ x \in lostSeg' \/ storedSeg'[x] = seg'[x]
    BY <2>1, NewPartFacts
  <2>3. Held' = Held \cup {x}
    <3>1. \A j \in Key : reasoning'[j] = IF j = k THEN x ELSE reasoning[j]
      BY <2>1
    <3> QED
      BY <2>1, <2>4, <3>1 DEF Held
  <2>5. Held' \cap overwritten' = {}
    BY <2>1, <2>3, <2>4 DEF SegsFollow
  <2>6. \A y \in Part : seg'[y].state = "open" <=> y \in Held' \cup overwritten'
    BY <2>1, <2>3, <2>4 DEF SegsFollow
  <2>7. /\ \A j \in Key : reasoning'[j] # NoPart => reasoning'[j] # currentText'
        /\ \A i, j \in Key : reasoning'[i] = reasoning'[j] /\ reasoning'[j] # NoPart => i = j
    BY <2>1, <2>4 DEF SegsFollow, Held
  <2>8. ~ctxDone' => \A y \in Part \ lostSeg' :
          storedSeg'[y] = IF y \in Held' \cup overwritten' THEN [state |-> "open", text |-> 0]
                          ELSE seg'[y]
    BY <2>1, <2>3, <2>4 DEF SegsFollow
  <2> QED
    BY <2>5, <2>6, <2>7, <2>8 DEF SegsFollow
<1>5. ASSUME NEW x \in Part, SegmentDelta(x) PROVE SegsFollow'
  <2>1. /\ x \in Held /\ UNCHANGED <<currentText, reasoning, overwritten, storedSeg, lostSeg, ctxDone>>
        /\ seg' = [seg EXCEPT ![x].text = @ + 1]
    BY <1>5 DEF SegmentDelta, engineVars, stored
  <2>2. Held' = Held
    BY <2>1 DEF Held
  <2>3. /\ \A y \in Part : y # x => seg'[y] = seg[y]
        /\ seg'[x].state = seg[x].state
    BY <1>0, <2>1 DEF ProcTypeOK, Segment
  <2> QED
    BY <2>1, <2>2, <2>3 DEF SegsFollow
<1>6. ASSUME NEW x \in Part, SegmentEnd(x) \/ CleanSegment(x) PROVE SegsFollow'
  <2>1. {x} \in SUBSET Held /\ Finish({x}) /\ ctxDone' = ctxDone
    BY <1>6 DEF SegmentEnd, CleanSegment, engineVars
  <2> QED
    BY <2>1, FinishKeepsSegs
<1>7. CASE OnStepFinish
  <2>1. OpenReasoning \in SUBSET Held /\ Finish(OpenReasoning) /\ ctxDone' = ctxDone
    BY <1>7 DEF OnStepFinish, OpenReasoning, Held
  <2> QED
    BY <2>1, FinishKeepsSegs
<1>8. ASSUME NEW c \in Call,
             \/ ToolInputStart(c) \/ OnToolCall(c) \/ ProviderResolves(c)
             \/ ExecutePuts(c) \/ CleanTool(c) \/ ExecuteReturns(c)
      PROVE  SegsFollow'
  BY <1>1, <1>8 DEF ToolInputStart, OnToolCall, ProviderResolves, ExecutePuts, CleanTool,
                    ExecuteReturns, PutTool, engineVars, callVars, stored
<1>9. CASE DoomAllowed \/ DoomDenied \/ StoreFinish \/ OnProviderError \/ ExecutePending \/ Wait \/ CleanMessage
  BY <1>1, <1>9 DEF DoomAllowed, DoomDenied, StoreFinish, OnProviderError, ExecutePending, Wait,
                    CleanMessage, PutTool, PutMessage, engineVars, callVars, stored
<1>10. CASE Cancel
  BY <1>2, <1>10 DEF Cancel, stored
<1> QED
  BY <1>3, <1>4, <1>5, <1>6, <1>7, <1>8, <1>9, <1>10 DEF ProcNext, ProviderEvent, RunStep

(* What is said of the calls, as one formula. *)
CallsInv == ToolsFollow /\ WorkersInExec /\ CallsAccounted

(* A frame: steps that leave the calls alone, with the phase they move to. *)
LEMMA CallsFrame ==
  ASSUME ProcTypeOK, CallsInv,
         UNCHANGED <<callVars, executor, tool, worker, storedTool, lostTool>>,
         ctxDone => ctxDone',
         \/ phase' = phase
         \/ phase' \in {"stream", "finishing"} /\ phase \in {"stream", "finishing"}
         \/ phase' = "cleanup" /\ phase = "exec" /\ \A c \in Call : worker[c] \in {"none", "over"}
         \/ phase' = "returned" /\ phase = "cleanup"
  PROVE  CallsInv'
  BY DEF ProcTypeOK, CallsInv, ToolsFollow, WorkersInExec, CallsAccounted, callVars

(* What is said of the calls survives the events about calls and the guard ... *)
LEMMA CallEventKeepsCalls ==
  ASSUME ProcTypeOK, CallsInv,
         \/ DoomAllowed \/ DoomDenied
         \/ \E c \in Call : ToolInputStart(c) \/ OnToolCall(c) \/ ProviderResolves(c)
  PROVE  CallsInv'
<1> USE DEF CallsInv, ToolsFollow, WorkersInExec, CallsAccounted
<1>1. ASSUME NEW c \in Call, ToolInputStart(c) PROVE CallsInv'
  <2>1. /\ phase = "stream" /\ UNCHANGED <<phase, executor, ctxDone, pending, asking, worker>>
        /\ tool[c] = "none" /\ tool' = [tool EXCEPT ![c] = "pending"]
        /\ last' = [last EXCEPT ![c] = "input"] /\ PutTool(c)
    BY <1>1, ConsumingFacts DEF ToolInputStart, Seen
  <2>2. tool' \in [Call -> ToolState]
    BY <2>1 DEF ProcTypeOK, ToolState
  <2>3. /\ \A d \in Call : d # c => storedTool'[d] = storedTool[d] /\ (d \in lostTool' <=> d \in lostTool)
        /\ ctxDone \/ c \in lostTool' \/ storedTool'[c] = tool'[c]
    BY <2>1, <2>2, PutToolFacts
  <2> QED
    BY <2>1, <2>3 DEF ProcTypeOK
<1>2. ASSUME NEW c \in Call, OnToolCall(c) PROVE CallsInv'
  <2>1. /\ phase = "stream" /\ UNCHANGED <<executor, ctxDone, worker>> /\ pending' = pending \cup {c}
        /\ tool' = [tool EXCEPT ![c] = "running"]
        /\ last' = [last EXCEPT ![c] = "call"] /\ PutTool(c)
    BY <1>2, ConsumingFacts DEF OnToolCall
  <2>2. tool' \in [Call -> ToolState] /\ asking = {}
    BY <2>1 DEF ProcTypeOK, ToolState
  <2>3. /\ \A d \in Call : d # c => storedTool'[d] = storedTool[d] /\ (d \in lostTool' <=> d \in lostTool)
        /\ ctxDone \/ c \in lostTool' \/ storedTool'[c] = tool'[c]
    BY <2>1, <2>2, PutToolFacts
  <2>4. phase' \in {"stream", "asking"} /\ asking' \subseteq {c}
    BY <1>2, <2>1, <2>2 DEF OnToolCall
  <2>5. ToolsFollow' /\ WorkersInExec'
    BY <2>1, <2>3, <2>4 DEF ProcTypeOK
  <2>6. CallsAccounted'
    BY <2>1, <2>2, <2>4 DEF ProcTypeOK
  <2> QED
    BY <2>5, <2>6
<1>3. CASE DoomAllowed
  BY <1>3 DEF DoomAllowed, callVars, stored, ProcTypeOK
<1>4. CASE DoomDenied
  <2>0. PICK c \in asking : /\ Resolve(c, "error") /\ PutTool(c)
                            /\ last' = [last EXCEPT ![c] = "refused"]
    BY <1>4 DEF DoomDenied
  <2>1. /\ c \in Call /\ "error" \in ToolState /\ phase = "asking" /\ phase' = "stream" /\ asking' = {}
        /\ UNCHANGED <<executor, ctxDone, pending, worker>>
    BY <1>4 DEF DoomDenied, ProcTypeOK, ToolState
  <2>2. /\ tool' \in [Call -> ToolState] /\ tool'[c] = "error"
        /\ \A d \in Call : d # c => tool'[d] = tool[d]
    BY <2>0, <2>1, ResolveFacts
  <2>3. /\ \A d \in Call : d # c => storedTool'[d] = storedTool[d] /\ (d \in lostTool' <=> d \in lostTool)
        /\ ctxDone \/ c \in lostTool' \/ storedTool'[c] = tool'[c]
    BY <2>0, <2>1, <2>2, PutToolFacts
  <2>4. last'[c] = "refused" /\ \A d \in Call : d # c => last'[d] = last[d]
    BY <2>0, <2>1 DEF ProcTypeOK
  <2>5. last[c] = "call" /\ c \in pending /\ worker[c] \in {"none", "run", "put", "over"}
    BY <2>0, <2>1 DEF ProcTypeOK
  <2> QED
    BY <2>1, <2>2, <2>3, <2>4, <2>5
<1>5. ASSUME NEW c \in Call, ProviderResolves(c) PROVE CallsInv'
  <2>0. PICK state \in {"completed", "error"} : Resolve(c, state)
    BY <1>5 DEF ProviderResolves
  <2>1. /\ phase = "stream" /\ UNCHANGED <<phase, executor, ctxDone, asking, worker>>
        /\ pending' = pending \ {c} /\ PutTool(c)
        /\ last'[c] = "answered" /\ \A d \in Call : d # c => last'[d] = last[d]
    BY <1>5, ConsumingFacts DEF ProviderResolves, ProcTypeOK
  <2>2. /\ tool' \in [Call -> ToolState] /\ tool'[c] = state
        /\ \A d \in Call : d # c => tool'[d] = tool[d]
    BY <2>0, ResolveFacts DEF ToolState
  <2>3. /\ \A d \in Call : d # c => storedTool'[d] = storedTool[d] /\ (d \in lostTool' <=> d \in lostTool)
        /\ ctxDone \/ c \in lostTool' \/ storedTool'[c] = tool'[c]
    BY <2>1, <2>2, PutToolFacts
  <2>4. asking = {} /\ \A d \in Call : worker[d] = "none"
    BY <2>1 DEF ProcTypeOK
  <2>5. ToolsFollow' /\ WorkersInExec'
    BY <2>1, <2>2, <2>3, <2>4
  <2>6. CallsAccounted'
    BY <2>1, <2>2, <2>4
  <2> QED
    BY <2>5, <2>6
<1> QED
  BY <1>1, <1>2, <1>3, <1>4, <1>5

(* ... and the goroutines and cleanup. *)
LEMMA EndOfTurnKeepsCalls ==
  ASSUME ProcTypeOK, CallsInv,
         \/ ExecutePending
         \/ \E c \in Call : ExecuteReturns(c) \/ ExecutePuts(c) \/ CleanTool(c)
  PROVE  CallsInv'
<1> USE DEF CallsInv, ToolsFollow, WorkersInExec, CallsAccounted
<1>1. CASE ExecutePending
  <2>1. /\ phase = "stream" /\ phase' = "exec" /\ UNCHANGED <<executor, ctxDone, asking, last, tool>>
        /\ UNCHANGED <<storedTool, lostTool>> /\ asking = {}
        /\ worker' = [c \in Call |-> IF executor /\ c \in pending THEN "run" ELSE "none"]
        /\ pending' = IF executor THEN {} ELSE pending
    BY <1>1 DEF ExecutePending, stored, ProcTypeOK
  <2>2. \A c \in Call : worker[c] = "none"
    BY <2>1 DEF ProcTypeOK
  <2> QED
    BY <2>1, <2>2
<1>2. ASSUME NEW c \in Call, ExecuteReturns(c) PROVE CallsInv'
  <2>0. PICK state \in {"completed", "error", "interrupted"} :
          Resolve(c, state) /\ (state = "interrupted" => ctxDone)
    BY <1>2 DEF ExecuteReturns
  <2>1. /\ worker[c] = "run" /\ worker' = [worker EXCEPT ![c] = "put"]
        /\ UNCHANGED <<phase, executor, ctxDone, pending, asking, last, storedTool, lostTool>>
    BY <1>2 DEF ExecuteReturns, engineVars, callVars, stored
  <2>2. /\ tool'[c] = state /\ \A d \in Call : d # c => tool'[d] = tool[d]
    BY <2>0, ResolveFacts DEF ToolState
  <2>3. worker'[c] = "put" /\ \A d \in Call : d # c => worker'[d] = worker[d]
    BY <2>1 DEF ProcTypeOK
  <2>4. phase = "exec" /\ asking = {} /\ last[c] \in {"call", "refused"} /\ c \notin asking
    BY <2>1 DEF ProcTypeOK
  <2>5. ToolsFollow' /\ WorkersInExec'
    BY <2>1, <2>2, <2>3, <2>4
  <2>6. CallsAccounted'
    BY <2>0, <2>1, <2>2, <2>3, <2>4
  <2> QED
    BY <2>5, <2>6
<1>3. ASSUME NEW c \in Call, ExecutePuts(c) PROVE CallsInv'
  <2>1. /\ worker[c] = "put" /\ UNCHANGED tool /\ PutTool(c)
        /\ UNCHANGED <<phase, executor, ctxDone, pending, asking, last>>
        /\ worker'[c] = "over" /\ \A d \in Call : d # c => worker'[d] = worker[d]
    BY <1>3 DEF ExecutePuts, engineVars, callVars, ProcTypeOK
  <2>2. tool' \in [Call -> ToolState] /\ phase = "exec"
    BY <2>1 DEF ProcTypeOK
  <2>3. /\ \A d \in Call : d # c => storedTool'[d] = storedTool[d] /\ (d \in lostTool' <=> d \in lostTool)
        /\ ctxDone \/ c \in lostTool' \/ storedTool'[c] = tool'[c]
    BY <2>1, <2>2, PutToolFacts
  <2> QED
    BY <2>1, <2>2, <2>3
<1>4. ASSUME NEW c \in Call, CleanTool(c) PROVE CallsInv'
  <2>1. /\ phase = "cleanup" /\ tool[c] \in {"pending", "running"} /\ Resolve(c, "interrupted")
        /\ PutTool(c) /\ UNCHANGED <<phase, executor, ctxDone, pending, asking, last, worker>>
    BY <1>4 DEF CleanTool, Unresolved, engineVars, callVars
  <2>2. /\ tool' \in [Call -> ToolState] /\ tool'[c] = "interrupted"
        /\ \A d \in Call : d # c => tool'[d] = tool[d]
    BY <2>1, ResolveFacts DEF ToolState
  <2>3. /\ \A d \in Call : d # c => storedTool'[d] = storedTool[d] /\ (d \in lostTool' <=> d \in lostTool)
        /\ ctxDone \/ c \in lostTool' \/ storedTool'[c] = tool'[c]
    BY <2>1, <2>2, PutToolFacts
  <2>4. worker[c] = "none" /\ asking = {}
    BY <2>1 DEF ProcTypeOK
  <2>5. last[c] \in {"input", "call"}
    BY <2>1, <2>4 DEF ProcTypeOK
  <2>6. ToolsFollow' /\ WorkersInExec'
    BY <2>1, <2>2, <2>3
  <2>7. CallsAccounted'
    BY <2>1, <2>2, <2>4, <2>5
  <2> QED
    BY <2>6, <2>7
<1> QED
  BY <1>1, <1>2, <1>3, <1>4

(* The other steps leave the calls alone. *)
LEMMA CallsStep ==
  ASSUME ProcTypeOK, CallsInv, ProcNext
  PROVE  CallsInv'
<1>1. ASSUME NEW x \in Part,
             \/ TextStart(x) \/ SegmentDelta(x) \/ SegmentEnd(x) \/ CleanSegment(x)
             \/ \E k \in Key : ReasoningStart(k, x)
      PROVE  CallsInv'
  <2>1. UNCHANGED <<engineVars, tool, worker, storedTool, lostTool>>
    BY <1>1 DEF TextStart, SegmentDelta, SegmentEnd, CleanSegment, ReasoningStart, NewPart, Finish,
                PutSegs, stored
  <2> QED
    BY <2>1, CallsFrame DEF engineVars
<1>2. CASE OnStepFinish
  <2>1. /\ UNCHANGED <<executor, ctxDone, callVars, tool, worker, storedTool, lostTool>>
        /\ phase = "stream" /\ phase' = "finishing"
    BY <1>2, ConsumingFacts DEF OnStepFinish, Finish, PutSegs
  <2> QED
    BY <2>1, CallsFrame
<1>3. CASE StoreFinish
  <2>1. /\ UNCHANGED <<executor, ctxDone, callVars, tool, worker, storedTool, lostTool>>
        /\ phase = "finishing" /\ phase' = "stream"
    BY <1>3 DEF StoreFinish, PutMessage
  <2> QED
    BY <2>1, CallsFrame
<1>4. CASE OnProviderError
  BY <1>4, CallsFrame DEF OnProviderError, engineVars, stored
<1>5. CASE Cancel
  BY <1>5, CallsFrame DEF Cancel, stored
<1>6. CASE Wait
  BY <1>6, CallsFrame DEF Wait, stored
<1>7. CASE CleanMessage
  <2>1. /\ UNCHANGED <<executor, ctxDone, callVars, tool, worker, storedTool, lostTool>>
        /\ phase = "cleanup" /\ phase' = "returned"
    BY <1>7 DEF CleanMessage, PutMessage
  <2> QED
    BY <2>1, CallsFrame
<1> QED
  BY <1>1, <1>2, <1>3, <1>4, <1>5, <1>6, <1>7, CallEventKeepsCalls, EndOfTurnKeepsCalls
     DEF ProcNext, ProviderEvent, RunStep

(* A turn that has returned takes no step: wg.Wait has left no goroutine behind. *)
LEMMA ReturnedTakesNoStep ==
  ASSUME ProcTypeOK, WorkersInExec, phase = "returned", ProcNext
  PROVE  FALSE
<1>1. asking = {} /\ \A c \in Call : worker[c] \notin {"run", "put"}
  BY DEF ProcTypeOK, WorkersInExec
<1> QED
  BY <1>1 DEF ProcNext, ProviderEvent, RunStep, Consuming, TextStart, ReasoningStart, SegmentDelta,
     SegmentEnd, ToolInputStart, OnToolCall, ProviderResolves, OnStepFinish, OnProviderError,
     StoreFinish, ExecutePending, Wait, CleanMessage, CleanSegment, ExecutePuts, CleanTool, Cancel,
     DoomAllowed, DoomDenied, ExecuteReturns

(* Run returns by its last step, which finds everything final. *)
LEMMA ReturnStep ==
  ASSUME ProcTypeOK, ProcNext, phase # "returned"
  PROVE  ReturnedIsFinal'
<1>1. CASE CleanMessage
  <2>1. /\ Held = {} /\ \A c \in Call : ~Unresolved(c)
        /\ UNCHANGED <<currentText, reasoning, tool, ctxDone>> /\ PutMessage
        /\ message' \in Message /\ message'.completed
    BY <1>1 DEF CleanMessage, segVars, ProcTypeOK, Message
  <2>2. Held' = Held /\ \A c \in Call : Unresolved(c)' <=> Unresolved(c)
    BY <2>1 DEF Held, Unresolved
  <2>3. ctxDone \/ lostMessage' \/ storedMessage' = message'
    BY <2>1, PutMessageFacts
  <2> QED
    BY <2>1, <2>2, <2>3 DEF ReturnedIsFinal
<1>2. CASE ~CleanMessage
  <2>1. phase' # "returned"
    <3>1. ASSUME NEW c \in Call, OnToolCall(c) PROVE phase' # "returned"
      BY <3>1 DEF OnToolCall, Consuming
    <3> QED
      BY <1>2, <3>1 DEF ProcNext, ProviderEvent, RunStep, TextStart, ReasoningStart, SegmentDelta,
         SegmentEnd, ToolInputStart, ProviderResolves, OnStepFinish, OnProviderError, StoreFinish,
         ExecutePending, Wait, CleanSegment, ExecutePuts, CleanTool, Cancel, DoomAllowed, DoomDenied,
         ExecuteReturns, engineVars
  <2> QED
    BY <2>1 DEF ReturnedIsFinal
<1> QED
  BY <1>1, <1>2

(* The inductive invariant of a turn. *)
THEOREM TurnInvariant == ProcSpec => []ProcInv
<1>1. ProcInit => ProcInv
  <2> SUFFICES ASSUME ProcInit PROVE ProcInv
    OBVIOUS
  <2>1. seg \in [Part -> Segment] /\ message \in Message
    BY ProcessorAssumption DEF ProcInit, Segment, Message
  <2>2. tool \in [Call -> ToolState] /\ toolOrder \in Seq(Call)
    BY DEF ProcInit, ToolState
  <2>3. /\ events \in 0..MaxEvents /\ sig \in [Call -> Sig \cup {NoSig}]
        /\ currentText \in Part \cup {NoPart} /\ reasoning \in [Key -> Part \cup {NoPart}]
        /\ worker \in [Call -> {"none", "run", "put", "over"}]
        /\ last \in [Call -> {"none", "input", "call", "refused", "answered"}]
    BY ProcessorAssumption DEF ProcInit
  <2>4. ProcTypeOK
    BY <2>1, <2>2, <2>3 DEF ProcInit, ProcTypeOK
  <2>5. Held = {}
    BY DEF ProcInit, Held
  <2>6. SegsFollow
    BY <2>5 DEF ProcInit, SegsFollow
  <2>7. ToolsFollow /\ WorkersInExec /\ ReturnedIsFinal /\ CallsAccounted
    BY DEF ProcInit, ToolsFollow, WorkersInExec, ReturnedIsFinal, CallsAccounted
  <2> QED
    BY <2>4, <2>6, <2>7 DEF ProcInv
<1>2. ProcInv /\ [ProcNext]_procVars => ProcInv'
  <2> SUFFICES ASSUME ProcInv, [ProcNext]_procVars PROVE ProcInv'
    OBVIOUS
  <2>1. CASE ProcNext
    <3>1. ProcTypeOK'
      BY <2>1, SegmentEventTypes, ToolStepTypes, OtherStepTypes DEF ProcInv, ProcNext, ProviderEvent, RunStep
    <3>2. SegsFollow'
      BY <2>1, SegsStep DEF ProcInv
    <3>3. CallsInv'
      BY <2>1, CallsStep DEF ProcInv, CallsInv
    <3>4. ReturnedIsFinal'
      BY <2>1, ReturnStep, ReturnedTakesNoStep DEF ProcInv
    <3> QED
      BY <3>1, <3>2, <3>3, <3>4 DEF ProcInv, CallsInv
  <2>2. CASE UNCHANGED procVars
    <3> USE <2>2 DEF procVars, engineVars, callVars, segVars, stored
    <3>1. Held' = Held
      BY DEF Held
    <3>2. ProcTypeOK' /\ SegsFollow'
      BY <3>1 DEF ProcInv, ProcTypeOK, SegsFollow
    <3>3. ToolsFollow' /\ WorkersInExec' /\ CallsAccounted'
      BY DEF ProcInv, ToolsFollow, WorkersInExec, CallsAccounted
    <3>4. ReturnedIsFinal'
      BY <3>1 DEF ProcInv, ReturnedIsFinal, Unresolved
    <3> QED
      BY <3>2, <3>3, <3>4 DEF ProcInv
  <2> QED
    BY <2>1, <2>2
<1> QED
  BY <1>1, <1>2, PTL DEF ProcSpec

(* A turn that was not aborted is final when Run returns, and what was streamed is
   in the store but for the objects whose own last write failed and the texts that
   were overwritten. *)
THEOREM UnabortedTurnIsStored == ProcSpec => []TurnIsStored
<1>1. ProcInv => TurnIsStored
  <2> SUFFICES ASSUME ProcInv, phase = "returned", ~ctxDone PROVE TurnIsStored
    BY DEF TurnIsStored
  <2>1. /\ Held = {} /\ message.completed /\ (~lostMessage => storedMessage = message)
        /\ \A c \in Call : ~Unresolved(c)
    BY DEF ProcInv, ReturnedIsFinal
  <2>2. \A c \in Call : worker[c] # "put"
    BY DEF ProcInv, WorkersInExec
  <2>3. \A c \in Call : c \notin lostTool => storedTool[c] = tool[c]
    BY <2>2 DEF ProcInv, ToolsFollow
  <2>4. /\ \A x \in Part \ overwritten :
             seg[x].state # "open" /\ (x \notin lostSeg => storedSeg[x] = seg[x])
        /\ \A x \in overwritten \ lostSeg : storedSeg[x] = [state |-> "open", text |-> 0]
    BY <2>1 DEF ProcInv, ProcTypeOK, SegsFollow
  <2> QED
    BY <2>1, <2>3, <2>4 DEF TurnIsStored
<1> QED
  BY <1>1, TurnInvariant, PTL

(* Every call has the outcome that the last word about it stands for: a goroutine's
   if that was the model's call or the guard's refusal, or else the provider's, the
   guard's or cleanup's. *)
THEOREM CallsAreResolvedOnce == ProcSpec => []CallsHaveOneOutcome
<1>1. ProcInv => CallsHaveOneOutcome
  <2> SUFFICES ASSUME ProcInv, NEW c \in Call
               PROVE  /\ worker[c] # "none" => executor /\ last[c] \in {"call", "refused"}
                      /\ phase = "returned" =>
                           /\ last[c] = "none" => tool[c] = "none"
                           /\ last[c] = "answered" => tool[c] \in {"completed", "error"}
                           /\ last[c] = "input" => tool[c] = "interrupted"
                           /\ last[c] \in {"call", "refused"} /\ executor =>
                                /\ worker[c] = "over"
                                /\ tool[c] \in {"completed", "error", "interrupted"}
                                /\ tool[c] = "interrupted" => ctxDone
                           /\ last[c] = "call" /\ ~executor => tool[c] = "interrupted"
                           /\ last[c] = "refused" /\ ~executor => tool[c] = "error"
    BY DEF CallsHaveOneOutcome, ProcInv, ProcTypeOK
  <2>1. worker[c] # "none" => executor /\ last[c] \in {"call", "refused"}
    BY DEF ProcInv, CallsAccounted
  <2>2. worker[c] \in {"none", "run", "put", "over"} /\ executor \in BOOLEAN
    BY DEF ProcInv, ProcTypeOK
  <2>3. ASSUME phase = "returned"
        PROVE  worker[c] \in {"none", "over"} /\ ~Unresolved(c) /\ (executor => c \notin pending)
    BY <2>2, <2>3 DEF ProcInv, WorkersInExec, ReturnedIsFinal, CallsAccounted
  <2> QED
    BY <2>1, <2>2, <2>3 DEF ProcInv, CallsAccounted, Unresolved
<1> QED
  BY <1>1, TurnInvariant, PTL

(* wg.Wait and the order of Run leave no goroutine behind that could still write
   after Run returned. *)
THEOREM NothingAfterReturn == ProcSpec => QuietAfterReturn
<1>1. ProcInv /\ [ProcNext]_procVars => [phase = "returned" => UNCHANGED procVars]_procVars
  BY ReturnedTakesNoStep DEF ProcInv
<1> QED
  BY <1>1, TurnInvariant, PTL DEF ProcSpec, QuietAfterReturn

(* What CompletedStays says of one step. *)
CompletionKept ==
  phase # "stream" =>
    \A c \in Call : tool[c] = "completed" =>
      /\ tool'[c] = "completed"
      /\ storedTool[c] = "completed" => storedTool'[c] = "completed"

(* A put of a part that is complete leaves it complete in the store. *)
LEMMA PutKeepsCompletion ==
  ASSUME ProcTypeOK, NEW d \in Call, PutTool(d), tool' \in [Call -> ToolState],
         \A c \in Call : tool[c] = "completed" => tool'[c] = "completed"
  PROVE  CompletionKept
  BY PutToolFacts DEF CompletionKept

(* Outside the stream only a call that is not complete is resolved. *)
LEMMA CompletedStep ==
  ASSUME ProcInv, ProcNext
  PROVE  CompletionKept
<1>0. ProcTypeOK
  BY DEF ProcInv
<1>1. CASE phase = "stream"
  BY <1>1 DEF CompletionKept
<1>2. CASE UNCHANGED <<tool, storedTool>>
  BY <1>2 DEF CompletionKept
<1>3. ASSUME DoomDenied PROVE CompletionKept
  <2> PICK c \in asking : Resolve(c, "error") /\ PutTool(c)
    BY <1>3 DEF DoomDenied
  <2>1. c \in Call /\ tool[c] = "running"
    BY DEF ProcInv, ProcTypeOK, CallsAccounted
  <2>2. /\ tool' \in [Call -> ToolState] /\ \A d \in Call : d # c => tool'[d] = tool[d]
    BY <1>0, <2>1, ResolveFacts DEF ToolState
  <2> QED
    BY <1>0, <2>1, <2>2, PutKeepsCompletion
<1>4. ASSUME NEW c \in Call, ExecuteReturns(c) PROVE CompletionKept
  <2>1. PICK state \in {"completed", "error", "interrupted"} : Resolve(c, state)
    BY <1>4 DEF ExecuteReturns
  <2>2. /\ tool' \in [Call -> ToolState] /\ \A d \in Call : d # c => tool'[d] = tool[d]
    BY <1>0, <2>1, ResolveFacts DEF ToolState
  <2>3. tool[c] # "completed" /\ UNCHANGED storedTool
    BY <1>4 DEF ExecuteReturns, stored, ProcInv, CallsAccounted
  <2> QED
    BY <2>2, <2>3 DEF CompletionKept
<1>5. ASSUME NEW c \in Call, ExecutePuts(c) PROVE CompletionKept
  <2>1. PutTool(c) /\ tool' = tool /\ tool' \in [Call -> ToolState]
    BY <1>0, <1>5 DEF ExecutePuts, ProcTypeOK
  <2> QED
    BY <1>0, <2>1, PutKeepsCompletion
<1>6. ASSUME NEW c \in Call, CleanTool(c) PROVE CompletionKept
  <2>1. Resolve(c, "interrupted") /\ PutTool(c) /\ tool[c] # "completed"
    BY <1>6 DEF CleanTool, Unresolved
  <2>2. /\ tool' \in [Call -> ToolState] /\ \A d \in Call : d # c => tool'[d] = tool[d]
    BY <1>0, <2>1, ResolveFacts DEF ToolState
  <2> QED
    BY <1>0, <2>1, <2>2, PutKeepsCompletion
<1>7. CASE DoomAllowed \/ StoreFinish \/ Cancel \/ Wait \/ CleanMessage
  BY <1>2, <1>7 DEF DoomAllowed, StoreFinish, Cancel, Wait, CleanMessage, PutMessage, stored
<1>8. ASSUME NEW x \in Part, CleanSegment(x) PROVE CompletionKept
  BY <1>2, <1>8 DEF CleanSegment, Finish, PutSegs
<1>9. CASE ProviderEvent \/ ExecutePending
  <2>1. phase = "stream"
    BY <1>9 DEF ProviderEvent, Consuming, TextStart, ReasoningStart, SegmentDelta, SegmentEnd,
       ToolInputStart, OnToolCall, ProviderResolves, OnStepFinish, OnProviderError, ExecutePending
  <2> QED
    BY <1>1, <2>1
<1> QED
  BY <1>3, <1>4, <1>5, <1>6, <1>7, <1>8, <1>9 DEF ProcNext, RunStep

(* Once the stream is over, or while the guard asks, a call that completed stays
   completed, in memory and in the store: neither the refusal, nor a goroutine, nor
   cleanup takes its result. *)
THEOREM CompletionIsFinal == ProcSpec => CompletedStays
<1>1. ProcInv /\ [ProcNext]_procVars => [CompletionKept]_procVars
  BY CompletedStep
<1> QED
  BY <1>1, TurnInvariant, PTL DEF ProcSpec, CompletedStays, CompletionKept

=============================================================================
