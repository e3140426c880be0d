-------------------------- MODULE CheckpointProofs --------------------------
(***************************************************************************)
(* Proofs about Checkpoint, for every set of restorable tasks and every    *)
(* number of saves, launches, write errors and power losses.               *)
(***************************************************************************)
EXTENDS Checkpoint, TLAPS

-----------------------------------------------------------------------------
(* The inductive invariants *)

Saving == pc \in {"head", "body", "commit"}

\* What holds of every image, on the card and in RAM: it has the regions of the
\* tasks active at its save
Taken(s) == /\ s.regions \subseteq s.ran /\ s.save <= saves
            /\ s.save = 0 => s.regions = {}
            /\ s.save # 0 => s.regions = ranAt[s.save]

\* The content of the two slots and of the save in progress
Shape ==
  /\ ranAt \in [1 .. MaxSaves -> SUBSET Tasks]
  /\ committed \in SUBSET (1 .. saves)
  /\ \A i \in Slots : Taken(slot[i])
  /\ \A i \in Slots : slot[i].state # "none" => slot[i].seq # 0 /\ SlotOf(slot[i].seq) = i
  /\ \A i \in Slots : Valid(slot[i]) => slot[i].save \in committed
  /\ Taken(image)
  /\ Saving => /\ image.state = "pending" /\ image.whole = FALSE
               /\ image.seq # 0 /\ target = SlotOf(image.seq)
               /\ image.save = saves /\ saves > 0 /\ saves \notin committed
               /\ next_seq = image.seq + 1 /\ loaded = NotLoaded
               /\ result = "none" /\ prev = running
               /\ image.regions \subseteq running
  /\ pc = "body" => slot[target] = image
  /\ pc = "commit" => slot[target] = [image EXCEPT !.whole = TRUE]
  /\ ended \cap running = {}
  /\ result # "none" => pc = "idle"
  /\ result = "skipped" => active = {} /\ prev = running

\* The launch and exit counts tell the tasks in R: no count has wrapped around
Balanced(l, e, R) == \A t \in Tasks : l[t] = e[t] + (IF t \in R THEN 1 ELSE 0)

\* The counts in RAM and in every image, and what the last load brought back
Counted ==
  /\ Balanced(launch, exit, prev) /\ \A t \in Tasks : launch[t] <= saves
  /\ \A i \in Slots : /\ Balanced(slot[i].launch, slot[i].exit, slot[i].ran)
                      /\ \A t \in Tasks : slot[i].launch[t] <= saves
  /\ Balanced(image.launch, image.exit, image.ran)
  /\ \A t \in Tasks : image.launch[t] <= saves
  /\ LoadRestoresAll

\* Slot b is the valid slot with the highest sequence number
IsBest(b) == /\ Valid(slot[b])
             /\ \A j \in Slots \ {b} : Valid(slot[j]) => slot[j].seq < slot[b].seq

\* Sequence numbers: the next save has a higher one than every valid slot.
\* Until a write returns an error it has the next one, and so the other slot.
Ordered ==
  /\ pc = "idle" /\ seeded => \A i \in Slots : Valid(slot[i]) => slot[i].seq < next_seq
  /\ Saving => \A i \in Slots : Valid(slot[i]) => slot[i].seq < image.seq
  /\ result = "ok" => \E b \in Slots : IsBest(b) /\ slot[b].save = saves
  /\ Saving => image.regions \cap ended = {}
  /\ result = "ok" => \A b \in Slots : IsBest(b) => slot[b].regions \cap ended = {}
  /\ errors = 0 =>
       /\ (\A i \in Slots : ~Valid(slot[i])) => committed = {} /\ (pc = "idle" => ~seeded)
       /\ \A b \in Slots : IsBest(b) =>
            /\ \A c \in committed : c <= slot[b].save
            /\ pc = "idle" /\ seeded => next_seq = slot[b].seq + 1
            /\ Saving => image.seq = slot[b].seq + 1
            /\ pc = "idle" => Allowed(slot[b]) \cap ended \subseteq prev

Inv1 == TypeOK /\ Shape

-----------------------------------------------------------------------------
(* Lemmas about the operators *)

\* Counts stay within their width
LEMMA BumpType ==
  ASSUME NEW c \in [Tasks -> 0 .. CountMod - 1], NEW S
  PROVE  Bump(c, S) \in [Tasks -> 0 .. CountMod - 1]
<1>1. \A n \in Nat : n % CountMod \in 0 .. CountMod - 1
  BY CheckpointAssumption
<1>2. \A t \in Tasks : (c[t] + 1) % CountMod \in 0 .. CountMod - 1
  BY <1>1, CheckpointAssumption
<1> QED BY <1>2 DEF Bump

\* ckpt_sd_find_best_slot finds a slot whenever there is one
LEMMA BestFound ==
  ASSUME TypeOK, NEW S \in SUBSET Slots, S # {}
  PROVE  /\ Best(S) \in S
         /\ \A j \in S : slot[j].seq <= slot[Best(S)].seq
<1>1. \A i \in Slots : slot[i].seq \in Nat
  BY DEF TypeOK, Slot
<1>2. \E i \in S : \A j \in S : \/ slot[j].seq < slot[i].seq
                                \/ slot[j].seq = slot[i].seq /\ i <= j
  <2>1. Slots = {0, 1}
    BY DEF Slots
  <2>2. CASE S = {0} \/ S = {1}
    BY <1>1, <2>2
  <2>3. CASE S = {0, 1}
    <3>1. slot[0].seq \in Nat /\ slot[1].seq \in Nat
      BY <1>1, <2>1
    <3>2. CASE slot[0].seq < slot[1].seq
      BY <2>3, <3>1, <3>2
    <3>3. CASE ~(slot[0].seq < slot[1].seq)
      BY <2>3, <3>1, <3>3
    <3> QED BY <3>2, <3>3
  <2> QED BY <2>1, <2>2, <2>3
<1>3. /\ Best(S) \in S
      /\ \A j \in S : \/ slot[j].seq < slot[Best(S)].seq
                      \/ slot[j].seq = slot[Best(S)].seq /\ Best(S) <= j
  BY <1>2 DEF Best
<1> QED BY <1>1, <1>3

\* The two slots take the sequence numbers in turn
LEMMA Alternate ==
  ASSUME NEW s \in Nat \ {0}
  PROVE  SlotOf(s) \in Slots /\ SlotOf(s + 1) \in Slots /\ SlotOf(s + 1) # SlotOf(s)
BY DEF SlotOf, Slots

\* Two valid slots have different numbers, so that the best one is unique
LEMMA BestUnique ==
  ASSUME TypeOK, Shape
  PROVE  /\ Found({}) # {} => Best(Found({})) \in Slots /\ IsBest(Best(Found({})))
         /\ \A b \in Slots : IsBest(b) => Found({}) # {} /\ Best(Found({})) = b
         /\ (\E i \in Slots : Valid(slot[i])) => \E b \in Slots : IsBest(b)
<1> DEFINE F == Found({})
<1>1. F \in SUBSET Slots /\ \A i \in Slots : i \in F <=> Valid(slot[i])
  BY DEF Found
<1>2. \A i \in Slots : slot[i].seq \in Nat
  BY DEF TypeOK, Slot
<1>3. \A i, j \in F : i # j => slot[i].seq # slot[j].seq
  BY <1>1 DEF Shape, Valid
<1> HIDE DEF F
<1>4. F # {} => Best(F) \in F /\ \A j \in F : slot[j].seq <= slot[Best(F)].seq
  BY <1>1, BestFound
<1>5. F # {} => Best(F) \in Slots /\ IsBest(Best(F))
  <2> SUFFICES ASSUME F # {} PROVE Best(F) \in Slots /\ IsBest(Best(F))
    OBVIOUS
  <2>1. Best(F) \in F /\ Best(F) \in Slots /\ Valid(slot[Best(F)])
    BY <1>1, <1>4
  <2>2. ASSUME NEW j \in Slots \ {Best(F)}, Valid(slot[j])
        PROVE  slot[j].seq < slot[Best(F)].seq
    <3>1. j \in F /\ slot[j].seq <= slot[Best(F)].seq
      BY <1>1, <1>4, <2>2
    <3>2. slot[j].seq # slot[Best(F)].seq
      BY <1>3, <2>1, <3>1
    <3> QED BY <1>2, <2>1, <3>1, <3>2
  <2> QED BY <2>1, <2>2 DEF IsBest
<1>6. ASSUME NEW b \in Slots, IsBest(b) PROVE F # {} /\ Best(F) = b
  <2>1. b \in F
    BY <1>1, <1>6 DEF IsBest
  <2>2. ASSUME Best(F) # b PROVE FALSE
    <3>1. slot[Best(F)].seq < slot[b].seq /\ slot[b].seq < slot[Best(F)].seq
      BY <1>5, <1>6, <2>1, <2>2 DEF IsBest
    <3> QED BY <1>2, <1>5, <2>1, <3>1
  <2> QED BY <2>1, <2>2
<1> QED BY <1>1, <1>5, <1>6 DEF F

-----------------------------------------------------------------------------
(* Type correctness and the shape of the slots *)

\* Initially both slots are empty
LEMMA InitInv1 == Init => Inv1
<1> SUFFICES ASSUME Init PROVE Inv1
  OBVIOUS
<1> USE CheckpointAssumption DEF Init, EmptySlot, Zero
<1>1. Zero \in [Tasks -> 0 .. CountMod - 1]
  OBVIOUS
<1>2. EmptySlot \in Slot
  BY <1>1 DEF Slot
<1>3. TypeOK
  <2>1. slot \in [Slots -> Slot] /\ image \in Slot /\ target \in Slots
    BY <1>2 DEF Slots
  <2>2. next_seq \in Nat \ {0}
    OBVIOUS
  <2>5. seeded = FALSE
    OBVIOUS
  <2>6. seeded \in BOOLEAN
    BY <2>5, Zenon
  <2>3. prev \in SUBSET Tasks /\ running \in SUBSET Tasks /\ active \in SUBSET running
        /\ ended \in SUBSET Tasks
    OBVIOUS
  <2>4. launch \in [Tasks -> 0 .. CountMod - 1] /\ exit \in [Tasks -> 0 .. CountMod - 1]
    BY <1>1
  <2> QED BY <2>1, <2>2, <2>3, <2>4, <2>6 DEF TypeOK
<1>4. Shape
  BY DEF Shape, Taken, Valid, Saving, Slots
<1> QED BY <1>3, <1>4 DEF Inv1

\* Steps outside a save that touch neither slot
LEMMA QuietShape ==
  ASSUME Inv1, slot' = slot, image' = image, saves' = saves, ranAt' = ranAt,
         committed' = committed, ended' \cap running' = {},
         pc' \in {"idle", "off"}, result' = "none"
  PROVE  Shape'
<1>1. \A i \in Slots : Taken(slot[i])'
  BY DEF Inv1, Shape, Taken
<1>2. Taken(image)'
  BY DEF Inv1, Shape, Taken
<1> QED BY <1>1, <1>2 DEF Inv1, Shape, Saving

\* Tasks that come and go
LEMMA TaskStep ==
  ASSUME Inv1, NEW t \in Tasks, Launch(t) \/ Start(t) \/ Exit(t)
  PROVE  Inv1'
<1>1. TypeOK'
  <2>1. CASE Launch(t)
    BY <2>1, CheckpointAssumption DEF Launch, Inv1, TypeOK, tracking
  <2>2. CASE Start(t)
    BY <2>2 DEF Start, Inv1, TypeOK, tracking, bounds
  <2>3. CASE Exit(t)
    BY <2>3 DEF Exit, Inv1, TypeOK, tracking, bounds
  <2> QED BY <2>1, <2>2, <2>3
<1>2. ended' \cap running' = {}
  BY DEF Launch, Start, Exit, Inv1, Shape
<1>3. Shape'
  BY <1>2, QuietShape DEF Launch, Start, Exit, bounds
<1> QED BY <1>1, <1>3 DEF Inv1

\* Load at run time and at boot, from whatever valid slot was readable
LEMMA LoadStep ==
  ASSUME Inv1, NEW bad \in SUBSET Slots, Load(bad) \/ BootLoad(bad) \/ LoadNone(bad)
  PROVE  Inv1'
<1>1. CASE LoadNone(bad)
  <2>1. TypeOK'
    BY <1>1, CheckpointAssumption DEF LoadNone, ReadFaults, Inv1, TypeOK, tracking, tasks
  <2>2. Shape'
    BY <1>1, QuietShape DEF LoadNone, tasks, Inv1, Shape
  <2> QED BY <2>1, <2>2 DEF Inv1
<1>2. ASSUME NEW base, NEW on, LoadFrom(base, on, bad), on \subseteq base,
             base \subseteq Tasks, ended' \subseteq Tasks,
             ended' \cap running' = {}, pc' = "idle", result' = "none"
      PROVE  Inv1'
  <2>1. Found(bad) \in SUBSET Slots /\ Found(bad) # {}
    BY <1>2 DEF Found, LoadFrom
  <2>2. PICK s : s = slot[Best(Found(bad))] /\ s \in Slot
    BY <2>1, BestFound DEF Inv1, TypeOK
  <2>3. Allowed(s) \subseteq Tasks
    BY <2>2 DEF Allowed, Slot
  <2>4. /\ running' = base \cup Allowed(s) /\ active' = on \cup Allowed(s)
        /\ prev' = s.ran /\ launch' = s.launch /\ exit' = s.exit
        /\ next_seq' = s.seq + 1 /\ seeded' = TRUE
        /\ slot' = slot /\ target' = target /\ image' = image /\ saves' = saves
        /\ launches' = launches /\ errors' = errors /\ crashes' = crashes
        /\ committed' = committed /\ ranAt' = ranAt
    BY <1>2, <2>2 DEF LoadFrom, Counts
  <2>5. rfaults' \in 0 .. MaxReadFaults
    BY <1>2, CheckpointAssumption DEF LoadFrom, ReadFaults, Inv1, TypeOK
  <2>6. /\ next_seq' \in Nat \ {0} /\ prev' \in SUBSET Tasks
        /\ launch' \in [Tasks -> 0 .. CountMod - 1]
        /\ exit' \in [Tasks -> 0 .. CountMod - 1]
        /\ running' \in SUBSET Tasks /\ active' \in SUBSET running'
    BY <1>2, <2>2, <2>3, <2>4 DEF Slot
  <2>7. TypeOK'
    BY <1>2, <2>4, <2>5, <2>6 DEF Inv1, TypeOK
  <2>8. Shape'
    BY <1>2, <2>4, QuietShape
  <2> QED BY <2>7, <2>8 DEF Inv1
<1>3. CASE Load(bad)
  BY <1>2, <1>3 DEF Load, Inv1, TypeOK
<1>4. CASE BootLoad(bad)
  BY <1>2, <1>4 DEF BootLoad
<1> QED BY <1>1, <1>3, <1>4

\* Power off, and a boot without restore
LEMMA PowerStep ==
  ASSUME Inv1, PowerOff \/ BootPlain
  PROVE  Inv1'
<1>1. Zero \in [Tasks -> 0 .. CountMod - 1]
  BY CheckpointAssumption DEF Zero
<1>2. TypeOK'
  <2>1. CASE PowerOff
    BY <2>1, CheckpointAssumption DEF PowerOff, history, tracking, tasks, Inv1, TypeOK
  <2>2. CASE BootPlain
    <3>1. /\ prev' = {} /\ running' = {} /\ active' = {} /\ ended' = {}
          /\ launch' = Zero /\ exit' = Zero /\ next_seq' = 1
          /\ pc' = "idle" /\ result' = "none" /\ seeded' \in BOOLEAN
      BY <2>2, Zenon DEF BootPlain
    <3>2. /\ slot' = slot /\ image' = image /\ target' = target /\ saves' = saves
          /\ launches' = launches /\ errors' = errors /\ crashes' = crashes
          /\ rfaults' = rfaults
      BY <2>2 DEF BootPlain, bounds
    <3> QED BY <1>1, <3>1, <3>2 DEF Inv1, TypeOK
  <2> QED BY <2>1, <2>2
<1>3. ended' \cap running' = {}
  BY DEF PowerOff, BootPlain, history, tasks, Inv1, Shape
<1>4. Shape'
  BY <1>3, QuietShape DEF PowerOff, BootPlain, history, bounds
<1> QED BY <1>2, <1>4 DEF Inv1

\* A save begins: nothing to save, or an image for the next slot
LEMMA SaveBeginStep ==
  ASSUME Inv1, NEW bad \in SUBSET Slots, SaveBegin(bad)
  PROVE  Inv1'
<1> DEFINE s == Seed(bad)
           launched == running \ prev
           exited == prev \ running
<1>1. s \in Nat \ {0}
  <2>1. Found(bad) \in SUBSET Slots
    BY DEF Found
  <2>2. \A i \in Slots : slot[i].seq \in Nat
    BY DEF Inv1, TypeOK, Slot
  <2>3. Found(bad) # {} => slot[Best(Found(bad))].seq \in Nat
    BY <2>1, <2>2, BestFound DEF Inv1
  <2> QED BY <2>3 DEF Seed, Inv1, TypeOK
<1> HIDE DEF s
<1>2. /\ pc = "idle" /\ saves < MaxSaves /\ slot' = slot
      /\ running' = running /\ active' = active /\ launches' = launches
      /\ errors' = errors /\ crashes' = crashes /\ committed' = committed
      /\ ended' = ended /\ prev' = running /\ loaded' = NotLoaded
      /\ launch' = Bump(launch, launched) /\ exit' = Bump(exit, exited)
  BY DEF SaveBegin, tasks
<1>3. rfaults' \in 0 .. MaxReadFaults
  BY CheckpointAssumption DEF SaveBegin, ReadFaults, Inv1, TypeOK
<1>4. seeded' \in BOOLEAN
  <2>1. seeded' = (seeded \/ Found(bad) # {})
    BY DEF SaveBegin
  <2> QED BY <2>1, Zenon
<1>5. /\ launch' \in [Tasks -> 0 .. CountMod - 1]
      /\ exit' \in [Tasks -> 0 .. CountMod - 1]
  BY <1>2, BumpType DEF Inv1, TypeOK
<1>6. /\ saves \in Nat /\ saves + 1 \in 0 .. MaxSaves /\ saves + 1 # 0
      /\ active \subseteq running /\ running \in SUBSET Tasks
  BY <1>2, CheckpointAssumption DEF Inv1, TypeOK
<1>7. CASE NothingToSave(launched, exited)
  <2>1. /\ result' = "skipped" /\ next_seq' = s /\ pc' = pc /\ target' = target
        /\ image' = image /\ saves' = saves /\ ranAt' = ranAt
    BY <1>7 DEF SaveBegin, s
  <2>2. TypeOK'
    BY <1>1, <1>2, <1>3, <1>4, <1>5, <2>1 DEF Inv1, TypeOK
  <2>3. active = {} /\ prev = running
    BY <1>7 DEF NothingToSave, Inv1, TypeOK
  <2>4. \A i \in Slots : Taken(slot[i])'
    BY <1>2, <2>1 DEF Inv1, Shape, Taken
  <2>5. Taken(image)'
    BY <1>2, <2>1 DEF Inv1, Shape, Taken
  <2>6. Shape'
    BY <1>2, <2>1, <2>3, <2>4, <2>5 DEF Inv1, Shape, Saving
  <2> QED BY <2>2, <2>6 DEF Inv1
<1>8. CASE ~NothingToSave(launched, exited)
  <2> DEFINE im == [state |-> "pending", whole |-> FALSE, seq |-> s,
                    save |-> saves + 1, ran |-> running, regions |-> active,
                    launch |-> launch', exit |-> exit']
  <2>1. /\ target' = SlotOf(s) /\ image' = im /\ next_seq' = s + 1
        /\ saves' = saves + 1 /\ pc' = "head" /\ result' = "none"
        /\ ranAt' = [ranAt EXCEPT ![saves + 1] = active]
    BY <1>8 DEF SaveBegin, s
  <2>2. im \in Slot
    BY <1>1, <1>5, <1>6 DEF Slot
  <2>3. SlotOf(s) \in Slots
    BY <1>1, Alternate
  <2>4. TypeOK'
    <3>1. /\ next_seq' \in Nat \ {0} /\ saves' \in 0 .. MaxSaves
          /\ image' \in Slot /\ target' \in Slots
      BY <1>1, <1>6, <2>1, <2>2, <2>3
    <3>2. pc' = "head" /\ result' = "none"
      BY <2>1
    <3> QED BY <1>2, <1>3, <1>4, <1>5, <1>6, <3>1, <3>2 DEF Inv1, TypeOK
  <2>5. /\ ranAt' \in [1 .. MaxSaves -> SUBSET Tasks] /\ ranAt'[saves + 1] = active
        /\ \A n \in 1 .. saves : ranAt'[n] = ranAt[n]
    BY <1>6, <2>1, CheckpointAssumption DEF Inv1, Shape
  <2>6. \A i \in Slots : Taken(slot[i])'
    <3> SUFFICES ASSUME NEW i \in Slots PROVE Taken(slot[i])'
      OBVIOUS
    <3>1. Taken(slot[i]) /\ slot[i].save \in Nat
      BY DEF Inv1, Shape, TypeOK, Slot
    <3>2. slot[i].save <= saves'
      BY <1>6, <2>1, <3>1 DEF Taken
    <3>3. slot[i].save # 0 => ranAt'[slot[i].save] = ranAt[slot[i].save]
      BY <1>6, <2>5, <3>1 DEF Taken
    <3> QED BY <1>2, <3>1, <3>2, <3>3 DEF Taken
  <2>7. Taken(image)'
    BY <1>6, <2>1, <2>5 DEF Taken
  <2>8. saves + 1 \notin committed /\ committed \in SUBSET (1 .. saves')
    BY <1>6, <2>1 DEF Inv1, Shape
  <2>9. /\ image'.state = "pending" /\ image'.whole = FALSE /\ image'.seq = s
        /\ image'.save = saves + 1 /\ image'.regions = active
    BY <2>1
  <2>10. Shape'
    BY <1>1, <1>2, <1>6, <2>1, <2>5, <2>6, <2>7, <2>8, <2>9 DEF Inv1, Shape, Saving
  <2> QED BY <2>4, <2>10 DEF Inv1
<1> QED BY <1>7, <1>8

\* What a write of a save leaves behind if it is not the last one, or fails
Goes(next) == /\ pc' = next /\ target' = target /\ image' = image /\ result' = result
              /\ errors' = errors /\ crashes' = crashes

Fails == /\ pc' \in {"idle", "off"} /\ target' = 0 /\ image' = EmptySlot
         /\ result' \in {"none", "error"} /\ (result' = "error" => pc' = "idle")
         /\ errors' \in {errors, errors + 1} /\ errors' <= MaxErrors
         /\ crashes' \in {crashes, crashes + 1} /\ crashes' <= MaxCrashes
         /\ seeded' = seeded /\ (pc' = "idle" => errors' = errors + 1)

Kept == /\ next_seq' = next_seq /\ prev' = prev /\ launch' = launch /\ exit' = exit
        /\ running' = running /\ active' = active /\ saves' = saves
        /\ launches' = launches /\ rfaults' = rfaults /\ ranAt' = ranAt
        /\ ended' = ended /\ loaded' = loaded

\* The three writes of a save
LEMMA WriteCases ==
  ASSUME TypeOK
  PROVE  /\ WriteHead => /\ pc = "head" /\ Kept /\ committed' = committed
                         /\ \/ /\ slot' = [slot EXCEPT ![target] = image]
                               /\ (Goes("body") /\ seeded' = seeded) \/ Fails
                            \/ slot' = slot /\ Fails
         /\ WriteBody => /\ pc = "body" /\ Kept /\ committed' = committed
                         /\ \/ /\ slot' = [slot EXCEPT ![target].whole = TRUE]
                               /\ (Goes("commit") /\ seeded' = seeded) \/ Fails
                            \/ slot' = slot /\ Fails
         /\ WriteCommit => /\ pc = "commit" /\ Kept
                           /\ \/ /\ slot' = [slot EXCEPT ![target].state = "committed"]
                                 /\ committed' = committed \cup {image.save}
                                 /\ \/ /\ pc' = "idle" /\ result' = "ok" /\ seeded' = TRUE
                                       /\ target' = 0 /\ image' = EmptySlot
                                       /\ errors' = errors /\ crashes' = crashes
                                    \/ Fails
                              \/ slot' = slot /\ committed' = committed /\ Fails
<1> USE CheckpointAssumption DEF Rest, tracking, tasks, Kept, Goes, Fails, Write, Card, TypeOK
<1>1. ASSUME WriteHead
      PROVE  /\ pc = "head" /\ Kept /\ committed' = committed
             /\ \/ /\ slot' = [slot EXCEPT ![target] = image]
                   /\ (Goes("body") /\ seeded' = seeded) \/ Fails
                \/ slot' = slot /\ Fails
  BY <1>1 DEF WriteHead
<1>2. ASSUME WriteBody
      PROVE  /\ pc = "body" /\ Kept /\ committed' = committed
             /\ \/ /\ slot' = [slot EXCEPT ![target].whole = TRUE]
                   /\ (Goes("commit") /\ seeded' = seeded) \/ Fails
                \/ slot' = slot /\ Fails
  BY <1>2 DEF WriteBody
<1>3. ASSUME WriteCommit
      PROVE  /\ pc = "commit" /\ Kept
             /\ \/ /\ slot' = [slot EXCEPT ![target].state = "committed"]
                   /\ committed' = committed \cup {image.save}
                   /\ \/ /\ pc' = "idle" /\ result' = "ok" /\ seeded' = TRUE
                         /\ target' = 0 /\ image' = EmptySlot
                         /\ errors' = errors /\ crashes' = crashes
                      \/ Fails
                \/ slot' = slot /\ committed' = committed /\ Fails
  BY <1>3 DEF WriteCommit
<1> QED BY <1>1, <1>2, <1>3

\* The type of the variables after a write
LEMMA WriteType ==
  ASSUME TypeOK, Kept, slot' \in [Slots -> Slot],
         \/ Fails
         \/ Goes("body") /\ seeded' = seeded
         \/ Goes("commit") /\ seeded' = seeded
         \/ /\ pc' = "idle" /\ result' = "ok" /\ seeded' = TRUE
            /\ target' = 0 /\ image' = EmptySlot /\ errors' = errors /\ crashes' = crashes
  PROVE  TypeOK'
<1>1. EmptySlot \in Slot /\ 0 \in Slots
  <2>1. Zero \in [Tasks -> 0 .. CountMod - 1]
    BY CheckpointAssumption DEF Zero
  <2> QED BY <2>1, CheckpointAssumption DEF EmptySlot, Slot, Slots
<1>2. /\ errors' \in 0 .. MaxErrors /\ crashes' \in 0 .. MaxCrashes
      /\ target' \in Slots /\ image' \in Slot
  BY <1>1, CheckpointAssumption DEF TypeOK, Fails, Goes
<1>3. /\ pc' \in {"off", "idle", "head", "body", "commit"}
      /\ result' \in {"none", "skipped", "ok", "error"}
  BY DEF TypeOK, Fails, Goes
<1>4. seeded' \in BOOLEAN
  BY DEF TypeOK, Fails
<1> QED BY <1>2, <1>3, <1>4 DEF TypeOK, Kept

\* A write that fails leaves no save in progress
LEMMA FailShape ==
  ASSUME Shape, TypeOK, Kept, Fails,
         committed' \in SUBSET (1 .. saves),
         \A i \in Slots : Taken(slot'[i]),
         \A i \in Slots : slot'[i].state # "none" => slot'[i].seq # 0 /\ SlotOf(slot'[i].seq) = i,
         \A i \in Slots : Valid(slot'[i]) => slot'[i].save \in committed'
  PROVE  Shape'
<1>1. Taken(image)'
  BY DEF Kept, Fails, Taken, EmptySlot, TypeOK
<1>2. \A i \in Slots : Taken(slot[i])'
  BY DEF Kept, Taken
<1> QED BY <1>1, <1>2 DEF Shape, Kept, Fails, Saving

\* The PENDING header
LEMMA WriteHeadStep ==
  ASSUME Inv1, WriteHead
  PROVE  Inv1'
<1>1. TypeOK /\ Shape
  BY DEF Inv1
<1>2. /\ pc = "head" /\ Kept /\ committed' = committed
      /\ \/ /\ slot' = [slot EXCEPT ![target] = image]
            /\ (Goes("body") /\ seeded' = seeded) \/ Fails
         \/ slot' = slot /\ Fails
  BY <1>1, WriteCases
<1>3. target \in Slots /\ image \in Slot /\ slot \in [Slots -> Slot]
  BY <1>1 DEF TypeOK
<1>4. \A i \in Slots : slot'[i] = slot[i] \/ (i = target /\ slot'[i] = image)
  BY <1>2, <1>3
<1>5. slot' \in [Slots -> Slot] /\ TypeOK'
  <2>1. slot' \in [Slots -> Slot]
    BY <1>2, <1>3
  <2> QED BY <1>1, <1>2, <2>1, WriteType
<1>6. /\ image.state = "pending" /\ target = SlotOf(image.seq) /\ image.seq # 0
      /\ Taken(image)
  BY <1>1, <1>2 DEF Shape, Saving
<1>7. /\ committed' \in SUBSET (1 .. saves)
      /\ \A i \in Slots : Taken(slot'[i])
      /\ \A i \in Slots : slot'[i].state # "none" => slot'[i].seq # 0 /\ SlotOf(slot'[i].seq) = i
      /\ \A i \in Slots : Valid(slot'[i]) => slot'[i].save \in committed'
  BY <1>1, <1>2, <1>4, <1>6 DEF Shape, Valid
<1>8. CASE Fails
  BY <1>1, <1>2, <1>5, <1>7, <1>8, FailShape DEF Inv1
<1>9. CASE Goes("body") /\ slot' = [slot EXCEPT ![target] = image]
  <2>1. (\A i \in Slots : Taken(slot[i]))' /\ Taken(image)'
    BY <1>2, <1>6, <1>7, <1>9 DEF Kept, Taken, Goes
  <2>2. slot'[target'] = image'
    BY <1>3, <1>9 DEF Goes
  <2>3. Shape'
    BY <1>1, <1>2, <1>7, <1>9, <2>1, <2>2 DEF Shape, Kept, Goes, Saving
  <2> QED BY <1>5, <2>3 DEF Inv1
<1> QED BY <1>2, <1>8, <1>9

\* The other blocks of the image
LEMMA WriteBodyStep ==
  ASSUME Inv1, WriteBody
  PROVE  Inv1'
<1>1. TypeOK /\ Shape
  BY DEF Inv1
<1>2. /\ pc = "body" /\ Kept /\ committed' = committed
      /\ \/ /\ slot' = [slot EXCEPT ![target].whole = TRUE]
            /\ (Goes("commit") /\ seeded' = seeded) \/ Fails
         \/ slot' = slot /\ Fails
  BY <1>1, WriteCases
<1>3. /\ target \in Slots /\ image \in Slot /\ slot \in [Slots -> Slot]
      /\ slot[target] = image
  BY <1>1, <1>2 DEF TypeOK, Shape
<1>4. PICK w : w = [image EXCEPT !.whole = TRUE]
  OBVIOUS
<1>5. w \in Slot /\ w.state = image.state /\ w.seq = image.seq /\ Taken(w) /\ w.whole
  <2>1. Taken(image)
    BY <1>1 DEF Shape
  <2> QED BY <1>3, <1>4, <2>1 DEF Slot, Taken
<1>6. \A i \in Slots : slot'[i] = slot[i] \/ (i = target /\ slot'[i] = w)
  BY <1>2, <1>3, <1>4
<1>7. slot' \in [Slots -> Slot] /\ TypeOK'
  <2>1. slot' \in [Slots -> Slot]
    BY <1>2, <1>3, <1>4, <1>5
  <2> QED BY <1>1, <1>2, <2>1, WriteType
<1>8. image.state = "pending" /\ target = SlotOf(image.seq) /\ image.seq # 0
  BY <1>1, <1>2 DEF Shape, Saving
<1>9. /\ committed' \in SUBSET (1 .. saves)
      /\ \A i \in Slots : Taken(slot'[i])
      /\ \A i \in Slots : slot'[i].state # "none" => slot'[i].seq # 0 /\ SlotOf(slot'[i].seq) = i
      /\ \A i \in Slots : Valid(slot'[i]) => slot'[i].save \in committed'
  BY <1>1, <1>2, <1>5, <1>6, <1>8 DEF Shape, Valid
<1>10. CASE Fails
  BY <1>1, <1>2, <1>7, <1>9, <1>10, FailShape DEF Inv1
<1>11. CASE Goes("commit") /\ slot' = [slot EXCEPT ![target].whole = TRUE]
  <2>1. (\A i \in Slots : Taken(slot[i]))' /\ Taken(image)'
    BY <1>1, <1>2, <1>9, <1>11 DEF Shape, Kept, Taken, Goes
  <2>2. slot'[target'] = [image' EXCEPT !.whole = TRUE]
    BY <1>3, <1>11 DEF Goes
  <2>3. Shape'
    BY <1>1, <1>2, <1>9, <1>11, <2>1, <2>2 DEF Shape, Kept, Goes, Saving
  <2> QED BY <1>7, <2>3 DEF Inv1
<1> QED BY <1>2, <1>10, <1>11

\* The COMMITTED header
LEMMA WriteCommitStep ==
  ASSUME Inv1, WriteCommit
  PROVE  Inv1'
<1>1. TypeOK /\ Shape
  BY DEF Inv1
<1>2. /\ pc = "commit" /\ Kept
      /\ \/ /\ slot' = [slot EXCEPT ![target].state = "committed"]
            /\ committed' = committed \cup {image.save}
            /\ \/ /\ pc' = "idle" /\ result' = "ok" /\ seeded' = TRUE
                  /\ target' = 0 /\ image' = EmptySlot
                  /\ errors' = errors /\ crashes' = crashes
               \/ Fails
         \/ slot' = slot /\ committed' = committed /\ Fails
  BY <1>1, WriteCases
<1>3. /\ target \in Slots /\ image \in Slot /\ slot \in [Slots -> Slot]
      /\ slot[target] = [image EXCEPT !.whole = TRUE]
  BY <1>1, <1>2 DEF TypeOK, Shape
<1>4. PICK w : w = [slot[target] EXCEPT !.state = "committed"]
  OBVIOUS
<1>5. w \in Slot /\ w.seq = image.seq /\ w.save = image.save /\ Taken(w)
  <2>1. Taken(image)
    BY <1>1 DEF Shape
  <2> QED BY <1>3, <1>4, <2>1 DEF Slot, Taken
<1>6. \A i \in Slots : \/ slot'[i] = slot[i]
                       \/ i = target /\ slot'[i] = w /\ committed' = committed \cup {image.save}
  BY <1>2, <1>3, <1>4
<1>7. slot' \in [Slots -> Slot] /\ TypeOK'
  <2>1. slot' \in [Slots -> Slot]
    BY <1>2, <1>3, <1>4, <1>5
  <2> QED BY <1>1, <1>2, <2>1, WriteType
<1>8. target = SlotOf(image.seq) /\ image.seq # 0 /\ image.save = saves /\ saves > 0
  BY <1>1, <1>2 DEF Shape, Saving
<1>9. /\ committed' \in SUBSET (1 .. saves)
      /\ \A i \in Slots : Taken(slot'[i])
      /\ \A i \in Slots : slot'[i].state # "none" => slot'[i].seq # 0 /\ SlotOf(slot'[i].seq) = i
      /\ \A i \in Slots : Valid(slot'[i]) => slot'[i].save \in committed'
  <2>1. committed' \in SUBSET (1 .. saves)
    <3>1. saves \in Nat /\ committed \in SUBSET (1 .. saves)
      BY <1>1, CheckpointAssumption DEF TypeOK, Shape
    <3> QED BY <1>2, <1>8, <3>1
  <2>2. committed \subseteq committed'
    BY <1>2
  <2> QED BY <1>1, <1>5, <1>6, <1>8, <2>1, <2>2 DEF Shape, Valid
<1>10. CASE Fails
  BY <1>1, <1>2, <1>7, <1>9, <1>10, FailShape DEF Inv1
<1>11. CASE pc' = "idle" /\ result' = "ok" /\ image' = EmptySlot
  <2>1. (\A i \in Slots : Taken(slot[i]))' /\ Taken(image)'
    BY <1>1, <1>2, <1>9, <1>11 DEF Shape, Kept, Taken, EmptySlot, TypeOK
  <2>2. Shape'
    BY <1>1, <1>2, <1>9, <1>11, <2>1 DEF Shape, Kept, Saving
  <2> QED BY <1>7, <2>2 DEF Inv1
<1> QED BY <1>2, <1>10, <1>11

\* Every step keeps the types and the shape of the slots
LEMMA StepInv1 == Inv1 /\ [Next]_vars => Inv1'
<1> SUFFICES ASSUME Inv1, [Next]_vars PROVE Inv1'
  OBVIOUS
<1>1. CASE UNCHANGED vars
  BY <1>1 DEF vars, tracking, tasks, bounds, history, Inv1, TypeOK, Shape, Taken, Saving
<1> QED
  BY <1>1, TaskStep, LoadStep, PowerStep, SaveBeginStep, WriteHeadStep, WriteBodyStep,
     WriteCommitStep DEF Next

\* Types and shape hold in every behaviour
LEMMA AlwaysInv1 == Spec => []Inv1
<1>1. Init => Inv1
  BY InitInv1
<1>2. Inv1 /\ [Next]_vars => Inv1'
  BY StepInv1
<1> QED BY <1>1, <1>2, PTL DEF Spec

-----------------------------------------------------------------------------
(* Launch and exit counts: as long as they cannot wrap around, the counts of *)
(* every image tell the tasks that were running when it was taken            *)

NoWrap == MaxSaves < CountMod

\* Tracking launches and exits keeps the counts in balance
LEMMA BumpBalanced ==
  ASSUME NoWrap, TypeOK, saves < MaxSaves,
         Balanced(launch, exit, prev), \A t \in Tasks : launch[t] <= saves
  PROVE  /\ Balanced(Bump(launch, running \ prev), Bump(exit, prev \ running), running)
         /\ \A t \in Tasks : Bump(launch, running \ prev)[t] <= saves + 1
         /\ running = prev => /\ Bump(launch, running \ prev) = launch
                              /\ Bump(exit, prev \ running) = exit
<1> DEFINE L == Bump(launch, running \ prev)
           E == Bump(exit, prev \ running)
<1>1. ASSUME NEW t \in Tasks
      PROVE  L[t] = E[t] + (IF t \in running THEN 1 ELSE 0) /\ L[t] <= saves + 1
  <2>1. /\ launch[t] \in 0 .. CountMod - 1 /\ exit[t] \in 0 .. CountMod - 1
        /\ saves \in Nat /\ CountMod \in Nat /\ MaxSaves \in Nat
        /\ saves < MaxSaves /\ MaxSaves < CountMod
    BY CheckpointAssumption DEF TypeOK, NoWrap
  <2>2. launch[t] = exit[t] + (IF t \in prev THEN 1 ELSE 0) /\ launch[t] <= saves
    BY DEF Balanced
  <2>3. (launch[t] + 1) % CountMod = launch[t] + 1
    BY <2>1, <2>2
  <2>4. t \in prev => (exit[t] + 1) % CountMod = exit[t] + 1
    BY <2>1, <2>2
  <2>5. L[t] = IF t \in running \ prev THEN launch[t] + 1 ELSE launch[t]
    BY <2>3 DEF Bump
  <2>6. E[t] = IF t \in prev \ running THEN exit[t] + 1 ELSE exit[t]
    BY <2>4 DEF Bump
  <2> HIDE DEF L, E
  <2> QED BY <2>1, <2>2, <2>5, <2>6
<1>2. running = prev => L = launch /\ E = exit
  BY DEF Bump, TypeOK
<1> QED BY <1>1, <1>2 DEF Balanced

\* What holds of an image that tracks its tasks
Tracks(s) == /\ Balanced(s.launch, s.exit, s.ran)
             /\ \A t \in Tasks : s.launch[t] <= saves

\* The regions of such an image are all restored
LEMMA AllAllowed ==
  ASSUME NEW s \in Slot, Tracks(s), s.regions \subseteq s.ran
  PROVE  Allowed(s) = s.regions
<1>1. \A t \in s.regions : t \in Tasks /\ s.launch[t] = s.exit[t] + 1 /\ s.exit[t] \in Nat
  <2> SUFFICES ASSUME NEW t \in s.regions
               PROVE  t \in Tasks /\ s.launch[t] = s.exit[t] + 1 /\ s.exit[t] \in Nat
    OBVIOUS
  <2>1. t \in Tasks /\ t \in s.ran /\ s.exit[t] \in Nat
    BY DEF Slot
  <2> QED BY <2>1 DEF Tracks, Balanced
<1> QED BY <1>1 DEF Allowed

\* Initially every count is zero
LEMMA InitCounted == Init => Counted
BY CheckpointAssumption DEF Init, Counted, Balanced, EmptySlot, Zero, NotLoaded,
                            LoadRestoresAll, Slots

\* A save counts the launches and exits since the last one
LEMMA SaveBeginCounted ==
  ASSUME NoWrap, Inv1, Counted, NEW bad \in SUBSET Slots, SaveBegin(bad)
  PROVE  Counted'
<1>1. /\ saves < MaxSaves /\ slot' = slot /\ running' = running /\ prev' = running
      /\ loaded' = NotLoaded /\ launch' = Bump(launch, running \ prev)
      /\ exit' = Bump(exit, prev \ running)
  BY DEF SaveBegin, tasks
<1>2. /\ Balanced(launch', exit', prev') /\ \A t \in Tasks : launch'[t] <= saves + 1
      /\ running = prev => launch' = launch
  BY <1>1, BumpBalanced DEF Inv1, Counted
<1>3. saves \in Nat /\ \A t \in Tasks : launch[t] \in Nat /\ launch'[t] \in Nat
  <2>1. launch' \in [Tasks -> 0 .. CountMod - 1]
    BY <1>1, BumpType DEF Inv1, TypeOK
  <2> QED BY <2>1 DEF Inv1, TypeOK
<1>4. \A i \in Slots : Tracks(slot[i]) /\ \A t \in Tasks : slot[i].launch[t] \in Nat
  BY DEF Counted, Tracks, Inv1, TypeOK, Slot
<1>5. LoadRestoresAll'
  BY <1>1 DEF LoadRestoresAll, NotLoaded
<1>6. CASE saves' = saves /\ image' = image /\ running = prev
  BY <1>1, <1>2, <1>5, <1>6 DEF Counted
<1>7. CASE /\ saves' = saves + 1 /\ image'.launch = launch' /\ image'.exit = exit'
           /\ image'.ran = running
  <2>1. \A i \in Slots : \A t \in Tasks : slot[i].launch[t] <= saves + 1
    BY <1>3, <1>4 DEF Tracks
  <2> QED BY <1>1, <1>2, <1>4, <1>5, <1>7, <2>1 DEF Counted, Tracks
<1>8. \/ saves' = saves /\ image' = image /\ running = prev
      \/ /\ saves' = saves + 1 /\ image'.launch = launch' /\ image'.exit = exit'
         /\ image'.ran = running
  <2>1. CASE NothingToSave(running \ prev, prev \ running)
    <3>1. saves' = saves /\ image' = image
      BY <2>1 DEF SaveBegin
    <3> QED BY <2>1, <3>1 DEF NothingToSave
  <2>2. CASE ~NothingToSave(running \ prev, prev \ running)
    <3>1. /\ saves' = saves + 1
          /\ image' = [state |-> "pending", whole |-> FALSE, seq |-> Seed(bad),
                       save |-> saves + 1, ran |-> running, regions |-> active,
                       launch |-> launch', exit |-> exit']
      BY <2>2 DEF SaveBegin
    <3> QED BY <3>1
  <2> QED BY <2>1, <2>2
<1> QED BY <1>6, <1>7, <1>8

\* The writes move the image to the card as it is
LEMMA WriteCounted ==
  ASSUME Inv1, Counted, WriteHead \/ WriteBody \/ WriteCommit
  PROVE  Counted'
<1>1. TypeOK /\ Shape /\ Tracks(image) /\ \A i \in Slots : Tracks(slot[i])
  BY DEF Inv1, Counted, Tracks
<1>2. Kept /\ image' \in {image, EmptySlot} /\ target \in Slots /\ image \in Slot
      /\ slot \in [Slots -> Slot] /\ loaded = NotLoaded
  <2>1. loaded = NotLoaded
    BY <1>1 DEF WriteHead, WriteBody, WriteCommit, Shape, Saving
  <2> QED BY <1>1, <2>1, WriteCases DEF TypeOK, Goes, Fails
<1>3. \A i \in Slots : \/ slot'[i] = slot[i]
                       \/ i = target /\ slot'[i] = image
                       \/ /\ i = target /\ slot'[i].launch = slot[i].launch
                          /\ slot'[i].exit = slot[i].exit /\ slot'[i].ran = slot[i].ran
  <2>1. CASE WriteHead
    BY <1>1, <1>2, <2>1, WriteCases
  <2>2. CASE WriteBody
    BY <1>1, <1>2, <2>2, WriteCases DEF Slot
  <2>3. CASE WriteCommit
    <3>1. slot' \in {slot, [slot EXCEPT ![target].state = "committed"]}
      BY <1>1, <2>3, WriteCases
    <3> QED BY <1>2, <3>1 DEF Slot
  <2> QED BY <2>1, <2>2, <2>3
<1>4. \A i \in Slots : Tracks(slot'[i])
  BY <1>1, <1>3 DEF Tracks
<1>5. Tracks(EmptySlot)
  BY <1>1 DEF Tracks, EmptySlot, Zero, Balanced, TypeOK
<1>6. LoadRestoresAll'
  BY <1>2 DEF LoadRestoresAll, NotLoaded, Kept
<1> QED BY <1>1, <1>2, <1>4, <1>5, <1>6 DEF Counted, Tracks, Kept

\* A load takes the counts from the image it loads, and restores all its tasks
LEMMA LoadCounted ==
  ASSUME Inv1, Counted, NEW bad \in SUBSET Slots, NEW base, NEW on,
         LoadFrom(base, on, bad)
  PROVE  Counted'
<1>1. Found(bad) \in SUBSET Slots /\ Found(bad) # {}
  BY DEF Found, LoadFrom
<1>2. PICK i \in Slots : i = Best(Found(bad))
  BY <1>1, BestFound DEF Inv1
<1>3. slot[i] \in Slot /\ Tracks(slot[i]) /\ Taken(slot[i])
  BY DEF Inv1, TypeOK, Shape, Counted, Tracks
<1>4. Allowed(slot[i]) = slot[i].regions
  BY <1>3, AllAllowed DEF Taken
<1>5. /\ active' = on \cup Allowed(slot[i])
      /\ prev' = slot[i].ran /\ launch' = slot[i].launch /\ exit' = slot[i].exit
      /\ loaded' = [save |-> slot[i].save, tasks |-> active' \ on]
      /\ slot' = slot /\ image' = image /\ saves' = saves /\ ranAt' = ranAt
  BY <1>2 DEF LoadFrom, Counts
<1>6. LoadRestoresAll'
  <2>1. loaded'.save = slot[i].save /\ loaded'.tasks = active' \ on
    BY <1>5
  <2> QED BY <1>3, <1>4, <1>5, <2>1 DEF LoadRestoresAll, Taken
<1> QED BY <1>3, <1>5, <1>6 DEF Counted, Tracks

\* Every step keeps the counts in balance
LEMMA StepCounted == NoWrap /\ Inv1 /\ Counted /\ [Next]_vars => Counted'
<1> SUFFICES ASSUME NoWrap, Inv1, Counted, [Next]_vars PROVE Counted'
  OBVIOUS
<1>1. ASSUME slot' = slot, image' = image, saves' = saves, launch' = launch,
             exit' = exit, prev' = prev, LoadRestoresAll'
      PROVE  Counted'
  BY <1>1 DEF Counted
<1>2. ASSUME NEW t \in Tasks, Launch(t) \/ Start(t) \/ Exit(t) PROVE Counted'
  <2>1. LoadRestoresAll'
    BY <1>2 DEF Launch, Start, Exit, LoadRestoresAll, NotLoaded
  <2> QED BY <1>1, <1>2, <2>1 DEF Launch, Start, Exit, tracking, bounds
<1>3. ASSUME NEW bad \in SUBSET Slots, LoadNone(bad) PROVE Counted'
  <2>1. LoadRestoresAll'
    BY <1>3 DEF LoadNone, LoadRestoresAll, NotLoaded
  <2> QED BY <1>1, <1>3, <2>1 DEF LoadNone, tracking
<1>4. CASE PowerOff \/ UNCHANGED vars
  <2>1. LoadRestoresAll'
    BY <1>4 DEF PowerOff, vars, tasks, history, Counted, LoadRestoresAll
  <2> QED BY <1>1, <1>4, <2>1 DEF PowerOff, vars, tracking, tasks, bounds
<1>5. CASE BootPlain
  <2>1. LoadRestoresAll'
    BY <1>5 DEF BootPlain, LoadRestoresAll, NotLoaded
  <2>2. Balanced(Zero, Zero, {}) /\ \A t \in Tasks : Zero[t] <= saves
    BY DEF Balanced, Zero, Inv1, TypeOK
  <2> QED BY <1>5, <2>1, <2>2 DEF BootPlain, bounds, Counted
<1> QED
  BY <1>2, <1>3, <1>4, <1>5, SaveBeginCounted, WriteCounted, LoadCounted
  DEF Next, Load, BootLoad

\* A load brings back exactly the tasks that were active when the checkpoint was
\* taken, whatever writes failed or were cut off before and whatever slot cannot be
\* read now, as long as the 16-bit launch and exit counts have not wrapped around
\* (term_ckpt_load_latest_sd_internal filters the regions by these counts).
THEOREM LoadBringsBackAll == ASSUME NoWrap PROVE Spec => []LoadRestoresAll
<1>1. Init => Counted
  BY InitCounted
<1>2. Inv1 /\ Counted /\ [Next]_vars => Counted'
  BY StepCounted
<1>3. Counted => LoadRestoresAll
  BY DEF Counted
<1> QED BY <1>1, <1>2, <1>3, AlwaysInv1, PTL DEF Spec

-----------------------------------------------------------------------------
(* The order of the slots, when every slot can be read *)

AllReadable == MaxReadFaults = 0

\* Then no read fails
LEMMA NoneBad ==
  ASSUME AllReadable, TypeOK, NEW bad \in SUBSET Slots, ReadFaults(bad)
  PROVE  bad = {}
BY DEF AllReadable, TypeOK, ReadFaults, Slots

\* Initially there is no valid slot
LEMMA InitOrdered == Init => Ordered
BY DEF Init, Ordered, Saving, EmptySlot, Valid, IsBest

\* Steps outside a save that touch no slot and begin none
LEMMA QuietOrdered ==
  ASSUME Ordered, slot' = slot, committed' = committed, errors' = errors,
         pc' \in {"idle", "off"}, result' \in {"none", "skipped"},
         pc' = "idle" /\ seeded' =>
           /\ \A i \in Slots : Valid(slot[i]) => slot[i].seq < next_seq'
           /\ errors = 0 => /\ \E i \in Slots : Valid(slot[i])
                            /\ \A b \in Slots : IsBest(b) => next_seq' = slot[b].seq + 1,
         pc' = "idle" /\ errors = 0 =>
           \A b \in Slots : IsBest(b) => Allowed(slot[b]) \cap ended' \subseteq prev'
  PROVE  Ordered'
<1>1. \A b \in Slots : IsBest(b)' <=> IsBest(b)
  BY DEF IsBest
<1>2. ~Saving'
  BY DEF Saving
<1> QED BY <1>1, <1>2 DEF Ordered

\* A task that ends is one the tracking saw
LEMMA TaskOrdered ==
  ASSUME Inv1, Ordered, NEW t \in Tasks, Launch(t) \/ Start(t) \/ Exit(t)
  PROVE  Ordered'
<1>1. /\ slot' = slot /\ committed' = committed /\ errors' = errors /\ pc = "idle"
      /\ pc' = pc /\ result' = "none" /\ seeded' = seeded /\ next_seq' = next_seq
      /\ prev' = prev
  BY DEF Launch, Start, Exit, tracking, bounds
<1>2. \A S : S \cap ended \subseteq prev => S \cap ended' \subseteq prev
  BY DEF Launch, Start, Exit
<1> QED BY <1>1, <1>2, QuietOrdered DEF Ordered

\* After a load the best slot is the one that was loaded
LEMMA LoadOrdered ==
  ASSUME AllReadable, Inv1, Ordered, NEW bad \in SUBSET Slots, NEW base, NEW on,
         LoadFrom(base, on, bad), pc' = "idle", result' = "none",
         ended' \cap running' = {}
  PROVE  Ordered'
<1>1. TypeOK /\ Shape /\ bad = {}
  BY NoneBad DEF Inv1, LoadFrom
<1>2. PICK b \in Slots : b = Best(Found({})) /\ IsBest(b)
  BY <1>1, BestUnique DEF LoadFrom
<1>3. /\ slot' = slot /\ committed' = committed /\ errors' = errors
      /\ next_seq' = slot[b].seq + 1 /\ running' = base \cup Allowed(slot[b])
  BY <1>1, <1>2 DEF LoadFrom
<1>4. \A i \in Slots : slot[i].seq \in Nat
  BY <1>1 DEF TypeOK, Slot
<1>5. \A i \in Slots : Valid(slot[i]) => slot[i].seq < next_seq'
  <2> SUFFICES ASSUME NEW i \in Slots, Valid(slot[i]) PROVE slot[i].seq < next_seq'
    OBVIOUS
  <2>1. i = b \/ slot[i].seq < slot[b].seq
    BY <1>2 DEF IsBest
  <2> QED BY <1>3, <1>4, <2>1
<1>6. \A c \in Slots : IsBest(c) => c = b
  BY <1>1, <1>2, BestUnique
<1>7. Valid(slot[b])
  BY <1>2 DEF IsBest
<1> QED BY <1>3, <1>5, <1>6, <1>7, QuietOrdered

\* Power off, a boot without restore, and a load that finds no slot
LEMMA PowerOrdered ==
  ASSUME Inv1, Ordered,
         \/ PowerOff \/ BootPlain
         \/ \E bad \in SUBSET Slots : LoadNone(bad)
  PROVE  Ordered'
<1>1. CASE PowerOff
  BY <1>1, QuietOrdered DEF PowerOff, history
<1>2. CASE BootPlain
  <2>1. /\ slot' = slot /\ committed' = committed /\ errors' = errors /\ pc' = "idle"
        /\ result' = "none" /\ seeded' = FALSE /\ ended' = {}
    BY <1>2 DEF BootPlain, bounds
  <2> QED BY <2>1, QuietOrdered
<1>3. CASE \E bad \in SUBSET Slots : LoadNone(bad)
  <2>1. /\ slot' = slot /\ committed' = committed /\ errors' = errors /\ pc = "idle"
        /\ pc' = pc /\ result' = "none" /\ seeded' = seeded /\ next_seq' = next_seq
        /\ prev' = prev /\ ended' = ended
    BY <1>3 DEF LoadNone, tracking
  <2> QED BY <2>1, QuietOrdered DEF Ordered
<1> QED BY <1>1, <1>2, <1>3

\* The number a save starts from is above those of all valid slots; if no write
\* has returned an error, it is the next one
LEMMA SeedAhead ==
  ASSUME Inv1, Ordered, pc = "idle"
  PROVE  /\ \A i \in Slots : Valid(slot[i]) => slot[i].seq < Seed({})
         /\ errors = 0 => \A b \in Slots : IsBest(b) => Seed({}) = slot[b].seq + 1
<1>1. TypeOK /\ Shape /\ \A i \in Slots : slot[i].seq \in Nat
  BY DEF Inv1, TypeOK, Slot
<1>2. CASE seeded \/ Found({}) = {}
  <2>1. Seed({}) = next_seq
    BY <1>2 DEF Seed
  <2>2. seeded \/ \A i \in Slots : ~Valid(slot[i])
    BY <1>2 DEF Found
  <2> QED BY <2>1, <2>2 DEF Ordered, IsBest
<1>3. CASE ~seeded /\ Found({}) # {}
  <2>1. PICK b \in Slots : b = Best(Found({})) /\ IsBest(b)
    BY <1>1, <1>3, BestUnique
  <2>2. Seed({}) = slot[b].seq + 1
    BY <1>3, <2>1 DEF Seed
  <2>3. ASSUME NEW i \in Slots, Valid(slot[i]) PROVE slot[i].seq < Seed({})
    <3>1. i = b \/ slot[i].seq < slot[b].seq
      BY <2>1, <2>3 DEF IsBest
    <3> QED BY <1>1, <2>2, <3>1
  <2>4. \A c \in Slots : IsBest(c) => c = b
    BY <1>1, <2>1, BestUnique
  <2> QED BY <2>2, <2>3, <2>4
<1> QED BY <1>2, <1>3

\* A save aims at the next number, and if there is nothing to save no task has
\* ended since the last save
LEMMA SaveBeginOrdered ==
  ASSUME AllReadable, Inv1, Ordered, NEW bad \in SUBSET Slots, SaveBegin(bad)
  PROVE  Ordered'
<1>1. TypeOK /\ Shape /\ bad = {} /\ pc = "idle"
  BY NoneBad DEF Inv1, SaveBegin
<1>2. PICK s : s = Seed({})
  OBVIOUS
<1>3. /\ \A i \in Slots : Valid(slot[i]) => slot[i].seq < s
      /\ errors = 0 => \A b \in Slots : IsBest(b) => s = slot[b].seq + 1
  BY <1>1, <1>2, SeedAhead
<1>4. /\ slot' = slot /\ committed' = committed /\ errors' = errors
      /\ ended' = ended /\ prev' = running /\ seeded' = (seeded \/ Found({}) # {})
  BY <1>1 DEF SaveBegin
<1>5. CASE NothingToSave(running \ prev, prev \ running)
  <2>1. result' = "skipped" /\ next_seq' = s /\ pc' = pc /\ running = prev
    <3>1. result' = "skipped" /\ next_seq' = s /\ pc' = pc
      BY <1>1, <1>2, <1>5 DEF SaveBegin
    <3> QED BY <1>5, <3>1 DEF NothingToSave
  <2>2. seeded' /\ errors = 0 => \E i \in Slots : Valid(slot[i])
    BY <1>1, <1>4 DEF Ordered, Found
  <2>3. errors = 0 => \A b \in Slots : IsBest(b) => Allowed(slot[b]) \cap ended' \subseteq prev'
    BY <1>1, <1>4, <2>1 DEF Ordered
  <2> QED BY <1>1, <1>3, <1>4, <2>1, <2>2, <2>3, QuietOrdered
<1>6. CASE ~NothingToSave(running \ prev, prev \ running)
  <2>1. /\ image'.seq = s /\ image'.regions = active /\ pc' = "head" /\ result' = "none"
    <3>1. /\ pc' = "head" /\ result' = "none"
          /\ image' = [state |-> "pending", whole |-> FALSE, seq |-> s,
                       save |-> saves + 1, ran |-> running, regions |-> active,
                       launch |-> launch', exit |-> exit']
      BY <1>1, <1>2, <1>6 DEF SaveBegin
    <3> QED BY <3>1
  <2>2. active \cap ended = {}
    BY <1>1 DEF TypeOK, Shape
  <2>3. \A b \in Slots : IsBest(b)' <=> IsBest(b)
    BY <1>4 DEF IsBest
  <2> QED BY <1>3, <1>4, <2>1, <2>2, <2>3 DEF Ordered
<1> QED BY <1>5, <1>6

\* Until an error the save in progress goes to the other slot than the best one
LEMMA OtherSlot ==
  ASSUME Inv1, Ordered, Saving, errors = 0, NEW b \in Slots, IsBest(b)
  PROVE  b # target
<1>1. slot[b].seq \in Nat \ {0} /\ SlotOf(slot[b].seq) = b
  BY DEF Inv1, TypeOK, Slot, Shape, IsBest, Valid
<1>2. image.seq = slot[b].seq + 1 /\ target = SlotOf(image.seq)
  BY DEF Ordered, Inv1, Shape
<1> QED BY <1>1, <1>2, Alternate

\* A write before the commit: the target slot is not valid
LEMMA UncommittedOrdered ==
  ASSUME Inv1, Ordered, Saving, Kept, committed' = committed, seeded' = seeded,
         Fails \/ Goes("body") \/ Goes("commit"),
         \/ slot' = slot
         \/ \A i \in Slots : slot'[i] = slot[i] \/ (i = target /\ ~Valid(slot'[i]))
  PROVE  Ordered'
<1>1. TypeOK /\ Shape /\ \A i \in Slots : slot[i].seq \in Nat
  BY DEF Inv1, TypeOK, Slot
<1>2. /\ image.seq \in Nat /\ next_seq = image.seq + 1
      /\ \A i \in Slots : Valid(slot[i]) => slot[i].seq < image.seq
      /\ image.regions \cap ended = {} /\ result = "none"
  BY <1>1 DEF TypeOK, Slot, Shape, Ordered
<1>3. \A i \in Slots : Valid(slot'[i]) => Valid(slot[i]) /\ slot'[i] = slot[i]
  OBVIOUS
<1>4. ASSUME errors = 0
      PROVE  /\ \A b \in Slots : IsBest(b)' => IsBest(b) /\ slot'[b] = slot[b]
             /\ (\A i \in Slots : ~Valid(slot'[i])) => \A i \in Slots : ~Valid(slot[i])
  <2>1. \A b \in Slots : IsBest(b) => b # target /\ slot'[b] = slot[b]
    BY <1>4, OtherSlot
  <2>2. ASSUME NEW b \in Slots, IsBest(b)' PROVE IsBest(b) /\ slot'[b] = slot[b]
    <3>1. Valid(slot'[b]) /\ Valid(slot[b]) /\ slot'[b] = slot[b]
      BY <1>3, <2>2 DEF IsBest
    <3>2. PICK c \in Slots : IsBest(c)
      BY <1>1, <3>1, BestUnique
    <3>3. c # b => /\ Valid(slot'[c]) /\ slot'[c] = slot[c]
                   /\ slot'[c].seq < slot'[b].seq /\ slot[b].seq < slot[c].seq
      BY <2>1, <2>2, <3>1, <3>2 DEF IsBest
    <3>4. c = b
      BY <1>1, <3>1, <3>3
    <3> QED BY <3>1, <3>2, <3>4
  <2>3. ASSUME NEW i \in Slots, Valid(slot[i]) PROVE \E j \in Slots : Valid(slot'[j])
    <3>1. PICK c \in Slots : IsBest(c)
      BY <1>1, <2>3, BestUnique
    <3> QED BY <2>1, <3>1 DEF IsBest
  <2> QED BY <2>2, <2>3
<1>5. \A i \in Slots : Valid(slot'[i]) => slot'[i].seq < image.seq /\ slot'[i].seq < next_seq
  BY <1>1, <1>2, <1>3
<1>6. result' # "ok"
  BY <1>2 DEF Fails, Goes
<1>7. Saving' => image' = image /\ errors' = errors
  BY DEF Fails, Goes, Saving
<1>8. errors' = 0 => errors = 0 /\ pc' # "idle"
  BY <1>1 DEF Fails, Goes, TypeOK
<1>9. \A b \in Slots : IsBest(b) /\ errors = 0 =>
        (\A c \in committed : c <= slot[b].save) /\ image.seq = slot[b].seq + 1
  BY DEF Ordered
<1>10. errors = 0 /\ (\A i \in Slots : ~Valid(slot[i])) => committed = {}
  BY DEF Ordered
<1>11. errors' = 0 =>
         /\ (\A i \in Slots : ~Valid(slot'[i])) => committed' = {}
         /\ \A b \in Slots : IsBest(b)' =>
              /\ \A c \in committed' : c <= slot'[b].save
              /\ Saving' => image'.seq = slot'[b].seq + 1
  BY <1>4, <1>7, <1>8, <1>9, <1>10
<1>12. /\ pc' = "idle" /\ seeded' => \A i \in Slots : Valid(slot'[i]) => slot'[i].seq < next_seq'
       /\ Saving' => \A i \in Slots : Valid(slot'[i]) => slot'[i].seq < image'.seq
       /\ Saving' => image'.regions \cap ended' = {}
  BY <1>2, <1>5, <1>7 DEF Kept
<1> QED BY <1>6, <1>8, <1>11, <1>12 DEF Ordered

\* The commit makes the target the best slot
LEMMA CommittedOrdered ==
  ASSUME Inv1, Ordered, pc = "commit", Kept,
         slot' = [slot EXCEPT ![target].state = "committed"],
         committed' = committed \cup {image.save}, pc' \in {"idle", "off"},
         result' = "ok" => pc' = "idle",
         errors' \in Nat
  PROVE  Ordered'
<1>1. TypeOK /\ Shape /\ Saving /\ \A i \in Slots : slot[i].seq \in Nat
  BY DEF Inv1, TypeOK, Slot, Saving
<1>2. /\ target \in Slots /\ image \in Slot /\ slot \in [Slots -> Slot]
      /\ slot[target] = [image EXCEPT !.whole = TRUE]
  BY <1>1 DEF TypeOK, Shape
<1>3. /\ image.seq \in Nat /\ next_seq = image.seq + 1 /\ image.save = saves
      /\ \A i \in Slots : Valid(slot[i]) => slot[i].seq < image.seq
      /\ image.regions \cap ended = {} /\ saves \in Nat
      /\ committed \in SUBSET (1 .. saves)
  BY <1>1, <1>2 DEF TypeOK, Slot, Shape, Ordered
<1>4. /\ slot'[target].seq = image.seq /\ slot'[target].save = saves
      /\ slot'[target].regions = image.regions /\ Valid(slot'[target])
  BY <1>2, <1>3 DEF Slot, Valid
<1>5. \A i \in Slots : i # target => slot'[i] = slot[i]
  BY <1>2
<1>6. \A i \in Slots : Valid(slot'[i]) =>
        /\ i = target \/ slot'[i].seq < slot'[target].seq
        /\ slot'[i].seq < next_seq
  <2> SUFFICES ASSUME NEW i \in Slots, Valid(slot'[i])
               PROVE  /\ i = target \/ slot'[i].seq < slot'[target].seq
                      /\ slot'[i].seq < next_seq
    OBVIOUS
  <2>1. CASE i = target
    BY <1>3, <1>4, <2>1
  <2>2. CASE i # target
    BY <1>1, <1>3, <1>4, <1>5, <2>2
  <2> QED BY <2>1, <2>2
<1>7. PICK g \in Slots : g = target
  BY <1>2
<1>8. IsBest(g)' /\ \A b \in Slots : IsBest(b)' => b = g
  <2>1. IsBest(g)'
    BY <1>4, <1>6, <1>7 DEF IsBest
  <2>2. ASSUME NEW b \in Slots, IsBest(b)', b # g PROVE FALSE
    <3>1. slot'[b].seq < slot'[g].seq /\ slot'[g].seq < slot'[b].seq
      BY <2>1, <2>2 DEF IsBest
    <3>2. slot'[g].seq \in Nat /\ slot'[b].seq \in Nat
      BY <1>1, <1>3, <1>4, <1>5, <1>7, <2>2
    <3> QED BY <3>1, <3>2
  <2> QED BY <2>1, <2>2
<1>9. \A c \in committed' : c <= saves
  BY <1>3
<1>10. Allowed(slot'[g]) \cap ended' = {} /\ slot'[g].regions \cap ended' = {}
  BY <1>3, <1>4, <1>7 DEF Allowed, Kept
<1>11. ~Saving'
  BY DEF Saving
<1>12. /\ pc' = "idle" /\ seeded' => \A i \in Slots : Valid(slot'[i]) => slot'[i].seq < next_seq'
       /\ \E b \in Slots : IsBest(b)' /\ slot'[b].save = saves'
       /\ \A b \in Slots : IsBest(b)' => slot'[b].regions \cap ended' = {}
  BY <1>4, <1>6, <1>7, <1>8, <1>10 DEF Kept
<1>13. /\ \E i \in Slots : Valid(slot'[i])
       /\ \A b \in Slots : IsBest(b)' =>
            /\ \A c \in committed' : c <= slot'[b].save
            /\ next_seq' = slot'[b].seq + 1
            /\ Allowed(slot'[b]) \cap ended' \subseteq prev'
  BY <1>3, <1>4, <1>7, <1>8, <1>9, <1>10 DEF Kept
<1> QED BY <1>11, <1>12, <1>13 DEF Ordered

\* The writes of a save
LEMMA WriteOrdered ==
  ASSUME Inv1, Ordered, WriteHead \/ WriteBody \/ WriteCommit
  PROVE  Ordered'
<1>1. TypeOK /\ Shape /\ Saving
  BY DEF Inv1, WriteHead, WriteBody, WriteCommit, Saving
<1>2. target \in Slots /\ image \in Slot /\ slot \in [Slots -> Slot]
      /\ image.state = "pending"
  BY <1>1 DEF TypeOK, Shape
<1>3. CASE WriteHead
  <2>1. \/ slot' = slot
        \/ \A i \in Slots : slot'[i] = slot[i] \/ (i = target /\ ~Valid(slot'[i]))
    BY <1>1, <1>2, <1>3, WriteCases DEF Valid
  <2>2. /\ Kept /\ committed' = committed /\ seeded' = seeded
        /\ Fails \/ Goes("body") \/ Goes("commit")
    BY <1>1, <1>3, WriteCases DEF Fails
  <2> QED BY <1>1, <2>1, <2>2, UncommittedOrdered
<1>4. CASE WriteBody
  <2>1. slot' \in {slot, [slot EXCEPT ![target].whole = TRUE]} /\ slot[target] = image
    BY <1>1, <1>4, WriteCases DEF Shape
  <2>2. \/ slot' = slot
        \/ \A i \in Slots : slot'[i] = slot[i] \/ (i = target /\ ~Valid(slot'[i]))
    BY <1>2, <2>1 DEF Valid, Slot
  <2>3. /\ Kept /\ committed' = committed /\ seeded' = seeded
        /\ Fails \/ Goes("body") \/ Goes("commit")
    BY <1>1, <1>4, WriteCases DEF Fails
  <2> QED BY <1>1, <2>2, <2>3, UncommittedOrdered
<1>5. CASE WriteCommit
  <2>1. pc = "commit" /\ Kept
    BY <1>1, <1>5, WriteCases
  <2>2. CASE slot' = slot /\ committed' = committed /\ Fails
    <3>1. seeded' = seeded
      BY <2>2 DEF Fails
    <3> QED BY <1>1, <2>1, <2>2, <3>1, UncommittedOrdered
  <2>3. CASE /\ slot' = [slot EXCEPT ![target].state = "committed"]
             /\ committed' = committed \cup {image.save}
             /\ \/ /\ pc' = "idle" /\ result' = "ok" /\ errors' = errors
                \/ Fails
    <3>1. pc' \in {"idle", "off"} /\ (result' = "ok" => pc' = "idle") /\ errors' \in Nat
      BY <1>1, <2>3 DEF Fails, TypeOK
    <3> QED BY <2>1, <2>3, <3>1, CommittedOrdered
  <2> QED BY <1>1, <1>5, <2>2, <2>3, WriteCases
<1> QED BY <1>3, <1>4, <1>5

\* Every step keeps the order
LEMMA StepOrdered == AllReadable /\ Inv1 /\ Inv1' /\ Ordered /\ [Next]_vars => Ordered'
<1> SUFFICES ASSUME AllReadable, Inv1, Inv1', Ordered, [Next]_vars PROVE Ordered'
  OBVIOUS
<1>1. CASE UNCHANGED vars
  BY <1>1 DEF vars, tracking, tasks, bounds, history, Ordered, Saving, IsBest
<1>2. ASSUME NEW bad \in SUBSET Slots, Load(bad) \/ BootLoad(bad) PROVE Ordered'
  <2>1. ended' \cap running' = {} /\ pc' = "idle" /\ result' = "none"
    BY <1>2 DEF Load, BootLoad
  <2> QED BY <1>2, <2>1, LoadOrdered DEF Load, BootLoad
<1> QED
  BY <1>1, <1>2, TaskOrdered, PowerOrdered, SaveBeginOrdered, WriteOrdered DEF Next

\* The order holds in every behaviour
LEMMA AlwaysOrdered == ASSUME AllReadable PROVE Spec => [](Inv1 /\ Ordered)
<1>1. Init => Ordered
  BY InitOrdered
<1>2. Inv1 /\ Inv1' /\ Ordered /\ [Next]_vars => Ordered'
  BY StepOrdered
<1> QED BY <1>1, <1>2, AlwaysInv1, PTL DEF Spec

\* The slot that ckpt_sd_find_best_slot selects is the right one: wherever power is
\* lost in a save it holds the newest committed checkpoint, and after a save that
\* returned success it holds that save, whatever failed before.
THEOREM BestSlotIsRight == ASSUME AllReadable PROVE Spec => []BestIsRight
<1>1. Inv1 /\ Ordered => BestIsRight
  <2> SUFFICES ASSUME Inv1, Ordered PROVE BestIsRight
    OBVIOUS
  <2>1. TypeOK /\ Shape
    BY DEF Inv1
  <2>2. SavedIsBest
    BY <2>1, BestUnique DEF SavedIsBest, Ordered
  <2>3. ASSUME errors = 0, committed # {}
        PROVE  Found({}) # {} /\ slot[Best(Found({}))].save = Newest
    <3>1. \E i \in Slots : Valid(slot[i])
      BY <2>3 DEF Ordered
    <3>2. PICK b \in Slots : IsBest(b)
      BY <2>1, <3>1, BestUnique
    <3>3. Found({}) # {} /\ Best(Found({})) = b
      BY <2>1, <3>2, BestUnique
    <3>4. slot[b].save \in committed /\ \A c \in committed : c <= slot[b].save
      BY <2>1, <2>3, <3>2 DEF Ordered, Shape, IsBest
    <3>5. Newest \in committed /\ \A c \in committed : c <= Newest
      BY <3>4 DEF Newest
    <3>6. \A c \in committed : c \in Nat
      BY <2>1 DEF Shape
    <3>7. Newest = slot[b].save
      BY <3>4, <3>5, <3>6
    <3> QED BY <3>3, <3>7
  <2> QED BY <2>1, <2>2, <2>3 DEF BestIsRight, BestIsNewestDespiteCrashes, BestIsNewest
<1> QED BY <1>1, AlwaysOrdered, PTL

\* Completed work is not resurrected: after a save that succeeded or found nothing
\* to save, no task that has ended comes back with a restore, wherever power was
\* lost before (docs/architecure_v2.md: "so restore does not resurrect completed
\* work").
THEOREM EndedStaysEnded == ASSUME AllReadable PROVE Spec => []NoResurrectionDespiteCrashes
<1>1. Inv1 /\ Ordered => NoResurrectionDespiteCrashes
  <2> SUFFICES ASSUME Inv1, Ordered, errors = 0, result \in {"ok", "skipped"}, Found({}) # {}
               PROVE  Allowed(slot[Best(Found({}))]) \cap ended = {}
    BY DEF NoResurrectionDespiteCrashes, NoResurrection
  <2>1. TypeOK /\ Shape /\ pc = "idle"
    BY DEF Inv1, Shape
  <2>2. PICK b \in Slots : IsBest(b) /\ b = Best(Found({}))
    BY <2>1, BestUnique
  <2>3. CASE result = "ok"
    <3>1. slot[b].regions \cap ended = {}
      BY <2>2, <2>3 DEF Ordered
    <3> QED BY <2>2, <3>1 DEF Allowed
  <2>4. CASE result = "skipped"
    <3>1. prev = running /\ ended \cap running = {}
      BY <2>1, <2>4 DEF Shape
    <3>2. Allowed(slot[b]) \cap ended \subseteq prev
      BY <2>1, <2>2 DEF Ordered
    <3> QED BY <2>2, <3>1, <3>2
  <2> QED BY <2>3, <2>4
<1> QED BY <1>1, AlwaysOrdered, PTL
=============================================================================
