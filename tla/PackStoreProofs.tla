---------------------------- MODULE PackStoreProofs ----------------------------
(***************************************************************************)
(* Proofs about PackStore, for every object directory, sound or not, every *)
(* bound of the caches and every limit on delta chains: the store never    *)
(* caches or answers anything but the object asked for, its call stack and *)
(* its caches are bounded, and what can be read is found while files come  *)
(* and go.                                                                 *)
(***************************************************************************)
EXTENDS PackStore, FiniteSetFacts, SequenceTheorems, TLAPS

(* The part of the invariant that speaks of the calls. *)
CallsInv ==
  /\ stack \in Seq(Frame) /\ ret \in Contents \cup {None}
  /\ ask \in Request \cup {None}
  /\ CallsLinked /\ DepthInv

(* The part that speaks of what is cached. *)
CachesInv ==
  /\ objects \in Cache(Ids) /\ offsets \in Cache(Slots) /\ trees \in Cache(Ids)
  /\ commits \in [Ids -> Contents \cup {None}]
  /\ \A i \in Ids : {objects.held[i], trees.held[i], commits[i]} \subseteq {None, i}
  /\ \A s \in Slots : offsets.held[s] \in {None, ContentOf(s)}

-----------------------------------------------------------------------------
(* What slots hold: full objects and deltas are objects, and a delta's     *)
(* base is the object it was made against.                                 *)
LEMMA SlotFacts ==
  ASSUME repo \in Repositories, NEW s \in Slots
  PROVE  /\ s[1] \in Packs
         /\ repo.slots[s].form = "full" => repo.slots[s].object \in Ids
         /\ IsDelta(s) => /\ repo.slots[s].object \in Ids
                          /\ BaseKey(s) \in Ids \cup Slots
                          /\ MadeAgainst(s) = ContentOf(BaseKey(s))
<1>1. s[1] \in Packs /\ s[2] \in Offsets
  BY DEF Slots
<1>2. repo.slots[s].form # "broken" => repo.slots[s].object \in Ids
  BY PackAssumption DEF PackAssumption
<1>3. ASSUME repo.slots[s].form = "offset"
      PROVE  BaseKey(s) \in Slots /\ MadeAgainst(s) = ContentOf(BaseKey(s))
  <2>1. repo.slots[s].base \in Offsets
    BY <1>3, PackAssumption DEF PackAssumption
  <2>2. BaseKey(s) = <<s[1], repo.slots[s].base>>
    BY <1>3 DEF BaseKey
  <2>3. BaseKey(s) \in Slots
    BY <1>1, <2>1, <2>2 DEF Slots
  <2> QED BY <1>3, <2>2, <2>3 DEF MadeAgainst, ContentOf
<1>4. ASSUME repo.slots[s].form = "id"
      PROVE  BaseKey(s) \in Ids /\ MadeAgainst(s) = ContentOf(BaseKey(s))
  <2>1. repo.slots[s].base \in Ids
    BY <1>4, PackAssumption DEF PackAssumption
  <2>2. BaseKey(s) = repo.slots[s].base /\ MadeAgainst(s) = repo.slots[s].base
    BY <1>4 DEF BaseKey, MadeAgainst
  <2> QED BY <2>1, <2>2, ContentAssumption DEF ContentAssumption, ContentOf
<1> QED BY <1>1, <1>2, <1>3, <1>4 DEF IsDelta

(* Inserting the right content under a key keeps a cache right: every key  *)
(* still has what it had, nothing, or the content inserted.                *)
LEMMA InsertFacts ==
  ASSUME NEW Keys, NEW cache \in Cache(Keys), NEW key \in Keys, NEW content \in Contents,
         NEW maxEntries, NEW maxBytes
  PROVE  LET new == Insert(cache, key, content, maxEntries, maxBytes)
         IN  /\ new \in Cache(Keys)
             /\ new.held[key] = content
             /\ \A k \in Keys \ {key} : new.held[k] \in {cache.held[k], None}
<1> DEFINE kept == IF CacheNeedsReset(cache, Size[content], maxEntries, maxBytes)
                   THEN EmptyCache(DOMAIN cache.held) ELSE cache
<1>1. DOMAIN cache.held = Keys /\ Size[content] \in Nat
  BY ContentAssumption DEF ContentAssumption, Cache
<1>2. EmptyCache(Keys) \in Cache(Keys) /\ \A k \in Keys : EmptyCache(Keys).held[k] = None
  BY DEF EmptyCache, Cache
<1>3. kept \in Cache(Keys) /\ \A k \in Keys : kept.held[k] \in {cache.held[k], None}
  BY <1>1, <1>2
<1> HIDE DEF kept
<1>4. /\ [held |-> [kept.held EXCEPT ![key] = content], bytes |-> kept.bytes + Size[content]]
           \in Cache(Keys)
      /\ [kept.held EXCEPT ![key] = content][key] = content
      /\ \A k \in Keys \ {key} : [kept.held EXCEPT ![key] = content][k] = kept.held[k]
  BY <1>1, <1>3 DEF Cache
<1> QED BY <1>3, <1>4 DEF Insert, kept

(* What a frame waits for depends on nothing that changes but the frame. *)
LEMMA AwaitsUnchanged ==
  ASSUME repo' = repo, NEW i, Awaits(stack'[i], stack'[i + 1].key)
  PROVE  Awaits(stack[i], stack[i + 1].key)'
BY DEF Awaits, IsPackOffset, InFirstIndex, IsDelta, BaseKey

(* What the index answers, and what a frame waits for, is the same however *)
(* often one looks.                                                        *)
LEMMA LookupsUnchanged ==
  ASSUME repo' = repo
  PROVE  /\ \A id, slot : IsPackOffset(id, slot)' <=> IsPackOffset(id, slot)
         /\ \A frame, key : Awaits(frame, key)' <=> Awaits(frame, key)
         /\ \A key : ContentOf(key)' = ContentOf(key)
<1>1. \A id : InFirstIndex(id)' = InFirstIndex(id)
  BY DEF InFirstIndex
<1>2. \A id, slot : IsPackOffset(id, slot)' <=> IsPackOffset(id, slot)
  BY <1>1 DEF IsPackOffset
<1>3. \A frame, key : Awaits(frame, key)' <=> Awaits(frame, key)
  BY <1>2 DEF Awaits, IsDelta, BaseKey
<1> QED BY <1>2, <1>3 DEF ContentOf

(* The calls are what they were as long as nothing about them changes.     *)
LEMMA CallsUnchanged ==
  ASSUME CallsInv, UNCHANGED <<stack, ret, ask, answer, repo>>
  PROVE  CallsInv'
<1>1. /\ \A frame, key : Awaits(frame, key)' <=> Awaits(frame, key)
      /\ \A key : ContentOf(key)' = ContentOf(key)
  BY LookupsUnchanged
<1>2. (\E key \in Ids \cup Slots : Awaits(Top, key) /\ ret = ContentOf(key))
         => (\E key \in Ids \cup Slots : Awaits(Top, key) /\ ret = ContentOf(key))'
  <2>1. Top' = Top
    BY DEF Top
  <2> QED BY <1>1, <2>1
<1>3. CallsLinked'
  BY <1>1, <1>2 DEF CallsInv, CallsLinked, Top
<1> QED BY <1>3 DEF CallsInv, DepthInv

-----------------------------------------------------------------------------
(* The three ways a call goes on keep what is said of the calls.           *)
LEMMA GoToKeeps ==
  ASSUME CallsInv, stack # <<>>, ret = None, NEW step \in Steps \ Waiting,
         step \in ForId => Top.step \in ForId,
         step \in ForSlot => Top.step \in ForSlot,
         GoTo(step), UNCHANGED <<ask, repo>>
  PROVE  CallsInv'
<1> DEFINE n == Len(stack)
<1>1. n \in Nat \ {0} /\ stack \in Seq(Frame) /\ stack[n] \in Frame
  BY DEF CallsInv
<1> DEFINE new == [stack[n] EXCEPT !.step = step]
<1>2. new \in Frame /\ new.key = stack[n].key /\ new.depth = stack[n].depth /\ new.step = step
  BY <1>1 DEF Frame
<1>3. stack' = [stack EXCEPT ![n] = new] /\ ret' = None /\ answer' = answer /\ ask' = ask
  BY DEF GoTo
<1> HIDE DEF new
<1>4. /\ stack' \in Seq(Frame) /\ Len(stack') = n
      /\ \A j \in 1..n : stack'[j] = IF j = n THEN new ELSE stack[j]
  BY <1>1, <1>2, <1>3, ExceptSeq
<1>5. DOMAIN stack = 1..n /\ DOMAIN stack' = 1..n
  BY <1>1, <1>4
<1>6. DepthInv'
  BY <1>2, <1>4, <1>5 DEF CallsInv, DepthInv
<1>7. CallsLinked'
  <2> USE DEF CallsInv, CallsLinked
  <2>1. \A i \in 1..n : /\ stack'[i].key = stack[i].key
                        /\ i < n => stack'[i] = stack[i]
    BY <1>2, <1>4
  <2>2. \A i \in DOMAIN stack' :
          /\ stack'[i].step \in ForId => stack'[i].key \in Ids
          /\ stack'[i].step \in ForSlot => stack'[i].key \in Slots
    BY <1>1, <1>2, <1>4, <1>5 DEF Top, Slots
  <2>3. \A i \in DOMAIN stack' : i < Len(stack') => Awaits(stack[i], stack[i + 1].key)'
    <3>1. \A i \in 1..n : i < n => Awaits(stack'[i], stack'[i + 1].key)
      BY <1>1, <1>5, <2>1
    <3> QED BY <1>4, <1>5, <3>1, AwaitsUnchanged
  <2>4. stack' # <<>> => ask' # None /\ answer' = None /\ stack'[1].key = ask'.id
    BY <1>1, <1>3, <2>1
  <2>5. Top'.step \notin Waiting
    BY <1>1, <1>2, <1>4 DEF Top
  <2>6. stack' # <<>> /\ ret' = None
    BY <1>1, <1>3, <1>4
  <2> QED BY <2>2, <2>3, <2>4, <2>5, <2>6
<1> QED BY <1>3, <1>4, <1>6, <1>7 DEF CallsInv

LEMMA CallFacts ==
  ASSUME NEW key \in Ids \cup Slots, NEW depth \in 0..MaxDeltaDepth
  PROVE  /\ Call(key, depth) \in Frame
         /\ Call(key, depth).key = key /\ Call(key, depth).depth = depth
         /\ Call(key, depth).step \notin Waiting
         /\ Call(key, depth).step \in ForId => key \in Ids
         /\ Call(key, depth).step \in ForSlot => key \in Slots
BY DEF Call, Frame, Steps, Waiting, ForId, ForSlot

(* A new call is deeper by one delta when it is for the base of one, and   *)
(* for a slot when it is for that of an id.                                *)
LEMMA AwaitKeeps ==
  ASSUME CallsInv, stack # <<>>, ret = None, NEW step \in Waiting,
         NEW key \in Ids \cup Slots, NEW depth \in 0..MaxDeltaDepth,
         \/ step = "packed" /\ Top.step \in ForId /\ key \in Slots
              /\ IsPackOffset(Top.key, key) /\ depth = Top.depth
         \/ step = "base" /\ Top.step \in ForSlot /\ IsDelta(Top.key)
              /\ key = BaseKey(Top.key) /\ depth = Top.depth + 1,
         Await(step, key, depth), UNCHANGED <<ask, repo, ret>>
  PROVE  CallsInv'
<1> DEFINE n == Len(stack)
           call == Call(key, depth)
<1>0. n \in Nat /\ n >= 1
  BY DEF CallsInv
<1>1. n \in Nat \ {0} /\ stack \in Seq(Frame) /\ stack[n] \in Frame
  BY DEF CallsInv
<1>2. step \in Steps
  BY DEF Waiting, Steps
<1> DEFINE new == [stack[n] EXCEPT !.step = step]
<1>3. new \in Frame /\ new.key = stack[n].key /\ new.depth = stack[n].depth /\ new.step = step
  BY <1>1, <1>2 DEF Frame
<1>4. stack' = Append([stack EXCEPT ![n] = new], call) /\ ret' = None /\ answer' = answer
  BY DEF Await
<1>5. /\ call \in Frame /\ call.key = key /\ call.depth = depth /\ call.step \notin Waiting
      /\ call.step \in ForId => key \in Ids
      /\ call.step \in ForSlot => key \in Slots
  BY CallFacts
<1> DEFINE waiting == [stack EXCEPT ![n] = new]
<1> HIDE DEF new, call
<1>6. /\ waiting \in Seq(Frame) /\ Len(waiting) = n
      /\ \A j \in 1..n : waiting[j] = IF j = n THEN new ELSE stack[j]
  BY <1>1, <1>3, ExceptSeq
<1> HIDE DEF waiting
<1>7. /\ stack' \in Seq(Frame) /\ Len(stack') = n + 1
      /\ \A j \in 1..n : stack'[j] = IF j = n THEN new ELSE stack[j]
      /\ stack'[n + 1] = call
  <2>1. stack' = Append(waiting, call)
    BY <1>4 DEF waiting
  <2> QED BY <1>5, <1>6, <2>1, AppendProperties
<1>8. DOMAIN stack = 1..n /\ DOMAIN stack' = 1..(n + 1)
  BY <1>1, <1>7
<1>9. DepthInv'
  <2>1. \A i \in 1..n : i <= 2 * stack'[i].depth + (IF stack'[i].key \in Slots THEN 2 ELSE 1)
    BY <1>3, <1>7, <1>8 DEF CallsInv, DepthInv
  <2>2. stack[n].depth \in Nat /\ n <= 2 * stack[n].depth + (IF stack[n].key \in Slots THEN 2 ELSE 1)
    <3>1. stack[n].depth \in Nat
      BY <1>1, BoundsAssumption DEF Frame, BoundsAssumption
    <3>2. n \in DOMAIN stack
      BY <1>1, <1>8
    <3> QED BY <3>1, <3>2 DEF CallsInv, DepthInv
  <2>3. ASSUME step = "packed"
        PROVE  n + 1 <= 2 * call.depth + (IF call.key \in Slots THEN 2 ELSE 1)
    <3>1. stack[n].key \in Ids /\ key \in Slots /\ depth = stack[n].depth
      BY <1>1, <1>8, <2>3 DEF CallsInv, CallsLinked, Top
    <3>2. stack[n].key \notin Slots
      BY <3>1, ContentAssumption DEF ContentAssumption
    <3>3. n + 1 <= 2 * depth + 2
      BY <1>1, <2>2, <3>1, <3>2
    <3> QED BY <1>5, <3>1, <3>3
  <2>4. ASSUME step = "base"
        PROVE  n + 1 <= 2 * call.depth + (IF call.key \in Slots THEN 2 ELSE 1)
    <3>1. depth = stack[n].depth + 1
      BY <2>4 DEF Top
    <3>2. n + 1 <= 2 * depth + 1
      BY <1>1, <2>2, <3>1
    <3>3. n + 1 <= 2 * depth + (IF key \in Slots THEN 2 ELSE 1)
      BY <1>1, <3>2
    <3> QED BY <1>5, <3>3
  <2>5. \A i \in 1..(n + 1) : i <= 2 * stack'[i].depth + (IF stack'[i].key \in Slots THEN 2 ELSE 1)
    <3>1. \A i \in 1..(n + 1) : i \in 1..n \/ i = n + 1
      BY <1>1
    <3>2. step = "packed" \/ step = "base"
      BY DEF Waiting
    <3> QED BY <1>7, <2>1, <2>3, <2>4, <3>1, <3>2
  <2> QED BY <1>8, <2>5 DEF DepthInv
<1>10. CallsLinked'
  <2>a. /\ \A i \in 1..n :
             /\ stack[i].step \in ForId => stack[i].key \in Ids
             /\ stack[i].step \in ForSlot => stack[i].key \in Slots
             /\ i < n => Awaits(stack[i], stack[i + 1].key)
        /\ ask # None /\ answer = None /\ stack[1].key = ask.id
    BY <1>8 DEF CallsInv, CallsLinked
  <2>1. \A i \in 1..n : /\ stack'[i].key = stack[i].key
                        /\ i < n => stack'[i] = stack[i]
    BY <1>3, <1>7
  <2>2. step \in ForId => Top.step \in ForId
    BY DEF ForId, ForSlot
  <2>3. step \in ForSlot => Top.step \in ForSlot
    BY DEF ForId, ForSlot
  <2>4. \A i \in DOMAIN stack' :
          /\ stack'[i].step \in ForId => stack'[i].key \in Ids
          /\ stack'[i].step \in ForSlot => stack'[i].key \in Slots
    <3>1. \A i \in 1..n : i = n \/ stack'[i] = stack[i]
      BY <1>1, <1>7
    <3>2. /\ stack'[n].step \in ForId => stack'[n].key \in Ids
          /\ stack'[n].step \in ForSlot => stack'[n].key \in Slots
      <4>1. stack'[n] = new
        BY <1>0, <1>7
      <4>2. /\ stack[n].step \in ForId => stack[n].key \in Ids
            /\ stack[n].step \in ForSlot => stack[n].key \in Slots
        BY <1>0, <2>a
      <4> QED BY <1>3, <2>2, <2>3, <4>1, <4>2 DEF Top
    <3>3. \A i \in 1..(n + 1) : i \in 1..n \/ i = n + 1
      BY <1>1
    <3>4. \A i \in 1..(n + 1) :
            /\ stack'[i].step \in ForId => stack'[i].key \in Ids
            /\ stack'[i].step \in ForSlot => stack'[i].key \in Slots
      BY <1>5, <1>7, <2>a, <3>1, <3>2, <3>3
    <3> QED BY <1>8, <3>4
  <2>5. Awaits(new, key)
    BY <1>3 DEF Awaits, Top
  <2>6. \A i \in DOMAIN stack' : i < Len(stack') => Awaits(stack[i], stack[i + 1].key)'
    <3>1. ASSUME NEW i \in 1..n
          PROVE  Awaits(stack'[i], stack'[i + 1].key)
      <4>1. CASE i = n
        BY <1>1, <1>5, <1>7, <2>5, <4>1
      <4>2. CASE i < n
        <5>1. i + 1 \in 1..n /\ stack'[i] = stack[i] /\ stack'[i + 1].key = stack[i + 1].key
          BY <1>1, <2>1, <4>2
        <5> QED BY <1>0, <2>a, <4>2, <5>1
      <4> QED BY <1>1, <4>1, <4>2
    <3>2. \A i \in 1..(n + 1) : i < n + 1 => i \in 1..n
      BY <1>1
    <3> QED BY <1>7, <1>8, <3>1, <3>2, AwaitsUnchanged
  <2>7. stack' # <<>> => ask' # None /\ answer' = None /\ stack'[1].key = ask'.id
    BY <1>1, <1>4, <2>1, <2>a
  <2>8. Top'.step \notin Waiting
    BY <1>1, <1>5, <1>7 DEF Top
  <2>9. stack' # <<>> /\ ret' = None
    BY <1>1, <1>4, <1>7
  <2> QED BY <2>4, <2>6, <2>7, <2>8, <2>9 DEF CallsLinked
<1> QED BY <1>4, <1>7, <1>9, <1>10 DEF CallsInv

(* A call that returns the content of its key hands it to the caller that  *)
(* waits for it, or to the request.                                        *)
LEMMA ReturnKeeps ==
  ASSUME CallsInv, stack # <<>>, NEW content \in Contents, content = ContentOf(Top.key),
         Return(content), UNCHANGED <<ask, repo>>
  PROVE  CallsInv'
<1> DEFINE n == Len(stack)
<1>0. n \in Nat /\ n >= 1
  BY DEF CallsInv
<1>1. n \in Nat \ {0} /\ stack \in Seq(Frame) /\ DOMAIN stack = 1..n
  BY DEF CallsInv
<1>a. stack[n] \in Frame
  BY <1>1
<1>2. stack' = SubSeq(stack, 1, n - 1) /\ ret' = content /\ answer' = answer
  BY DEF Return
<1>3. \A i \in 1..(n - 1) : stack[i] \in Frame
  BY <1>1
<1>4. /\ stack' \in Seq(Frame) /\ Len(stack') = n - 1
      /\ \A i \in 1..(n - 1) : stack'[i] = stack[i]
  BY <1>1, <1>2, <1>3, SubSeqProperties
<1>5. DOMAIN stack' = 1..(n - 1)
  BY <1>1, <1>4
<1>6. DepthInv'
  BY <1>1, <1>4, <1>5 DEF CallsInv, DepthInv
<1>7. content # None
  BY ContentAssumption DEF ContentAssumption
<1>8. CallsLinked'
  <2>a. /\ \A i \in 1..n :
             /\ stack[i].step \in ForId => stack[i].key \in Ids
             /\ stack[i].step \in ForSlot => stack[i].key \in Slots
             /\ i < n => Awaits(stack[i], stack[i + 1].key)
        /\ ask # None /\ answer = None /\ stack[1].key = ask.id
    BY <1>1 DEF CallsInv, CallsLinked
  <2>1. \A i \in DOMAIN stack' :
          /\ stack'[i].step \in ForId => stack'[i].key \in Ids
          /\ stack'[i].step \in ForSlot => stack'[i].key \in Slots
    BY <1>0, <1>4, <1>5, <2>a
  <2>2. \A i \in DOMAIN stack' : i < Len(stack') => Awaits(stack[i], stack[i + 1].key)'
    <3>1. \A i \in 1..(n - 1) : i < n - 1 => Awaits(stack'[i], stack'[i + 1].key)
      BY <1>0, <1>4, <2>a
    <3> QED BY <1>4, <1>5, <3>1, AwaitsUnchanged
  <2>3. stack' # <<>> => ask' # None /\ answer' = None /\ stack'[1].key = ask'.id
    BY <1>1, <1>2, <1>4, <2>a
  <2>4. Top.key \in Ids \cup Slots
    <3>1. stack[n].key \in Ids \cup Slots
      BY <1>a DEF Frame
    <3> QED BY <3>1 DEF Top
  <2>5. ASSUME stack' # <<>>
        PROVE  (\E key \in Ids \cup Slots : Awaits(Top, key) /\ ret = ContentOf(key))'
    <3>1. n - 1 \in 1..n /\ n - 1 < n /\ Top' = stack[n - 1] /\ Top = stack[(n - 1) + 1]
      BY <1>1, <1>4, <2>5 DEF Top
    <3>2. Awaits(Top', Top.key)
      BY <1>0, <2>a, <3>1
    <3> QED BY <1>2, <2>4, <3>2 DEF Awaits, IsPackOffset, InFirstIndex, IsDelta, BaseKey, ContentOf
  <2>6. ASSUME stack' = <<>>
        PROVE  ask' # None /\ answer' = None /\ ret' = ask'.id
    <3>1. Len(stack') = 0
      BY <2>6
    <3>2. n = 1
      <4>1. n - 1 = 0
        BY <1>4, <3>1
      <4> QED BY <1>0, <4>1
    <3>3. Top.key = ask.id /\ ask # None
      BY <2>a, <3>2 DEF Top
    <3>4. ask.id \in Ids /\ ask.id \notin Slots
      BY <3>3, ContentAssumption DEF CallsInv, ContentAssumption, Request
    <3> QED BY <1>2, <2>a, <3>3, <3>4 DEF ContentOf
  <2> QED BY <1>2, <1>7, <2>1, <2>2, <2>3, <2>5, <2>6 DEF CallsLinked
<1>9. ret' \in Contents \cup {None} /\ ask' = ask
  BY <1>2
<1> QED BY <1>4, <1>6, <1>8, <1>9 DEF CallsInv

-----------------------------------------------------------------------------
(* What is said of the caches survives putting into one of them the object *)
(* under its own name.                                                     *)
LEMMA CacheObjectKeeps ==
  ASSUME CachesInv, NEW id \in Ids, CacheObject(id, id),
         UNCHANGED <<offsets, trees, commits, repo>>
  PROVE  CachesInv'
<1>1. /\ objects' \in Cache(Ids) /\ objects'.held[id] = id
      /\ \A i \in Ids \ {id} : objects'.held[i] \in {objects.held[i], None}
  BY InsertFacts DEF CachesInv, CacheObject, Contents
<1> QED BY <1>1 DEF CachesInv, ContentOf

LEMMA CacheOffsetKeeps ==
  ASSUME CachesInv, NEW slot \in Slots, NEW content \in Contents, content = ContentOf(slot),
         CacheOffset(slot, content), UNCHANGED <<objects, trees, commits, repo>>
  PROVE  CachesInv'
<1>1. /\ offsets' \in Cache(Slots) /\ offsets'.held[slot] = content
      /\ \A s \in Slots \ {slot} : offsets'.held[s] \in {offsets.held[s], None}
  BY InsertFacts DEF CachesInv, CacheOffset
<1> QED BY <1>1 DEF CachesInv, ContentOf

LEMMA CacheTreeKeeps ==
  ASSUME CachesInv, NEW id \in Ids, CacheTree(id, id),
         UNCHANGED <<objects, offsets, commits, repo>>
  PROVE  CachesInv'
<1>1. /\ trees' \in Cache(Ids) /\ trees'.held[id] = id
      /\ \A i \in Ids \ {id} : trees'.held[i] \in {trees.held[i], None}
  BY InsertFacts DEF CachesInv, CacheTree, Contents
<1> QED BY <1>1 DEF CachesInv, ContentOf

LEMMA CacheCommitKeeps ==
  ASSUME CachesInv, NEW id \in Ids, CacheCommit(id, id),
         UNCHANGED <<objects, offsets, trees, repo>>
  PROVE  CachesInv'
<1>1. /\ commits' \in [Ids -> Contents \cup {None}] /\ commits'[id] = id
      /\ \A i \in Ids \ {id} : commits'[i] \in {commits[i], None}
  BY DEF CachesInv, CacheCommit, Contents
<1> QED BY <1>1 DEF CachesInv, ContentOf

-----------------------------------------------------------------------------
(* The part of the invariant that speaks of everything else. *)
OthersInv ==
  /\ repo \in Repositories
  /\ loose \subseteq Ids /\ present \subseteq Packs /\ mapped \subseteq Packs
  /\ answer \in Contents \cup {None, Failed, NotTree}
  /\ due \in BOOLEAN /\ asked \in 0..MaxAsks /\ changes \in 0..MaxChanges
  /\ ask # None => answer \in {None, Failed, NotTree, ask.id}

LEMMA Parts == IInv <=> CallsInv /\ CachesInv /\ OthersInv
BY DEF IInv, TypeOK, RightContent, CallsInv, CachesInv, OthersInv

LEMMA FailKeeps ==
  ASSUME CallsInv, CachesInv, OthersInv, Fail, UNCHANGED <<repo, disk, request>>
  PROVE  CallsInv' /\ CachesInv' /\ OthersInv'
<1>1. /\ stack' = <<>> /\ ret' = None /\ answer' = Failed
      /\ UNCHANGED <<mapped, objects, offsets, trees, commits>>
  BY DEF Fail, caches
<1>2. UNCHANGED <<repo, loose, present, changes, ask, due, asked>>
  BY DEF disk, request
<1>3. CallsLinked' /\ DepthInv'
  BY <1>1 DEF CallsLinked, DepthInv
<1>4. CallsInv'
  BY <1>1, <1>2, <1>3 DEF CallsInv
<1> QED BY <1>1, <1>2, <1>4 DEF CachesInv, OthersInv, ContentOf

(* The call on top is for an id or for a slot, as its step says.           *)
LEMMA TopFacts ==
  ASSUME CallsInv, stack # <<>>
  PROVE  /\ Top \in Frame /\ Top.depth \in 0..MaxDeltaDepth
         /\ Top.step \in ForId => Top.key \in Ids
         /\ Top.step \in ForSlot => Top.key \in Slots
<1>1. Len(stack) \in Nat /\ Len(stack) >= 1 /\ DOMAIN stack = 1..Len(stack)
  BY DEF CallsInv
<1>2. stack[Len(stack)] \in Frame
  BY <1>1 DEF CallsInv
<1> QED BY <1>1, <1>2 DEF CallsInv, CallsLinked, Top, Frame

(* The content of an id is the id. *)
LEMMA ContentOfId == \A id \in Ids : ContentOf(id) = id /\ id \in Contents /\ id # None
BY ContentAssumption DEF ContentAssumption, ContentOf, Contents

-----------------------------------------------------------------------------
(* The invariant holds at the beginning. *)
LEMMA InitInv == Init => IInv
<1> SUFFICES ASSUME Init PROVE CallsInv /\ CachesInv /\ OthersInv
  BY Parts
<1>1. CallsInv
  BY DEF Init, CallsInv, CallsLinked, DepthInv
<1>2. /\ EmptyCache(Ids) \in Cache(Ids) /\ \A i \in Ids : EmptyCache(Ids).held[i] = None
      /\ EmptyCache(Slots) \in Cache(Slots) /\ \A s \in Slots : EmptyCache(Slots).held[s] = None
  BY DEF EmptyCache, Cache
<1>3. CachesInv
  BY <1>2 DEF Init, CachesInv
<1>4. repo.loose \subseteq Ids
  BY PackAssumption DEF PackAssumption, Init, Repository
<1>5. OthersInv
  <2>1. 0 \in 0..MaxAsks /\ 0 \in 0..MaxChanges
    BY BoundsAssumption DEF BoundsAssumption
  <2>2. /\ repo \in Repositories /\ loose = repo.loose /\ present = Packs /\ mapped = {}
        /\ ask = None /\ answer = None /\ due = FALSE /\ asked = 0 /\ changes = 0
    BY DEF Init
  <2> QED BY <1>4, <2>1, <2>2 DEF OthersInv
<1> QED BY <1>1, <1>3, <1>5

(* Every step of a read keeps it.                                          *)
LEMMA ReadKeeps ==
  ASSUME CallsInv, CachesInv, OthersInv, Read
  PROVE  CallsInv' /\ CachesInv' /\ OthersInv'
<1>1. /\ UNCHANGED <<repo, disk, request>>
      /\ UNCHANGED <<repo, loose, present, changes, ask, due, asked>>
  BY DEF Read, disk, request
<1>2. repo \in Repositories
  BY DEF OthersInv
<1>3. ASSUME CachesInv', mapped' \subseteq Packs, answer' = answer
      PROVE  CachesInv' /\ OthersInv'
  BY <1>1, <1>3 DEF OthersInv
<1>4. ASSUME UNCHANGED caches
      PROVE  CachesInv'
  BY <1>1, <1>4 DEF CachesInv, caches, ContentOf
<1>5. CASE HitObject
  <2>1. /\ stack # <<>> /\ ret = None /\ Top.step = "object" /\ objects.held[Top.key] # None
        /\ Return(objects.held[Top.key]) /\ mapped' = mapped /\ UNCHANGED caches
    BY <1>5 DEF HitObject, At
  <2>2. Top.key \in Ids
    BY <2>1, TopFacts DEF ForId
  <2>3. objects.held[Top.key] = Top.key /\ ContentOf(Top.key) = Top.key /\ Top.key \in Contents
    BY <2>1, <2>2, ContentOfId DEF CachesInv
  <2>4. CallsInv'
    BY <1>1, <2>1, <2>3, ReturnKeeps
  <2> QED BY <1>3, <1>4, <2>1, <2>4 DEF Return, OthersInv
<1>6. CASE LookForFile
  <2>1. /\ stack # <<>> /\ ret = None /\ Top.step = "object"
        /\ GoTo(IF IsLooseFile(Top.key) THEN "loose" ELSE "index")
        /\ mapped' = mapped /\ UNCHANGED caches
    BY <1>6 DEF LookForFile, At
  <2>2. CallsInv'
    BY <1>1, <2>1, GoToKeeps DEF Steps, Waiting, ForId, ForSlot
  <2> QED BY <1>3, <1>4, <2>1, <2>2 DEF GoTo, OthersInv
<1>7. CASE ReadLoose
  <2>1. /\ stack # <<>> /\ ret = None /\ Top.step = "loose"
        /\ CacheObject(Top.key, Top.key) /\ Return(Top.key)
        /\ UNCHANGED <<mapped, offsets, trees, commits>>
    BY <1>7 DEF ReadLoose, At
  <2>2. Top.key \in Ids
    BY <2>1, TopFacts DEF ForId
  <2>3. CallsInv'
    BY <1>1, <2>1, <2>2, ContentOfId, ReturnKeeps
  <2>4. CachesInv'
    BY <1>1, <2>1, <2>2, CacheObjectKeeps
  <2> QED BY <1>3, <2>1, <2>3, <2>4 DEF Return, OthersInv
<1>8. CASE LooseFails \/ NotFound \/ MapFails \/ ReadFails
  BY <1>1, <1>8, FailKeeps DEF LooseFails, NotFound, MapFails, ReadFails
<1>9. CASE GoToPack
  <2>1. /\ stack # <<>> /\ ret = None /\ Top.step = "index" /\ ret' = ret
        /\ mapped' = mapped /\ UNCHANGED caches
    BY <1>9 DEF GoToPack, At
  <2>2. PICK slot \in Slots : IsPackOffset(Top.key, slot) /\ Await("packed", slot, Top.depth)
    BY <1>9 DEF GoToPack
  <2>3. "packed" \in Waiting /\ Top.step \in ForId /\ Top.depth \in 0..MaxDeltaDepth
    BY <2>1, TopFacts DEF Waiting, ForId
  <2>4. CallsInv'
    BY <1>1, <2>1, <2>2, <2>3, AwaitKeeps
  <2> QED BY <1>3, <1>4, <2>1, <2>2, <2>4 DEF Await, OthersInv
<1>10. CASE TakePacked
  <2>1. /\ stack # <<>> /\ ret # None /\ Top.step = "packed"
        /\ CacheObject(Top.key, ret) /\ Return(ret)
        /\ UNCHANGED <<mapped, offsets, trees, commits>>
    BY <1>10 DEF TakePacked, BackIn
  <2>2. Top.key \in Ids
    BY <2>1, TopFacts DEF ForId
  <2>3. PICK key \in Ids \cup Slots : Awaits(Top, key) /\ ret = ContentOf(key)
    BY <2>1 DEF CallsInv, CallsLinked
  <2>4. ret = Top.key
    BY <2>1, <2>3 DEF Awaits, IsPackOffset, InFirstIndex, ContentOf
  <2>5. CallsInv'
    BY <1>1, <2>1, <2>2, <2>4, ContentOfId, ReturnKeeps
  <2>6. CachesInv'
    BY <1>1, <2>1, <2>2, <2>4, CacheObjectKeeps
  <2> QED BY <1>3, <2>1, <2>5, <2>6 DEF Return, OthersInv
<1>11. CASE HitOffset
  <2>1. /\ stack # <<>> /\ ret = None /\ Top.step = "offset" /\ offsets.held[Top.key] # None
        /\ Return(offsets.held[Top.key]) /\ mapped' = mapped /\ UNCHANGED caches
    BY <1>11 DEF HitOffset, At
  <2>2. Top.key \in Slots
    BY <2>1, TopFacts DEF ForSlot
  <2>3. offsets.held[Top.key] = ContentOf(Top.key) /\ offsets.held[Top.key] \in Contents
    BY <2>1, <2>2 DEF CachesInv, Cache
  <2>4. CallsInv'
    BY <1>1, <2>1, <2>3, ReturnKeeps
  <2> QED BY <1>3, <1>4, <2>1, <2>4 DEF Return, OthersInv
<1>12. CASE MapPack
  <2>1. /\ stack # <<>> /\ ret = None /\ Top.step = "offset"
        /\ mapped' = mapped \cup {Top.key[1]} /\ GoTo("read") /\ UNCHANGED caches
    BY <1>12 DEF MapPack, At
  <2>2. Top.key \in Slots
    BY <2>1, TopFacts DEF ForSlot
  <2>3. mapped' \subseteq Packs
    BY <1>2, <2>1, <2>2, SlotFacts DEF OthersInv
  <2>4. CallsInv'
    BY <1>1, <2>1, GoToKeeps DEF Steps, Waiting, ForId, ForSlot
  <2> QED BY <1>3, <1>4, <2>1, <2>3, <2>4 DEF GoTo
<1>13. CASE ReadFull
  <2> DEFINE content == repo.slots[Top.key].object
  <2>1. /\ stack # <<>> /\ ret = None /\ Top.step = "read" /\ repo.slots[Top.key].form = "full"
        /\ CacheOffset(Top.key, content) /\ Return(content)
        /\ UNCHANGED <<mapped, objects, trees, commits>>
    BY <1>13 DEF ReadFull, At
  <2>2. Top.key \in Slots
    BY <2>1, TopFacts DEF ForSlot
  <2>3. content \in Contents /\ content = ContentOf(Top.key)
    BY <1>2, <2>1, <2>2, SlotFacts, ContentOfId DEF ContentOf
  <2> HIDE DEF content
  <2>4. CallsInv'
    BY <1>1, <2>1, <2>3, ReturnKeeps
  <2>5. CachesInv'
    BY <1>1, <2>1, <2>2, <2>3, CacheOffsetKeeps
  <2> QED BY <1>3, <2>1, <2>4, <2>5 DEF Return, OthersInv
<1>14. CASE ReadDelta
  <2>1. /\ stack # <<>> /\ ret = None /\ Top.step = "read" /\ IsDelta(Top.key) /\ ret' = ret
        /\ InDepth(NextDepth(Top.key, Top.depth))
        /\ Await("base", BaseKey(Top.key), NextDepth(Top.key, Top.depth))
        /\ mapped' = mapped /\ UNCHANGED caches
    BY <1>14 DEF ReadDelta, At
  <2>2. Top.key \in Slots /\ Top.depth \in 0..MaxDeltaDepth
    BY <2>1, TopFacts DEF ForSlot
  <2>3. BaseKey(Top.key) \in Ids \cup Slots
    BY <1>2, <2>1, <2>2, SlotFacts
  <2>4. NextDepth(Top.key, Top.depth) = Top.depth + 1 /\ Top.depth + 1 \in 0..MaxDeltaDepth
    BY <2>1, <2>2, BoundsAssumption DEF InDepth, NextDepth, BoundsAssumption
  <2>5. "base" \in Waiting /\ Top.step \in ForSlot
    BY <2>1 DEF Waiting, ForSlot
  <2>6. Await("base", BaseKey(Top.key), Top.depth + 1)
    BY <2>1, <2>4
  <2>7. CallsInv'
    BY <1>1, <2>1, <2>3, <2>4, <2>5, <2>6, AwaitKeeps
  <2> QED BY <1>3, <1>4, <2>1, <2>7 DEF Await, OthersInv
<1>15. CASE ApplyDelta
  <2> DEFINE content == ApplyPackDelta(Top.key, ret)
  <2>1. /\ stack # <<>> /\ ret # None /\ Top.step = "base"
        /\ CacheOffset(Top.key, content) /\ Return(content)
        /\ UNCHANGED <<mapped, objects, trees, commits>>
    BY <1>15 DEF ApplyDelta, BackIn
  <2>2. Top.key \in Slots
    BY <2>1, TopFacts DEF ForSlot
  <2>3. PICK key \in Ids \cup Slots : Awaits(Top, key) /\ ret = ContentOf(key)
    BY <2>1 DEF CallsInv, CallsLinked
  <2>4. IsDelta(Top.key) /\ ret = ContentOf(BaseKey(Top.key))
    BY <2>1, <2>3 DEF Awaits
  <2>5. MadeAgainst(Top.key) = ret /\ repo.slots[Top.key].object \in Ids
    BY <1>2, <2>2, <2>4, SlotFacts
  <2>6. content \in Contents /\ content = ContentOf(Top.key)
    BY <2>2, <2>5, ContentOfId DEF ApplyPackDelta, ContentOf
  <2> HIDE DEF content
  <2>7. CallsInv'
    BY <1>1, <2>1, <2>6, ReturnKeeps
  <2>8. CachesInv'
    BY <1>1, <2>1, <2>2, <2>6, CacheOffsetKeeps
  <2> QED BY <1>3, <2>1, <2>7, <2>8 DEF Return, OthersInv
<1>16. CASE Finish \/ WrongKind
  <2>1. /\ Returned /\ ret' = None /\ stack' = stack /\ answer' \in {ret, NotTree, Failed}
        /\ UNCHANGED <<mapped, objects, offsets>>
    BY <1>16 DEF Finish, WrongKind, caches
  <2>2. stack = <<>> /\ ask # None /\ ret = ask.id /\ ask.id \in Ids
    BY <2>1 DEF Returned, CallsInv, CallsLinked, Request
  <2>3. CallsInv'
    BY <1>1, <2>1, <2>2 DEF CallsInv, CallsLinked, DepthInv
  <2>4. CachesInv'
    <3>1. CASE WrongKind
      BY <1>4, <3>1 DEF WrongKind
    <3>2. CASE Finish /\ ask.op = "commit"
      BY <1>1, <2>1, <2>2, <3>2, CacheCommitKeeps DEF Finish
    <3>3. CASE Finish /\ ask.op = "entries"
      BY <1>1, <2>1, <2>2, <3>3, CacheTreeKeeps DEF Finish
    <3>4. CASE Finish /\ ask.op \notin {"commit", "entries"}
      BY <1>4, <2>1, <3>4 DEF Finish, caches
    <3> QED BY <1>16, <3>1, <3>2, <3>3, <3>4
  <2>5. OthersInv'
    BY <1>1, <2>1, <2>2, ContentOfId DEF OthersInv
  <2> QED BY <2>3, <2>4, <2>5
<1> QED
  BY <1>5, <1>6, <1>7, <1>8, <1>9, <1>10, <1>11, <1>12, <1>13, <1>14, <1>15, <1>16
  DEF Read, ReadStep

(* Asking, forking, and what other processes do to the files keep it too.  *)
LEMMA AskKeeps ==
  ASSUME CallsInv, CachesInv, OthersInv,
         NEW op \in Ops, NEW id \in Ids, AskRemembered(op, id) \/ AskObject(op, id)
  PROVE  CallsInv' /\ CachesInv' /\ OthersInv'
<1>1. /\ Idle /\ asked' = asked + 1 /\ asked < MaxAsks /\ ask' = [op |-> op, id |-> id]
      /\ ret' = ret /\ UNCHANGED <<repo, loose, present, changes, mapped, caches>>
  BY DEF AskRemembered, AskObject, Ask, disk
<1>2. due' \in BOOLEAN
  <2>1. due' = (id \in Reachable[MaxDeltaDepth])
    BY DEF AskRemembered, AskObject, Ask
  <2>2. (id \in Reachable[MaxDeltaDepth]) \in BOOLEAN
    OBVIOUS
  <2> QED BY <2>1, <2>2
<1>3. stack = <<>> /\ ret = None
  BY <1>1 DEF Idle, CallsInv, CallsLinked
<1>4. ask' \in Request /\ ask' # None /\ ask'.id = id
  BY <1>1, ContentAssumption DEF ContentAssumption, Request
<1>5. CachesInv'
  BY <1>1 DEF CachesInv, caches, ContentOf
<1>6. asked' \in 0..MaxAsks
  BY <1>1, BoundsAssumption DEF OthersInv, BoundsAssumption
<1>7. CASE AskRemembered(op, id)
  <2>1. stack' = <<>> /\ answer' = Remembered(op, id) /\ Remembered(op, id) # None
    BY <1>3, <1>7 DEF AskRemembered
  <2>2. answer' = id
    BY <2>1 DEF Remembered, CachesInv
  <2>3. CallsInv'
    BY <1>1, <1>3, <1>4, <2>1 DEF CallsInv, CallsLinked, DepthInv
  <2>4. OthersInv'
    BY <1>1, <1>2, <1>4, <1>6, <2>2, ContentOfId DEF OthersInv
  <2> QED BY <1>5, <2>3, <2>4
<1>8. CASE AskObject(op, id)
  <2>1. stack' = <<Call(id, 0)>> /\ answer' = None
    BY <1>8 DEF AskObject
  <2>2. /\ Call(id, 0) \in Frame /\ Call(id, 0).key = id /\ Call(id, 0).depth = 0
        /\ Call(id, 0).step \notin Waiting
        /\ Call(id, 0).step \in ForSlot => id \in Slots
    BY CallFacts, BoundsAssumption DEF BoundsAssumption
  <2>3. /\ stack' \in Seq(Frame) /\ Len(stack') = 1 /\ DOMAIN stack' = {1}
        /\ stack'[1] = Call(id, 0)
    BY <2>1, <2>2
  <2>4. DepthInv'
    BY <2>2, <2>3 DEF DepthInv
  <2>5. CallsLinked'
    BY <1>1, <1>3, <1>4, <2>1, <2>2, <2>3 DEF CallsLinked, Top
  <2>6. OthersInv'
    BY <1>1, <1>2, <1>4, <1>6, <2>1 DEF OthersInv
  <2> QED BY <1>1, <1>3, <1>4, <1>5, <2>3, <2>4, <2>5, <2>6 DEF CallsInv
<1> QED BY <1>7, <1>8

LEMMA ForkKeeps ==
  ASSUME CallsInv, CachesInv, OthersInv, Fork
  PROVE  CallsInv' /\ CachesInv' /\ OthersInv'
<1>1. UNCHANGED <<repo, loose, present, changes, mapped, stack, ret, ask, due, asked, answer>>
  BY DEF Fork, disk, request
<1>2. /\ EmptyCache(Ids) \in Cache(Ids) /\ \A i \in Ids : EmptyCache(Ids).held[i] = None
      /\ EmptyCache(Slots) \in Cache(Slots) /\ \A s \in Slots : EmptyCache(Slots).held[s] = None
  BY DEF EmptyCache, Cache
<1>3. CachesInv'
  BY <1>2 DEF Fork, CachesInv
<1>4. CallsInv'
  BY <1>1, CallsUnchanged DEF caches
<1>5. OthersInv'
  BY <1>1 DEF OthersInv
<1> QED BY <1>3, <1>4, <1>5

LEMMA DiskKeeps ==
  ASSUME CallsInv, CachesInv, OthersInv,
         \/ \E pack \in Packs : DeletePack(pack)
         \/ \E id \in Ids : DeleteLoose(id) \/ WriteLoose(id)
  PROVE  CallsInv' /\ CachesInv' /\ OthersInv'
<1>1. /\ UNCHANGED <<repo, mapped, caches, stack, ret, ask, asked, answer>>
      /\ changes' = changes + 1 /\ changes < MaxChanges
      /\ loose' \subseteq Ids /\ present' \subseteq Packs /\ due' \in {due, FALSE}
  BY DEF DeletePack, DeleteLoose, WriteLoose, Changed, request, OthersInv
<1>2. CachesInv'
  BY <1>1 DEF caches, CachesInv, ContentOf
<1>3. CallsInv'
  BY <1>1, CallsUnchanged DEF caches
<1>4. changes' \in 0..MaxChanges
  BY <1>1, BoundsAssumption DEF OthersInv, BoundsAssumption
<1>5. OthersInv'
  BY <1>1, <1>4 DEF OthersInv
<1> QED BY <1>2, <1>3, <1>5

LEMMA StepInv == IInv /\ [Next]_vars => IInv'
<1> SUFFICES ASSUME CallsInv, CachesInv, OthersInv, [Next]_vars
             PROVE  CallsInv' /\ CachesInv' /\ OthersInv'
  BY Parts DEF IInv, TypeOK, RightContent, CallsInv, CachesInv, OthersInv
<1>1. CASE UNCHANGED vars
  <2>1. UNCHANGED <<repo, loose, present, changes, mapped, objects, offsets, trees, commits,
                    stack, ret, ask, due, asked, answer>>
    BY <1>1 DEF vars, disk, caches, request
  <2>2. CallsInv'
    BY <2>1, CallsUnchanged
  <2> QED BY <2>1, <2>2 DEF CachesInv, OthersInv, ContentOf
<1>2. CASE Next /\ ~UNCHANGED vars
  <2>1. \/ \E op \in Ops, id \in Ids : AskRemembered(op, id) \/ AskObject(op, id)
        \/ Read
        \/ Fork
        \/ \/ \E pack \in Packs : DeletePack(pack)
           \/ \E id \in Ids : DeleteLoose(id) \/ WriteLoose(id)
    BY <1>2 DEF Next, Dropped
  <2> QED BY <2>1, AskKeeps, ReadKeeps, ForkKeeps, DiskKeeps
<1> QED BY <1>1, <1>2

-----------------------------------------------------------------------------
(* The inductive invariant holds in every state. *)
THEOREM InvariantHolds == Spec => []IInv
<1> QED BY InitInv, StepInv, PTL DEF Spec

(* Every variable has its type in every state. *)
THEOREM TypesHold == Spec => []TypeOK
<1>1. IInv => TypeOK
  BY DEF IInv
<1> QED BY <1>1, InvariantHolds, PTL

(* Whatever the packs hold and whatever is deleted or written meanwhile,   *)
(* nothing but the object asked for is ever cached or answered.            *)
THEOREM ContentIsRight == Spec => []RightContent
<1>1. IInv => RightContent
  BY DEF IInv
<1> QED BY <1>1, InvariantHolds, PTL

(* No pack, however malformed, makes the recursion deeper than two calls   *)
(* for each delta that may be followed, and two.                           *)
THEOREM StackIsBounded == Spec => []StackBounded
<1>1. ASSUME IInv PROVE StackBounded
  <2>1. CallsInv /\ Len(stack) \in Nat /\ MaxDeltaDepth \in Nat
    BY <1>1, Parts, BoundsAssumption DEF CallsInv, BoundsAssumption
  <2>2. CASE stack = <<>>
    BY <2>1, <2>2 DEF StackBounded
  <2>3. CASE stack # <<>>
    <3>1. Len(stack) \in DOMAIN stack /\ Top.depth \in 0..MaxDeltaDepth
      BY <2>1, <2>3, TopFacts DEF CallsInv
    <3>2. Len(stack) <= 2 * Top.depth + (IF Top.key \in Slots THEN 2 ELSE 1)
      BY <2>1, <3>1 DEF CallsInv, DepthInv, Top
    <3> QED BY <2>1, <3>1, <3>2 DEF StackBounded
  <2> QED BY <2>2, <2>3
<1> QED BY <1>1, InvariantHolds, PTL

-----------------------------------------------------------------------------
(* What the three ways a call goes on make of the stack.                   *)
LEMMA NonemptyByLength == \A s : Len(s) # 0 => s # <<>>
OBVIOUS

LEMMA StackFacts ==
  ASSUME stack \in Seq(Frame), stack # <<>>
  PROVE  /\ Len(stack) \in Nat /\ Len(stack) >= 1 /\ Len(stack) \in 1..Len(stack)
         /\ DOMAIN stack = 1..Len(stack)
         /\ \A i \in 1..Len(stack) : stack[i] \in Frame
OBVIOUS

LEMMA GoToShape ==
  ASSUME stack \in Seq(Frame), stack # <<>>, NEW step \in Steps, GoTo(step)
  PROVE  /\ stack' # <<>> /\ Len(stack') = Len(stack) /\ DOMAIN stack' = 1..Len(stack)
         /\ \A i \in 1..Len(stack) : /\ stack'[i].key = stack[i].key
                                     /\ i < Len(stack) => stack'[i] = stack[i]
         /\ stack'[Len(stack)].step = step
         /\ Top'.step = step /\ Top'.key = Top.key /\ Top'.depth = Top.depth
<1> DEFINE n == Len(stack)
           new == [stack[n] EXCEPT !.step = step]
<1>0. n \in Nat /\ n >= 1
  BY StackFacts
<1>1. n \in 1..n /\ DOMAIN stack = 1..n /\ stack[n] \in Frame
  BY StackFacts
<1>2. new \in Frame /\ new.key = stack[n].key /\ new.depth = stack[n].depth /\ new.step = step
  BY <1>1 DEF Frame
<1>3. stack' = [stack EXCEPT ![n] = new]
  BY DEF GoTo
<1> HIDE DEF new
<1>4. /\ stack' \in Seq(Frame) /\ Len(stack') = n
      /\ \A j \in 1..n : stack'[j] = IF j = n THEN new ELSE stack[j]
  BY <1>1, <1>2, <1>3, ExceptSeq
<1>5. Top' = stack'[n] /\ Top = stack[n]
  BY <1>4 DEF Top
<1>6. DOMAIN stack' = 1..n
  BY <1>4
<1>7. stack' # <<>>
  BY <1>0, <1>4, NonemptyByLength
<1>8. stack'[n] = new /\ Top' = new
  BY <1>1, <1>4, <1>5
<1>9. \A i \in 1..n : stack'[i].key = stack[i].key /\ (i < n => stack'[i] = stack[i])
  <2>1. \A i \in 1..n : i < n => i # n
    BY <1>0
  <2>2. \A i \in 1..n : i = n \/ stack'[i] = stack[i]
    BY <1>4
  <2>3. stack'[n].key = stack[n].key
    BY <1>1, <1>2, <1>4
  <2> QED BY <2>1, <2>2, <2>3
<1> QED BY <1>2, <1>4, <1>5, <1>6, <1>7, <1>8, <1>9

LEMMA AwaitShape ==
  ASSUME stack \in Seq(Frame), stack # <<>>, NEW step \in Steps,
         NEW key \in Ids \cup Slots, NEW depth \in 0..MaxDeltaDepth, Await(step, key, depth)
  PROVE  /\ stack' # <<>> /\ Len(stack') = Len(stack) + 1 /\ DOMAIN stack' = 1..(Len(stack) + 1)
         /\ \A i \in 1..Len(stack) : /\ stack'[i].key = stack[i].key
                                     /\ i < Len(stack) => stack'[i] = stack[i]
         /\ stack'[Len(stack)].step = step
         /\ stack'[Len(stack) + 1] = Call(key, depth)
         /\ Top' = Call(key, depth)
<1> DEFINE n == Len(stack)
           new == [stack[n] EXCEPT !.step = step]
           waiting == [stack EXCEPT ![n] = new]
<1>0. n \in Nat /\ n >= 1
  BY StackFacts
<1>1. n \in 1..n /\ DOMAIN stack = 1..n /\ stack[n] \in Frame
  BY StackFacts
<1>2. new \in Frame /\ new.key = stack[n].key /\ new.depth = stack[n].depth /\ new.step = step
  BY <1>1 DEF Frame
<1>3. stack' = Append(waiting, Call(key, depth))
  BY DEF Await
<1>4. Call(key, depth) \in Frame
  BY CallFacts
<1> HIDE DEF new
<1>5. /\ waiting \in Seq(Frame) /\ Len(waiting) = n
      /\ \A j \in 1..n : waiting[j] = IF j = n THEN new ELSE stack[j]
  BY <1>1, <1>2, ExceptSeq
<1> HIDE DEF waiting
<1>6. /\ stack' \in Seq(Frame) /\ Len(stack') = n + 1
      /\ \A j \in 1..n : stack'[j] = IF j = n THEN new ELSE stack[j]
      /\ stack'[n + 1] = Call(key, depth)
  BY <1>3, <1>4, <1>5, AppendProperties
<1>7. DOMAIN stack' = 1..(n + 1)
  BY <1>6
<1>8. stack' # <<>>
  <2>1. Len(stack') # 0
    BY <1>0, <1>6
  <2> QED BY <2>1, NonemptyByLength
<1>9. stack'[n] = new /\ Top' = stack'[n + 1]
  BY <1>1, <1>6 DEF Top
<1>10. \A i \in 1..n : stack'[i].key = stack[i].key /\ (i < n => stack'[i] = stack[i])
  <2>1. \A i \in 1..n : i < n => i # n
    BY <1>0
  <2>2. \A i \in 1..n : i = n \/ stack'[i] = stack[i]
    BY <1>6
  <2>3. stack'[n].key = stack[n].key
    BY <1>1, <1>2, <1>6
  <2> QED BY <2>1, <2>2, <2>3
<1> QED BY <1>2, <1>6, <1>7, <1>8, <1>9, <1>10

LEMMA ReturnShape ==
  ASSUME stack \in Seq(Frame), stack # <<>>, NEW content, Return(content)
  PROVE  /\ Len(stack') = Len(stack) - 1 /\ DOMAIN stack' = 1..(Len(stack) - 1)
         /\ \A i \in 1..(Len(stack) - 1) : stack'[i] = stack[i]
         /\ ret' = content /\ answer' = answer
<1> DEFINE n == Len(stack)
<1>1. n \in Nat /\ n >= 1 /\ DOMAIN stack = 1..n
  BY StackFacts
<1>2. stack' = SubSeq(stack, 1, n - 1) /\ ret' = content /\ answer' = answer
  BY DEF Return
<1>3. \A i \in 1..(n - 1) : stack[i] \in Frame
  BY <1>1
<1>4. /\ stack' \in Seq(Frame) /\ Len(stack') = n - 1
      /\ \A i \in 1..(n - 1) : stack'[i] = stack[i]
  BY <1>1, <1>2, <1>3, SubSeqProperties
<1>5. DOMAIN stack' = 1..(n - 1)
  BY <1>4
<1> QED BY <1>2, <1>4, <1>5

-----------------------------------------------------------------------------
(* Putting something into a cache keeps it within its bounds, and what it  *)
(* counts is what it holds, if nothing was held under that key.            *)
FitsIn(cache, maxEntries, maxBytes) ==
  /\ IsFiniteSet(Held(cache))
  /\ Cardinality(Held(cache)) <= maxEntries
  /\ cache.bytes <= maxBytes \/ Cardinality(Held(cache)) = 1
  /\ Total(cache) <= cache.bytes

LEMMA TotalFacts ==
  ASSUME NEW Keys, NEW cache \in Cache(Keys), IsFiniteSet(Held(cache))
  PROVE  /\ Total(cache) \in Nat
         /\ \A k \in Held(cache) : Size[cache.held[k]] \in Nat
         /\ DOMAIN cache.held = Keys /\ Held(cache) \subseteq Keys
<1>1. DOMAIN cache.held = Keys /\ Held(cache) \subseteq Keys
  BY DEF Cache, Held
<1>2. \A k \in Held(cache) : cache.held[k] \in Contents
  BY <1>1 DEF Cache, Held
<1>3. \A k \in Held(cache) : Size[cache.held[k]] \in Nat
  BY <1>2, ContentAssumption DEF ContentAssumption
<1> DEFINE f == [k \in Held(cache) |-> Size[cache.held[k]]]
<1>4. \A k \in Held(cache) : f[k] \in Nat
  BY <1>3
<1>5. SumFunctionOnSet(f, Held(cache)) \in Nat
  <2> HIDE DEF f
  <2> QED BY <1>4, SumType
<1> QED BY <1>1, <1>3, <1>5 DEF Total

LEMMA EmptyFits ==
  ASSUME NEW Keys, NEW maxEntries \in Nat, NEW maxBytes \in Nat
  PROVE  /\ EmptyCache(Keys) \in Cache(Keys)
         /\ FitsIn(EmptyCache(Keys), maxEntries, maxBytes)
         /\ Held(EmptyCache(Keys)) = {} /\ Total(EmptyCache(Keys)) = 0
         /\ EmptyCache(Keys).bytes = 0 /\ \A k \in Keys : EmptyCache(Keys).held[k] = None
<1> DEFINE empty == EmptyCache(Keys)
<1>1. empty \in Cache(Keys) /\ empty.bytes = 0 /\ \A k \in Keys : empty.held[k] = None
  BY DEF EmptyCache, Cache
<1>2. Held(empty) = {}
  BY <1>1 DEF Cache, Held
<1>3. Total(empty) = 0
  BY <1>2, SumOfNone DEF Total
<1>4. IsFiniteSet({}) /\ Cardinality({}) = 0
  BY FS_EmptySet
<1> QED BY <1>1, <1>2, <1>3, <1>4 DEF FitsIn

LEMMA OneMoreFits ==
  ASSUME NEW Keys, NEW cache \in Cache(Keys), NEW key \in Keys, NEW content \in Contents,
         cache.held[key] \in {None, content}, IsFiniteSet(Held(cache)),
         NEW new, new = [held |-> [cache.held EXCEPT ![key] = content],
                         bytes |-> cache.bytes + Size[content]]
  PROVE  /\ IsFiniteSet(Held(new)) /\ key \in Held(new)
         /\ Cardinality(Held(new)) \in Nat
         /\ Cardinality(Held(new)) <= Cardinality(Held(cache)) + 1
         /\ Held(cache) = {} => Cardinality(Held(new)) = 1
         /\ Total(cache) <= cache.bytes => Total(new) <= new.bytes
         /\ cache.held[key] = None /\ Total(cache) = cache.bytes => Total(new) = new.bytes
<1>1. content # None /\ Size[content] \in Nat
  BY ContentAssumption DEF ContentAssumption
<1>2. DOMAIN cache.held = Keys /\ cache.bytes \in Nat
  BY DEF Cache
<1>3. /\ DOMAIN new.held = Keys /\ new.bytes = cache.bytes + Size[content]
      /\ new.held[key] = content /\ \A k \in Keys \ {key} : new.held[k] = cache.held[k]
  BY <1>2
<1>4. Held(new) = Held(cache) \cup {key}
  BY <1>1, <1>2, <1>3 DEF Held
<1>5. IsFiniteSet(Held(new)) /\ key \in Held(new)
  BY <1>4, FS_AddElement
<1>6. /\ Cardinality(Held(new)) \in Nat
      /\ Cardinality(Held(new)) <= Cardinality(Held(cache)) + 1
      /\ Held(cache) = {} => Cardinality(Held(new)) = 1
  <2>1. Cardinality(Held(cache)) \in Nat
    BY FS_CardinalityType
  <2>2. Cardinality(Held(new)) = IF key \in Held(cache) THEN Cardinality(Held(cache))
                                 ELSE Cardinality(Held(cache)) + 1
    BY <1>4, FS_AddElement
  <2> QED BY <2>1, <2>2, FS_EmptySet
<1>7. Total(cache) \in Nat /\ \A k \in Held(cache) : Size[cache.held[k]] \in Nat
  BY TotalFacts
<1>8. CASE cache.held[key] = None
  <2> DEFINE f == [k \in Held(cache) |-> Size[cache.held[k]]]
             h == [k \in Held(new) |-> Size[new.held[k]]]
  <2>1. key \notin Held(cache)
    BY <1>8 DEF Held
  <2>2. h[key] = Size[content] /\ \A k \in Held(cache) : h[k] = f[k]
    BY <1>2, <1>3, <1>4, <2>1 DEF Held
  <2>3. \A k \in Held(cache) : f[k] \in Nat
    BY <1>7
  <2>4. Total(new) = SumFunctionOnSet(h, Held(cache) \cup {key})
        /\ Total(cache) = SumFunctionOnSet(f, Held(cache))
    BY <1>4 DEF Total
  <2> HIDE DEF f, h
  <2>5. h[key] \in Nat
    BY <1>1, <2>2
  <2>6. SumFunctionOnSet(h, Held(cache) \cup {key}) = h[key] + SumFunctionOnSet(f, Held(cache))
    BY <2>1, <2>2, <2>3, <2>5, SumOfOneMore
  <2>7. Total(new) = Size[content] + Total(cache)
    BY <2>2, <2>4, <2>6
  <2> QED BY <1>1, <1>2, <1>3, <1>5, <1>6, <1>7, <2>7
<1>9. CASE cache.held[key] = content
  <2>1. new.held = cache.held
    BY <1>2, <1>9 DEF Cache
  <2>2. Total(new) = Total(cache)
    BY <2>1 DEF Total, Held
  <2> QED BY <1>1, <1>2, <1>3, <1>5, <1>6, <1>7, <1>9, <2>2
<1> QED BY <1>8, <1>9

LEMMA InsertFits ==
  ASSUME NEW Keys, NEW cache \in Cache(Keys), NEW key \in Keys, NEW content \in Contents,
         NEW maxEntries \in Nat \ {0}, NEW maxBytes \in Nat,
         cache.held[key] \in {None, content}, FitsIn(cache, maxEntries, maxBytes),
         NEW new, new = Insert(cache, key, content, maxEntries, maxBytes)
  PROVE  /\ FitsIn(new, maxEntries, maxBytes)
         /\ cache.held[key] = None /\ Total(cache) = cache.bytes => Total(new) = new.bytes
<1> DEFINE kept == IF CacheNeedsReset(cache, Size[content], maxEntries, maxBytes)
                   THEN EmptyCache(DOMAIN cache.held) ELSE cache
<1>1. DOMAIN cache.held = Keys /\ cache.bytes \in Nat /\ Size[content] \in Nat
  BY ContentAssumption DEF ContentAssumption, Cache
<1>2. new = [held |-> [kept.held EXCEPT ![key] = content], bytes |-> kept.bytes + Size[content]]
  BY DEF Insert
<1>3. CASE CacheNeedsReset(cache, Size[content], maxEntries, maxBytes)
  <2>1. kept = EmptyCache(Keys)
    BY <1>1, <1>3
  <2>2. /\ kept \in Cache(Keys) /\ Held(kept) = {} /\ IsFiniteSet(Held(kept))
        /\ Total(kept) = kept.bytes /\ kept.bytes = 0 /\ kept.held[key] = None
    BY <2>1, EmptyFits, FS_EmptySet
  <2> HIDE DEF kept
  <2>3. /\ IsFiniteSet(Held(new)) /\ Cardinality(Held(new)) = 1 /\ Total(new) = new.bytes
        /\ new.bytes = Size[content]
    BY <1>1, <1>2, <2>2, OneMoreFits
  <2>4. Total(new) <= new.bytes
    BY <1>1, <2>3
  <2> QED BY <2>3, <2>4 DEF FitsIn
<1>4. CASE ~CacheNeedsReset(cache, Size[content], maxEntries, maxBytes)
  <2>1. kept = cache
    BY <1>4
  <2>2. Cardinality(Held(cache)) \in Nat
    BY FS_CardinalityType DEF FitsIn
  <2>3. Cardinality(Held(cache)) + 1 <= maxEntries /\ cache.bytes + Size[content] <= maxBytes
    BY <1>1, <1>4, <2>2 DEF CacheNeedsReset
  <2> HIDE DEF kept
  <2>4. /\ IsFiniteSet(Held(new)) /\ Cardinality(Held(new)) \in Nat
        /\ Cardinality(Held(new)) <= Cardinality(Held(cache)) + 1
        /\ Total(new) <= new.bytes /\ new.bytes = cache.bytes + Size[content]
        /\ cache.held[key] = None /\ Total(cache) = cache.bytes => Total(new) = new.bytes
    BY <1>2, <2>1, OneMoreFits DEF FitsIn
  <2> QED BY <2>2, <2>3, <2>4 DEF FitsIn
<1> QED BY <1>3, <1>4

-----------------------------------------------------------------------------
(* Reachable is what its recursion says, and grows with the packs that can *)
(* be opened and with the files that can be read.                          *)
WithDeltas(n, fewer) ==
  LET slots == {s \in Slots :
                  /\ s[1] \in mapped \cup present
                  /\ \/ repo.slots[s].form = "full"
                     \/ IsDelta(s) /\ n > 0 /\ BaseKey(s) \in fewer}
      files == {i \in Ids : IsLooseFile(i) /\ i \notin repo.corrupt}
      packed == {i \in Ids : ~IsLooseFile(i) /\ \E s \in slots : IsPackOffset(i, s)}
  IN  slots \cup files \cup packed

LEMMA ReachableUnfolds ==
  \A n \in 0..MaxDeltaDepth : Reachable[n] = WithDeltas(n, Reachable[n - 1])
<1> DEFINE M == MaxDeltaDepth
           Solves(g, n) == g[n] = WithDeltas(n, g[n - 1])
           Tabulated(g) == g = [n \in 0..M |-> g[n]]
           N == {k \in Nat : \E g : Tabulated(g) /\ \A n \in 0..M : n <= k => Solves(g, n)}
<1>1. M \in Nat
  BY BoundsAssumption DEF BoundsAssumption
<1>2. \A x, y : WithDeltas(0, x) = WithDeltas(0, y)
  BY DEF WithDeltas
<1>3. 0 \in N
  <2>1. PICK g : g = [n \in 0..M |-> WithDeltas(0, {})]
    OBVIOUS
  <2>2. \A n \in 0..M : n <= 0 => Solves(g, n)
    <3>1. \A n \in 0..M : n <= 0 => n = 0
      OBVIOUS
    <3>2. 0 \in 0..M /\ g[0] = WithDeltas(0, {})
      BY <1>1, <2>1
    <3> QED BY <1>2, <3>1, <3>2
  <2> QED BY <2>1, <2>2
<1>4. ASSUME NEW k \in Nat, k \in N
      PROVE  k + 1 \in N
  <2>1. PICK g : Tabulated(g) /\ \A n \in 0..M : n <= k => Solves(g, n)
    BY <1>4
  <2>2. PICK next : next = [n \in 0..M |-> IF n = k + 1 THEN WithDeltas(n, g[n - 1]) ELSE g[n]]
    OBVIOUS
  <2>3. ASSUME NEW n \in 0..M, n <= k + 1
        PROVE  Solves(next, n)
    <3>1. CASE n = 0
      <4>0. n <= k /\ n # k + 1
        BY <3>1
      <4>1. next[n] = WithDeltas(0, g[0 - 1])
        BY <2>1, <2>2, <3>1, <4>0
      <4> QED BY <1>2, <3>1, <4>1
    <3>2. CASE n # 0
      <4>1. n - 1 \in 0..M /\ n - 1 # k + 1
        BY <1>1, <2>3, <3>2
      <4>2. next[n - 1] = g[n - 1]
        BY <2>2, <4>1
      <4>3. next[n] = WithDeltas(n, g[n - 1])
        <5>1. CASE n = k + 1
          BY <2>2, <5>1
        <5>2. CASE n # k + 1
          <6>1. n <= k /\ next[n] = g[n]
            BY <2>2, <2>3, <5>2
          <6> QED BY <2>1, <6>1
        <5> QED BY <5>1, <5>2
      <4> QED BY <4>2, <4>3
    <3> QED BY <3>1, <3>2
  <2>4. Tabulated(next)
    BY <2>2
  <2>5. \A n \in 0..M : n <= k + 1 => Solves(next, n)
    BY <2>3
  <2> HIDE DEF Solves, Tabulated
  <2> QED BY <2>4, <2>5
<1>5. M \in N
  <2> HIDE DEF N
  <2> QED BY <1>1, <1>3, <1>4, NumbersByInduction
<1>6. PICK g : Tabulated(g) /\ \A n \in 0..M : n <= M => Solves(g, n)
  BY <1>5
<1>7. \A n \in 0..M : n <= M
  BY <1>1
<1>8. g = [n \in 0..M |-> WithDeltas(n, g[n - 1])]
  BY <1>6, <1>7
<1>9. Reachable = CHOOSE f : f = [n \in 0..M |-> WithDeltas(n, f[n - 1])]
  BY DEF Reachable, WithDeltas
<1>10. Reachable = [n \in 0..M |-> WithDeltas(n, Reachable[n - 1])]
  BY <1>8, <1>9
<1> QED BY <1>10

ReachRule ==
  \A n \in 0..MaxDeltaDepth :
    /\ \A s \in Slots :
         s \in Reachable[n] <=>
           /\ s[1] \in mapped \cup present
           /\ \/ repo.slots[s].form = "full"
              \/ IsDelta(s) /\ n > 0 /\ BaseKey(s) \in Reachable[n - 1]
    /\ \A i \in Ids :
         i \in Reachable[n] <=>
           \/ IsLooseFile(i) /\ i \notin repo.corrupt
           \/ ~IsLooseFile(i) /\ \E s \in Slots : s \in Reachable[n] /\ IsPackOffset(i, s)
    /\ Reachable[n] \subseteq Ids \cup Slots

LEMMA Reaches == ReachRule
<1>1. Ids \cap Slots = {}
  BY ContentAssumption DEF ContentAssumption
<1> SUFFICES ASSUME NEW n \in 0..MaxDeltaDepth
             PROVE  LET reached == Reachable[n]
                    IN  /\ \A s \in Slots :
                             s \in reached <=>
                               /\ s[1] \in mapped \cup present
                               /\ \/ repo.slots[s].form = "full"
                                  \/ IsDelta(s) /\ n > 0 /\ BaseKey(s) \in Reachable[n - 1]
                        /\ \A i \in Ids :
                             i \in reached <=>
                               \/ IsLooseFile(i) /\ i \notin repo.corrupt
                               \/ ~IsLooseFile(i) /\ \E s \in Slots : s \in reached /\ IsPackOffset(i, s)
                        /\ reached \subseteq Ids \cup Slots
  BY DEF ReachRule
<1> DEFINE fewer == Reachable[n - 1]
           slots == {s \in Slots :
                       /\ s[1] \in mapped \cup present
                       /\ \/ repo.slots[s].form = "full"
                          \/ IsDelta(s) /\ n > 0 /\ BaseKey(s) \in fewer}
           files == {i \in Ids : IsLooseFile(i) /\ i \notin repo.corrupt}
           packed == {i \in Ids : ~IsLooseFile(i) /\ \E s \in slots : IsPackOffset(i, s)}
<1>2. Reachable[n] = slots \cup files \cup packed
  BY ReachableUnfolds DEF WithDeltas
<1>3. slots \subseteq Slots /\ files \subseteq Ids /\ packed \subseteq Ids
  OBVIOUS
<1>4. \A s \in Slots : s \in Reachable[n] <=> s \in slots
  BY <1>1, <1>2, <1>3
<1>5. \A i \in Ids : i \in Reachable[n] <=> i \in files \/ i \in packed
  BY <1>1, <1>2, <1>3
<1>6. \A i \in Ids : i \in packed <=>
        ~IsLooseFile(i) /\ \E s \in Slots : s \in Reachable[n] /\ IsPackOffset(i, s)
  BY <1>3, <1>4
<1> QED BY <1>2, <1>3, <1>4, <1>5, <1>6

LEMMA ReachesNext == ReachRule'
BY Reaches, PTL

LEMMA ReachableGrows ==
  ASSUME repo' = repo, mapped \cup present \subseteq mapped' \cup present',
         loose \subseteq loose', loose' \cap repo.corrupt \subseteq loose
  PROVE  \A n \in 0..MaxDeltaDepth : Reachable[n] \subseteq Reachable'[n]
<1> DEFINE M == MaxDeltaDepth
           N == {n \in Nat : n \in 0..M => Reachable[n] \subseteq Reachable'[n]}
<1>1. \A id, slot : IsPackOffset(id, slot)' <=> IsPackOffset(id, slot)
  BY LookupsUnchanged
<1>2. \A i : /\ IsLooseFile(i) => IsLooseFile(i)'
             /\ IsLooseFile(i)' /\ ~IsLooseFile(i) => i \notin repo.corrupt
  BY DEF IsLooseFile
<1>3. ASSUME NEW n \in 0..M, n > 0 => Reachable[n - 1] \subseteq Reachable'[n - 1]
      PROVE  Reachable[n] \subseteq Reachable'[n]
  <2>1. ASSUME NEW s \in Slots, s \in Reachable[n]
        PROVE  s \in Reachable'[n]
    <3>1. /\ s[1] \in mapped \cup present
          /\ \/ repo.slots[s].form = "full"
             \/ IsDelta(s) /\ n > 0 /\ BaseKey(s) \in Reachable[n - 1]
      BY <2>1, Reaches DEF ReachRule
    <3>2. /\ s[1] \in mapped' \cup present'
          /\ \/ repo'.slots[s].form = "full"
             \/ IsDelta(s)' /\ n > 0 /\ BaseKey(s)' \in Reachable'[n - 1]
      BY <1>3, <3>1 DEF IsDelta, BaseKey
    <3> QED BY <3>2, ReachesNext DEF ReachRule
  <2>2. ASSUME NEW i \in Ids, i \in Reachable[n]
        PROVE  i \in Reachable'[n]
    <3>1. \/ IsLooseFile(i) /\ i \notin repo.corrupt
          \/ ~IsLooseFile(i) /\ \E s \in Slots : s \in Reachable[n] /\ IsPackOffset(i, s)
      BY <2>2, Reaches DEF ReachRule
    <3>2. \/ IsLooseFile(i)' /\ i \notin repo'.corrupt
          \/ ~IsLooseFile(i)' /\ \E s \in Slots : s \in Reachable'[n] /\ IsPackOffset(i, s)'
      BY <1>1, <1>2, <2>1, <3>1
    <3> QED BY <3>2, ReachesNext DEF ReachRule
  <2>3. Reachable[n] \subseteq Ids \cup Slots
    BY Reaches DEF ReachRule
  <2> QED BY <2>1, <2>2, <2>3
<1>4. 0 \in N
  BY <1>3
<1>5. ASSUME NEW n \in Nat, n \in N
      PROVE  n + 1 \in N
  <2>1. n + 1 \in 0..M => n \in 0..M /\ (n + 1) - 1 = n
    BY BoundsAssumption DEF BoundsAssumption
  <2> QED BY <1>3, <1>5, <2>1
<1>6. Nat \subseteq N
  <2> HIDE DEF N
  <2> QED BY <1>4, <1>5, NumbersByInduction
<1>7. \A n \in 0..M : n \in Nat
  OBVIOUS
<1> QED BY <1>6, <1>7

-----------------------------------------------------------------------------
(* An object within reach stays so while it is read: each call finds what  *)
(* it needs, or its answer in a cache, and none of the errors can happen.  *)
LEMMA TopWithinReach ==
  ASSUME CallsInv, WithinReach, due, stack # <<>>, ret = None
  PROVE  /\ MaxDeltaDepth - Top.depth \in 0..MaxDeltaDepth
         /\ Top.step \in {"object", "offset", "read"} => Top.key \in Reachable[MaxDeltaDepth - Top.depth]
         /\ Top.step = "loose" => Top.key \in loose \ repo.corrupt
         /\ Top.step = "index" =>
              \E slot \in Reachable[MaxDeltaDepth - Top.depth] : IsPackOffset(Top.key, slot)
<1>1. Top.depth \in 0..MaxDeltaDepth /\ MaxDeltaDepth \in Nat
  BY TopFacts, BoundsAssumption DEF BoundsAssumption
<1> QED BY <1>1 DEF WithinReach

LEMMA ReadKeepsReach ==
  ASSUME CallsInv, CachesInv, OthersInv, WithinReach, ReadableIsFound, Read
  PROVE  WithinReach' /\ ReadableIsFound'
<1> DEFINE M == MaxDeltaDepth
<1>1. /\ UNCHANGED <<repo, disk, request>>
      /\ UNCHANGED <<repo, loose, present, changes, ask, due, asked>>
  BY DEF Read, disk, request
<1>2. \A id, slot : IsPackOffset(id, slot)' <=> IsPackOffset(id, slot)
  BY <1>1, LookupsUnchanged
<1>3. ASSUME mapped \subseteq mapped'
      PROVE  \A n \in 0..M : Reachable[n] \subseteq Reachable'[n]
  BY <1>1, <1>3, ReachableGrows
<1>4. stack # <<>> => answer = None
  BY DEF CallsInv, CallsLinked
<1>5. None # Failed /\ \A content \in Contents : content # None
  BY ContentAssumption DEF ContentAssumption
<1>6. ASSUME stack # <<>>, NEW content, content # None, Return(content)
      PROVE  WithinReach' /\ ReadableIsFound'
  BY <1>4, <1>5, <1>6 DEF WithinReach, ReadableIsFound, Return
<1>7. ASSUME Fail, ~due
      PROVE  WithinReach' /\ ReadableIsFound'
  BY <1>1, <1>7 DEF WithinReach, ReadableIsFound
<1>8. ASSUME stack # <<>>, answer' = answer
      PROVE  ReadableIsFound'
  BY <1>4, <1>5, <1>8 DEF ReadableIsFound
<1>9. CASE HitObject
  BY <1>6, <1>9 DEF HitObject, At
<1>10. CASE LookForFile
  <2>1. /\ stack # <<>> /\ ret = None /\ Top.step = "object"
        /\ GoTo(IF IsLooseFile(Top.key) THEN "loose" ELSE "index")
        /\ mapped' = mapped /\ ret' = ret /\ answer' = answer
    BY <1>10 DEF LookForFile, At, GoTo
  <2>2. /\ Top'.step = (IF IsLooseFile(Top.key) THEN "loose" ELSE "index")
        /\ Top'.key = Top.key /\ Top'.depth = Top.depth
    BY <2>1, GoToShape DEF Steps, CallsInv
  <2>3. ASSUME due
        PROVE  /\ Top'.step = "loose" => Top.key \in loose \ repo.corrupt
               /\ Top'.step = "index" =>
                    \E slot \in Reachable'[M - Top.depth] : IsPackOffset(Top.key, slot)'
    <3>1. M - Top.depth \in 0..M /\ Top.key \in Reachable[M - Top.depth] /\ Top.key \in Ids
      BY <2>1, <2>3, TopWithinReach, TopFacts DEF ForId
    <3>2. \/ IsLooseFile(Top.key) /\ Top.key \notin repo.corrupt
          \/ ~IsLooseFile(Top.key) /\ \E s \in Slots : s \in Reachable[M - Top.depth] /\ IsPackOffset(Top.key, s)
      BY <3>1, Reaches DEF ReachRule
    <3>3. Reachable[M - Top.depth] \subseteq Reachable'[M - Top.depth]
      BY <1>3, <2>1, <3>1
    <3> QED BY <1>2, <2>2, <3>2, <3>3 DEF IsLooseFile
  <2>4. Top'.step \notin {"object", "offset", "read"}
    BY <2>2
  <2>5. WithinReach'
    BY <1>1, <2>2, <2>3, <2>4 DEF WithinReach
  <2> QED BY <1>8, <2>1, <2>5
<1>11. CASE ReadLoose
  <2>1. stack # <<>> /\ Top.step = "loose" /\ Return(Top.key)
    BY <1>11 DEF ReadLoose, At
  <2> QED BY <1>5, <1>6, <2>1, TopFacts DEF ForId, Contents
<1>12. CASE LooseFails
  <2>1. stack # <<>> /\ ret = None /\ Top.step = "loose" /\ Top.key \notin loose \ repo.corrupt /\ Fail
    BY <1>12 DEF LooseFails, At
  <2> QED BY <1>7, <2>1, TopWithinReach
<1>13. CASE GoToPack
  <2>1. /\ stack # <<>> /\ ret = None /\ Top.step = "index" /\ ret' = ret /\ mapped' = mapped
    BY <1>13 DEF GoToPack, At
  <2>2. PICK slot \in Slots : IsPackOffset(Top.key, slot) /\ Await("packed", slot, Top.depth)
    BY <1>13 DEF GoToPack
  <2>3. Top' = Call(slot, Top.depth) /\ answer' = answer
    BY <2>1, <2>2, TopFacts, AwaitShape DEF Steps, CallsInv, Await
  <2>4. Top'.step = "offset" /\ Top'.key = slot /\ Top'.depth = Top.depth
    BY <2>3 DEF Call
  <2>5. ASSUME due
        PROVE  slot \in Reachable'[M - Top.depth]
    <3>1. /\ M - Top.depth \in 0..M
          /\ \E s \in Reachable[M - Top.depth] : IsPackOffset(Top.key, s)
      BY <2>1, <2>5, TopWithinReach
    <3>2. \A s : IsPackOffset(Top.key, s) => s = slot
      BY <2>2 DEF IsPackOffset
    <3>3. Reachable[M - Top.depth] \subseteq Reachable'[M - Top.depth]
      BY <1>3, <2>1, <3>1
    <3> QED BY <3>1, <3>2, <3>3
  <2>6. WithinReach'
    BY <1>1, <2>4, <2>5 DEF WithinReach
  <2> QED BY <1>8, <2>1, <2>3, <2>6
<1>14. CASE NotFound
  <2>1. /\ stack # <<>> /\ ret = None /\ Top.step = "index" /\ Fail
        /\ ~\E slot \in Slots : IsPackOffset(Top.key, slot)
    BY <1>14 DEF NotFound, At
  <2>2. \A slot : IsPackOffset(Top.key, slot) => slot \in Slots
    BY DEF IsPackOffset, InFirstIndex
  <2> QED BY <1>7, <2>1, <2>2, TopWithinReach
<1>15. CASE TakePacked
  BY <1>6, <1>15 DEF TakePacked, BackIn
<1>16. CASE HitOffset
  BY <1>6, <1>16 DEF HitOffset, At
<1>17. CASE MapPack
  <2>1. /\ stack # <<>> /\ ret = None /\ Top.step = "offset" /\ GoTo("read")
        /\ mapped \subseteq mapped' /\ ret' = ret /\ answer' = answer
    BY <1>17 DEF MapPack, At, GoTo
  <2>2. Top'.step = "read" /\ Top'.key = Top.key /\ Top'.depth = Top.depth
    BY <2>1, GoToShape DEF Steps, CallsInv
  <2>3. ASSUME due
        PROVE  Top.key \in Reachable'[M - Top.depth]
    BY <1>3, <2>1, <2>3, TopWithinReach
  <2>4. WithinReach'
    BY <1>1, <2>2, <2>3 DEF WithinReach
  <2> QED BY <1>8, <2>1, <2>4
<1>18. CASE MapFails
  <2>1. stack # <<>> /\ ret = None /\ Top.step = "offset" /\ ~HasPack(Top.key[1]) /\ Fail
    BY <1>18 DEF MapFails, At
  <2>2. ASSUME due
        PROVE  FALSE
    <3>1. M - Top.depth \in 0..M /\ Top.key \in Reachable[M - Top.depth] /\ Top.key \in Slots
      BY <2>1, <2>2, TopWithinReach, TopFacts DEF ForSlot
    <3>2. Top.key[1] \in mapped \cup present
      BY <3>1, Reaches DEF ReachRule
    <3> QED BY <2>1, <3>2 DEF HasPack
  <2> QED BY <1>7, <2>1, <2>2
<1>19. CASE ReadFull
  <2>1. stack # <<>> /\ Top.step = "read" /\ repo.slots[Top.key].form = "full"
        /\ Return(repo.slots[Top.key].object)
    BY <1>19 DEF ReadFull, At
  <2>2. repo.slots[Top.key].object \in Contents
    BY <2>1, TopFacts, SlotFacts DEF ForSlot, Contents, OthersInv
  <2> QED BY <1>5, <1>6, <2>1, <2>2
<1>20. CASE ReadDelta
  <2>1. /\ stack # <<>> /\ ret = None /\ Top.step = "read" /\ IsDelta(Top.key) /\ ret' = ret
        /\ InDepth(NextDepth(Top.key, Top.depth))
        /\ Await("base", BaseKey(Top.key), NextDepth(Top.key, Top.depth))
        /\ mapped' = mapped
    BY <1>20 DEF ReadDelta, At
  <2>2. Top.key \in Slots /\ Top.depth \in 0..M
    BY <2>1, TopFacts DEF ForSlot
  <2>3. BaseKey(Top.key) \in Ids \cup Slots
    BY <2>1, <2>2, SlotFacts DEF OthersInv
  <2>4. NextDepth(Top.key, Top.depth) = Top.depth + 1 /\ Top.depth + 1 \in 0..M
    BY <2>1, <2>2, BoundsAssumption DEF InDepth, NextDepth, BoundsAssumption
  <2>5. Top' = Call(BaseKey(Top.key), Top.depth + 1) /\ answer' = answer
    BY <2>1, <2>3, <2>4, AwaitShape DEF Steps, CallsInv, Await
  <2>6. Top'.key = BaseKey(Top.key) /\ Top'.depth = Top.depth + 1 /\ Top'.step \in {"object", "offset"}
    BY <2>5 DEF Call
  <2>7. ASSUME due
        PROVE  BaseKey(Top.key) \in Reachable'[M - (Top.depth + 1)]
    <3>1. M - Top.depth \in 0..M /\ Top.key \in Reachable[M - Top.depth]
      BY <2>1, <2>7, TopWithinReach
    <3>2. repo.slots[Top.key].form # "full"
      BY <2>1 DEF IsDelta
    <3>3. BaseKey(Top.key) \in Reachable[(M - Top.depth) - 1]
      BY <2>2, <3>1, <3>2, Reaches DEF ReachRule
    <3>4. (M - Top.depth) - 1 = M - (Top.depth + 1) /\ M - (Top.depth + 1) \in 0..M
      BY <2>2, <2>4, BoundsAssumption DEF BoundsAssumption
    <3> QED BY <1>3, <2>1, <3>3, <3>4
  <2>8. WithinReach'
    BY <1>1, <2>6, <2>7 DEF WithinReach
  <2> QED BY <1>8, <2>1, <2>5, <2>8
<1>21. CASE ReadFails
  <2>1. /\ stack # <<>> /\ ret = None /\ Top.step = "read" /\ Fail
        /\ \/ repo.slots[Top.key].form = "broken"
           \/ IsDelta(Top.key) /\ ~InDepth(NextDepth(Top.key, Top.depth))
    BY <1>21 DEF ReadFails, At
  <2>2. ASSUME due
        PROVE  FALSE
    <3>1. /\ M - Top.depth \in 0..M /\ Top.key \in Reachable[M - Top.depth]
          /\ Top.key \in Slots /\ Top.depth \in 0..M
      BY <2>1, <2>2, TopWithinReach, TopFacts DEF ForSlot
    <3>2. \/ repo.slots[Top.key].form = "full"
          \/ IsDelta(Top.key) /\ M - Top.depth > 0
      BY <3>1, Reaches DEF ReachRule
    <3>3. IsDelta(Top.key) /\ M - Top.depth > 0 /\ ~InDepth(Top.depth + 1)
      BY <2>1, <3>2 DEF IsDelta, NextDepth
    <3> QED BY <3>1, <3>3, BoundsAssumption DEF InDepth, BoundsAssumption
  <2> QED BY <1>7, <2>1, <2>2
<1>22. CASE ApplyDelta
  <2>1. stack # <<>> /\ ret # None /\ Top.step = "base" /\ Return(ApplyPackDelta(Top.key, ret))
    BY <1>22 DEF ApplyDelta, BackIn
  <2>2. PICK key \in Ids \cup Slots : Awaits(Top, key)
    BY <2>1 DEF CallsInv, CallsLinked
  <2>3. ApplyPackDelta(Top.key, ret) \in Contents
    BY <2>1, <2>2, TopFacts, SlotFacts DEF ForSlot, Contents, OthersInv, Awaits, ApplyPackDelta
  <2> QED BY <1>5, <1>6, <2>1, <2>3
<1>23. CASE Finish \/ WrongKind
  <2>1. /\ Returned /\ stack' = stack
        /\ \/ answer' = ret
           \/ Kind[ret] # KindFor(ask.op)
    BY <1>23 DEF Finish, WrongKind
  <2>2. stack = <<>> /\ ret = ask.id /\ ret \in Contents
    BY <2>1 DEF Returned, CallsInv, CallsLinked
  <2>3. Failed \notin Contents
    BY ContentAssumption DEF ContentAssumption
  <2> QED BY <1>1, <2>1, <2>2, <2>3 DEF WithinReach, ReadableIsFound
<1> QED
  BY <1>9, <1>10, <1>11, <1>12, <1>13, <1>14, <1>15, <1>16, <1>17, <1>18, <1>19, <1>20,
     <1>21, <1>22, <1>23 DEF Read, ReadStep

(* Asking, forking and the other processes keep it: what is deleted ends   *)
(* what was due.                                                           *)
LEMMA OthersKeepReach ==
  ASSUME CallsInv, CachesInv, OthersInv, WithinReach, ReadableIsFound,
         \/ \E op \in Ops, id \in Ids : AskRemembered(op, id) \/ AskObject(op, id)
         \/ Fork
         \/ \E pack \in Packs : DeletePack(pack)
         \/ \E id \in Ids : DeleteLoose(id) \/ WriteLoose(id)
  PROVE  WithinReach' /\ ReadableIsFound'
<1> DEFINE M == MaxDeltaDepth
<1>0. M \in Nat
  BY BoundsAssumption DEF BoundsAssumption
<1>1. ASSUME NEW op \in Ops, NEW id \in Ids, AskRemembered(op, id) \/ AskObject(op, id)
      PROVE  WithinReach' /\ ReadableIsFound'
  <2>1. /\ Idle /\ ret' = ret /\ UNCHANGED <<repo, loose, present, changes, mapped, caches>>
        /\ due' = (id \in Reachable[M])
    BY <1>1 DEF AskRemembered, AskObject, Ask, disk
  <2>2. stack = <<>> /\ ret = None
    BY <2>1 DEF Idle, CallsInv, CallsLinked
  <2>3. CASE AskRemembered(op, id)
    <3>1. stack' = <<>> /\ answer' = Remembered(op, id) /\ Remembered(op, id) # None
      BY <2>2, <2>3 DEF AskRemembered
    <3>2. answer' # Failed
      BY <3>1, ContentOfId, ContentAssumption DEF Remembered, CachesInv, ContentAssumption
    <3> QED BY <3>1, <3>2 DEF WithinReach, ReadableIsFound
  <2>4. CASE AskObject(op, id)
    <3>1. stack' = <<Call(id, 0)>> /\ answer' = None
      BY <2>4 DEF AskObject
    <3>2. Top' = Call(id, 0)
      BY <3>1 DEF Top
    <3>3. id \notin Slots
      BY ContentAssumption DEF ContentAssumption
    <3>4. Top'.step = "object" /\ Top'.key = id /\ Top'.depth = 0
      BY <3>2, <3>3 DEF Call
    <3>5. M - 0 = M /\ M \in 0..M
      BY <1>0
    <3>6. Reachable[M] \subseteq Reachable'[M]
      BY <2>1, <3>5, ReachableGrows
    <3>7. WithinReach'
      BY <2>1, <3>4, <3>5, <3>6 DEF WithinReach
    <3> QED BY <3>1, <3>7, ContentAssumption DEF ContentAssumption, ReadableIsFound
  <2> QED BY <1>1, <2>3, <2>4
<1>2. CASE Fork
  <2>1. Idle /\ UNCHANGED <<stack, answer, due, ask>>
    BY <1>2 DEF Fork, request
  <2>2. stack = <<>>
    BY <2>1 DEF Idle, CallsInv, CallsLinked
  <2> QED BY <2>1, <2>2 DEF WithinReach, ReadableIsFound
<1>3. CASE (\E pack \in Packs : DeletePack(pack)) \/ (\E id \in Ids : DeleteLoose(id))
  <2>1. ~due'
    BY <1>3 DEF DeletePack, DeleteLoose
  <2> QED BY <2>1 DEF WithinReach, ReadableIsFound
<1>4. ASSUME NEW id \in Ids, WriteLoose(id)
      PROVE  WithinReach' /\ ReadableIsFound'
  <2>1. /\ UNCHANGED <<repo, present, mapped, stack, ret, ask, answer>>
        /\ loose' = loose \cup {id} /\ due' = (due /\ id \notin repo.corrupt)
    BY <1>4 DEF WriteLoose
  <2>2. \A i, slot : IsPackOffset(i, slot)' <=> IsPackOffset(i, slot)
    BY <2>1, LookupsUnchanged
  <2>3. Top' = Top
    BY <2>1 DEF Top
  <2>4. ASSUME due', stack # <<>>, ret = None
        PROVE  WithinReach'
    <3>1. due /\ M - Top.depth \in 0..M
      BY <2>1, <2>4, TopWithinReach
    <3>2. \A n \in 0..M : Reachable[n] \subseteq Reachable'[n]
      BY <2>1, <2>4, ReachableGrows
    <3>3. Reachable[M - Top.depth] \subseteq Reachable'[M - Top.depth]
      BY <3>1, <3>2
    <3> QED BY <2>1, <2>2, <2>3, <2>4, <3>1, <3>3, TopWithinReach DEF WithinReach
  <2>5. ReadableIsFound'
    BY <2>1 DEF ReadableIsFound
  <2> QED BY <2>1, <2>4, <2>5 DEF WithinReach
<1> QED BY <1>1, <1>2, <1>3, <1>4

-----------------------------------------------------------------------------
(* As long as no file changes, nothing is put into a cache twice.          *)
LEMMA AwaitsOne ==
  ASSUME NEW frame, NEW other, frame.key = other.key,
         frame.step \in ForId => frame.key \in Ids,
         frame.step \in ForSlot => frame.key \in Slots,
         other.step \in ForId => other.key \in Ids,
         other.step \in ForSlot => other.key \in Slots,
         NEW key, NEW second, Awaits(frame, key), Awaits(other, second)
  PROVE  key = second
<1>1. Ids \cap Slots = {}
  BY ContentAssumption DEF ContentAssumption
<1> QED BY <1>1 DEF Awaits, IsPackOffset, ForId, ForSlot

(* A call that is not the innermost has got as far as it comes without it. *)
LEMMA CallersWait ==
  ASSUME CallsInv, NEW i \in 1..Len(stack), i < Len(stack)
  PROVE  /\ Awaits(stack[i], stack[i + 1].key)
         /\ stack[i].key \in Ids => stack[i].step = "packed"
         /\ stack[i].key \in Slots => stack[i].step = "base" /\ IsDelta(stack[i].key)
<1>1. i \in DOMAIN stack
  BY DEF CallsInv
<1>2. /\ Awaits(stack[i], stack[i + 1].key)
      /\ stack[i].step \in ForId => stack[i].key \in Ids
      /\ stack[i].step \in ForSlot => stack[i].key \in Slots
  BY <1>1 DEF CallsInv, CallsLinked
<1>3. Ids \cap Slots = {}
  BY ContentAssumption DEF ContentAssumption
<1> QED BY <1>2, <1>3 DEF Awaits, ForId, ForSlot

LEMMA CachedUnchanged ==
  ASSUME UNCHANGED <<repo, loose, objects, offsets>>
  PROVE  \A step, key : NotYetCached(step, key)' <=> NotYetCached(step, key)
BY DEF NotYetCached, IsLooseFile

LEMMA GoToOnce ==
  ASSUME CallsInv, CallsDiffer, stack # <<>>, ret = None, NEW step \in Steps, GoTo(step),
         NotYetCached(step, Top.key), UNCHANGED <<repo, loose, objects, offsets>>
  PROVE  CallsDiffer'
<1> DEFINE n == Len(stack)
<1>1. n \in Nat /\ n >= 1
  BY StackFacts DEF CallsInv
<1>2. /\ Len(stack') = n /\ DOMAIN stack' = 1..n /\ DOMAIN stack = 1..n
      /\ \A i \in 1..n : stack'[i].key = stack[i].key /\ (i < n => stack'[i] = stack[i])
      /\ stack'[n].step = step /\ ret' = None
  BY GoToShape, StackFacts DEF CallsInv, GoTo
<1>3. \A i \in 1..n : NotYetCached(stack'[i].step, stack'[i].key)
  <2>1. \A i \in 1..n : i = n \/ i < n
    BY <1>1
  <2>2. NotYetCached(stack'[n].step, stack'[n].key)
    BY <1>1, <1>2 DEF Top
  <2>3. \A i \in 1..n : NotYetCached(stack[i].step, stack[i].key)
    BY <1>2 DEF CallsDiffer
  <2> QED BY <1>2, <2>1, <2>2, <2>3
<1>4. \A i \in 1..n : NotYetCached(stack[i].step, stack[i].key)'
  BY <1>3, CachedUnchanged
<1>5. \A i \in 1..n : Repeats(i)' <=> Repeats(i)
  <2>1. \A i \in 1..n : \A j \in 1..(i - 1) : j \in 1..n
    BY <1>1
  <2> QED BY <1>2, <2>1 DEF Repeats
<1>6. Repeats(n) => Repeats(Len(stack))'
  <2>1. n \in 1..n
    BY <1>1
  <2> QED BY <1>2, <1>5, <2>1 DEF Repeats
<1> QED BY <1>2, <1>4, <1>5, <1>6 DEF CallsDiffer

(* A call for the key of one further out waits for what that one waits for. *)
LEMMA AwaitOnce ==
  ASSUME CallsInv, CallsDiffer, stack # <<>>, ret = None,
         NEW step \in Waiting, NEW key \in Ids \cup Slots, NEW depth \in 0..MaxDeltaDepth,
         step \in ForId => Top.step \in ForId, step \in ForSlot => Top.step \in ForSlot,
         \A frame : frame.step = step /\ frame.key = Top.key => Awaits(frame, key),
         NotYetCached(step, Top.key),
         Await(step, key, depth), UNCHANGED <<repo, loose, objects, offsets, ret>>
  PROVE  CallsDiffer'
<1>0. PICK n : n = Len(stack)
  OBVIOUS
<1>1. n \in Nat /\ n >= 1 /\ n \in 1..n
  BY <1>0, StackFacts DEF CallsInv
<1>2. step \in Steps
  BY DEF Waiting, Steps
<1>3. /\ Len(stack') = n + 1 /\ DOMAIN stack' = 1..(n + 1) /\ DOMAIN stack = 1..n
      /\ \A i \in 1..n : stack'[i].key = stack[i].key /\ (i < n => stack'[i] = stack[i])
      /\ stack'[n].step = step /\ stack'[n + 1] = Call(key, depth)
  BY <1>0, <1>2, AwaitShape, StackFacts DEF CallsInv
<1>4. stack'[n + 1].key = key /\ stack'[n + 1].step \in {"object", "offset"}
  BY <1>3 DEF Call
<1>5. \A i \in 1..(n + 1) : i \in 1..n \/ i = n + 1
  BY <1>1
<1>6. \A i \in 1..(n + 1) : NotYetCached(stack'[i].step, stack'[i].key)
  <2>1. \A i \in 1..n : i = n \/ i < n
    BY <1>1
  <2>2. NotYetCached(stack'[n].step, stack'[n].key)
    BY <1>0, <1>1, <1>3 DEF Top
  <2>3. \A i \in 1..n : NotYetCached(stack[i].step, stack[i].key)
    BY <1>3 DEF CallsDiffer
  <2>4. NotYetCached(stack'[n + 1].step, stack'[n + 1].key)
    BY <1>4 DEF NotYetCached
  <2> QED BY <1>3, <1>5, <2>1, <2>2, <2>3, <2>4
<1>7. \A i \in 1..(n + 1) : NotYetCached(stack[i].step, stack[i].key)'
  BY <1>6, CachedUnchanged
<1>8. \A i \in 1..n : Repeats(i)' <=> Repeats(i)
  <2>1. \A i \in 1..n : \A j \in 1..(i - 1) : j \in 1..n
    BY <1>1
  <2> QED BY <1>3, <2>1 DEF Repeats
<1>9. ASSUME Repeats(n)
      PROVE  Repeats(n + 1)'
  <2>1. PICK j \in 1..(n - 1) : stack[j].key = stack[n].key
    BY <1>9 DEF Repeats
  <2>2. j \in 1..n /\ j < n /\ j + 1 \in 1..n
    BY <1>1, <2>1
  <2>3. Awaits(stack[j], stack[j + 1].key)
    BY <1>0, <2>2, CallersWait
  <2> DEFINE frame == [key |-> Top.key, step |-> step]
  <2>4. Awaits(frame, key) /\ frame.key = stack[j].key /\ frame.step = step
    BY <1>0, <2>1 DEF Top
  <2>5. /\ stack[j].step \in ForId => stack[j].key \in Ids
        /\ stack[j].step \in ForSlot => stack[j].key \in Slots
    BY <1>3, <2>2 DEF CallsInv, CallsLinked
  <2>6. /\ frame.step \in ForId => frame.key \in Ids
        /\ frame.step \in ForSlot => frame.key \in Slots
    BY TopFacts
  <2> HIDE DEF frame
  <2>7. stack[j + 1].key = key
    BY <2>3, <2>4, <2>5, <2>6, AwaitsOne
  <2>8. stack'[j + 1].key = stack'[n + 1].key /\ j + 1 \in 1..((n + 1) - 1)
    <3>1. (n + 1) - 1 = n
      BY <1>1
    <3>2. stack'[j + 1].key = key
      BY <1>3, <2>2, <2>7
    <3> QED BY <1>4, <2>2, <3>1, <3>2
  <2> QED BY <2>8 DEF Repeats
<1>10. Repeats(n + 1)' => Repeats(Len(stack))'
  BY <1>3 DEF Repeats
<1>11. ret' = None
  OBVIOUS
<1>12. CASE Repeats(n)
  BY <1>3, <1>7, <1>9, <1>10, <1>11, <1>12 DEF CallsDiffer
<1>13. CASE ~Repeats(n)
  <2>1. \A i \in 1..n : ~Repeats(i)
    BY <1>0, <1>3, <1>13 DEF CallsDiffer
  <2>2. (\A i \in 1..(n + 1) : ~Repeats(i)') \/ Repeats(n + 1)'
    BY <1>5, <1>8, <2>1
  <2> QED BY <1>3, <1>7, <1>10, <1>11, <2>2 DEF CallsDiffer
<1> QED BY <1>12, <1>13

(* What a call that is for no one else's key inserts, no other waits for.  *)
LEMMA ReturnOnce ==
  ASSUME CallsInv, CallsDiffer, stack # <<>>, ret = None => ~Repeats(Len(stack)),
         NEW content, Return(content), UNCHANGED <<repo, loose>>,
         \A i \in Ids : i = Top.key \/ objects'.held[i] \in {objects.held[i], None},
         \A s \in Slots : s = Top.key \/ offsets'.held[s] \in {offsets.held[s], None}
  PROVE  CallsDiffer'
<1>0. PICK n : n = Len(stack)
  OBVIOUS
<1>1. n \in Nat /\ n >= 1 /\ n \in 1..n
  BY <1>0, StackFacts DEF CallsInv
<1>2. /\ Len(stack') = n - 1 /\ DOMAIN stack' = 1..(n - 1) /\ DOMAIN stack = 1..n
      /\ \A i \in 1..(n - 1) : stack'[i] = stack[i]
  BY <1>0, ReturnShape, StackFacts DEF CallsInv
<1>3. \A i \in 1..(n - 1) : i \in 1..n /\ i < n
  BY <1>1
<1>4. \A i \in 1..n : ~Repeats(i)
  BY <1>0, <1>2 DEF CallsDiffer
<1>5. \A i \in 1..(n - 1) : stack[i].key # Top.key
  BY <1>0, <1>1, <1>4 DEF Repeats, Top
<1>6. ASSUME NEW i \in 1..(n - 1)
      PROVE  NotYetCached(stack[i].step, stack[i].key)'
  <2>1. /\ NotYetCached(stack[i].step, stack[i].key) /\ stack[i].key # Top.key
        /\ stack[i].step \in ForId => stack[i].key \in Ids
        /\ stack[i].step \in ForSlot => stack[i].key \in Slots
        /\ stack'[i] = stack[i]
    BY <1>2, <1>3, <1>5 DEF CallsDiffer, CallsInv, CallsLinked
  <2> DEFINE key == stack[i].key
             step == stack[i].step
  <2>2. /\ step \in {"loose", "index", "packed"} => objects'.held[key] = None
        /\ step \in {"read", "base"} => offsets'.held[key] = None
        /\ step = "loose" => IsLooseFile(key)
        /\ step \in {"index", "packed"} => ~IsLooseFile(key)
    BY <2>1 DEF NotYetCached, ForId, ForSlot
  <2> QED BY <2>1, <2>2 DEF NotYetCached, IsLooseFile
<1>7. \A i \in 1..(n - 1) : Repeats(i)' <=> Repeats(i)
  <2>1. \A i \in 1..(n - 1) : \A j \in 1..(i - 1) : j \in 1..(n - 1)
    BY <1>1
  <2> QED BY <1>2, <2>1 DEF Repeats
<1> QED BY <1>2, <1>3, <1>4, <1>6, <1>7 DEF CallsDiffer

(* The part of the invariant that counts what the caches hold.             *)
BoundsInv ==
  /\ FitsIn(objects, MaxObjects, MaxObjectBytes)
  /\ FitsIn(offsets, MaxObjects, MaxObjectBytes)
  /\ FitsIn(trees, MaxTrees, MaxTreeBytes)
  /\ IsFiniteSet({i \in Ids : commits[i] # None})
  /\ Cardinality({i \in Ids : commits[i] # None}) <= MaxCommits
  /\ changes = 0 => /\ Total(objects) = objects.bytes
                    /\ Total(offsets) = offsets.bytes
                    /\ Total(trees) = trees.bytes

LEMMA BoundsParts ==
  ASSUME CachesInv
  PROVE  BoundsInv <=> CachesBounded /\ CountsFit
<1>1. ASSUME NEW Keys, NEW cache \in Cache(Keys), NEW maxEntries \in Nat, NEW maxBytes \in Nat
      PROVE  /\ FitsIn(cache, maxEntries, maxBytes) /\ (changes = 0 => Total(cache) = cache.bytes)
             <=> /\ WithinBounds(cache, maxEntries, maxBytes)
                 /\ IsFiniteSet(Held(cache))
                 /\ cache.bytes <= maxBytes \/ Cardinality(Held(cache)) = 1
  <2>1. ASSUME IsFiniteSet(Held(cache)), Total(cache) <= cache.bytes, cache.bytes <= maxBytes
        PROVE  Total(cache) <= maxBytes
    <3>1. Total(cache) \in Nat /\ cache.bytes \in Nat
      BY <2>1, TotalFacts DEF Cache
    <3> QED BY <2>1, <3>1
  <2> QED BY <2>1 DEF FitsIn, WithinBounds
<1> QED BY <1>1, BoundsAssumption DEF BoundsAssumption, CachesInv, BoundsInv, CachesBounded, CountsFit

LEMMA BoundsUnchanged ==
  ASSUME BoundsInv, UNCHANGED caches, changes' = 0 => changes = 0
  PROVE  BoundsInv'
<1>1. UNCHANGED <<objects, offsets, trees, commits>>
  BY DEF caches
<1> QED BY <1>1 DEF BoundsInv, FitsIn

LEMMA CacheObjectFits ==
  ASSUME CachesInv, BoundsInv, NEW id \in Ids, CacheObject(id, id),
         changes = 0 => objects.held[id] = None,
         UNCHANGED <<offsets, trees, commits, changes>>
  PROVE  BoundsInv'
<1>1. objects' = Insert(objects, id, id, MaxObjects, MaxObjectBytes)
  BY DEF CacheObject
<1>2. /\ objects \in Cache(Ids) /\ id \in Contents /\ objects.held[id] \in {None, id}
      /\ FitsIn(objects, MaxObjects, MaxObjectBytes)
  BY ContentOfId DEF CachesInv, BoundsInv
<1>3. MaxObjects \in Nat \ {0} /\ MaxObjectBytes \in Nat
  BY BoundsAssumption DEF BoundsAssumption
<1>4. /\ FitsIn(objects', MaxObjects, MaxObjectBytes)
      /\ objects.held[id] = None /\ Total(objects) = objects.bytes => Total(objects') = objects'.bytes
  BY <1>1, <1>2, <1>3, InsertFits
<1> QED BY <1>4 DEF BoundsInv, FitsIn

LEMMA CacheOffsetFits ==
  ASSUME CachesInv, BoundsInv, NEW slot \in Slots, NEW content \in Contents,
         content = ContentOf(slot), CacheOffset(slot, content),
         changes = 0 => offsets.held[slot] = None,
         UNCHANGED <<objects, trees, commits, changes>>
  PROVE  BoundsInv'
<1>1. offsets' = Insert(offsets, slot, content, MaxObjects, MaxObjectBytes)
  BY DEF CacheOffset
<1>2. /\ offsets \in Cache(Slots) /\ offsets.held[slot] \in {None, content}
      /\ FitsIn(offsets, MaxObjects, MaxObjectBytes)
  BY DEF CachesInv, BoundsInv
<1>3. MaxObjects \in Nat \ {0} /\ MaxObjectBytes \in Nat
  BY BoundsAssumption DEF BoundsAssumption
<1>4. /\ FitsIn(offsets', MaxObjects, MaxObjectBytes)
      /\ offsets.held[slot] = None /\ Total(offsets) = offsets.bytes => Total(offsets') = offsets'.bytes
  BY <1>1, <1>2, <1>3, InsertFits
<1> QED BY <1>4 DEF BoundsInv, FitsIn

LEMMA CacheTreeFits ==
  ASSUME CachesInv, BoundsInv, NEW id \in Ids, CacheTree(id, id),
         trees.held[id] = None, UNCHANGED <<objects, offsets, commits, changes>>
  PROVE  BoundsInv'
<1>1. trees' = Insert(trees, id, id, MaxTrees, MaxTreeBytes)
  BY DEF CacheTree
<1>2. /\ trees \in Cache(Ids) /\ id \in Contents
      /\ FitsIn(trees, MaxTrees, MaxTreeBytes)
  BY ContentOfId DEF CachesInv, BoundsInv
<1>3. MaxTrees \in Nat \ {0} /\ MaxTreeBytes \in Nat
  BY BoundsAssumption DEF BoundsAssumption
<1>4. /\ FitsIn(trees', MaxTrees, MaxTreeBytes)
      /\ trees.held[id] = None /\ Total(trees) = trees.bytes => Total(trees') = trees'.bytes
  BY <1>1, <1>2, <1>3, InsertFits
<1> QED BY <1>4 DEF BoundsInv, FitsIn

LEMMA CacheCommitFits ==
  ASSUME CachesInv, BoundsInv, NEW id \in Ids, CacheCommit(id, id),
         UNCHANGED <<objects, offsets, trees, changes>>
  PROVE  BoundsInv'
<1> DEFINE Cached(c) == {i \in Ids : c[i] # None}
           full == Cardinality(Cached(commits)) >= MaxCommits
           kept == IF full THEN [i \in Ids |-> None] ELSE commits
<1>1. commits' = [kept EXCEPT ![id] = id]
  BY DEF CacheCommit
<1>2. MaxCommits \in Nat \ {0}
  BY BoundsAssumption DEF BoundsAssumption
<1>3. /\ kept \in [Ids -> Contents \cup {None}] /\ IsFiniteSet(Cached(kept))
      /\ Cardinality(Cached(kept)) \in Nat /\ Cardinality(Cached(kept)) < MaxCommits
  <2>1. CASE full
    <3>1. kept = [i \in Ids |-> None]
      BY <2>1
    <3>2. Cached(kept) = {} /\ kept \in [Ids -> Contents \cup {None}]
      BY <3>1
    <3> HIDE DEF kept
    <3> QED BY <1>2, <3>2, FS_EmptySet
  <2>2. CASE ~full
    <3>1. kept = commits
      BY <2>2
    <3>2. IsFiniteSet(Cached(commits)) /\ Cardinality(Cached(commits)) \in Nat
      BY FS_CardinalityType DEF BoundsInv
    <3> QED BY <1>2, <2>2, <3>1, <3>2 DEF CachesInv
  <2> QED BY <2>1, <2>2
<1> HIDE DEF kept
<1>4. id # None
  BY ContentOfId
<1>5. Cached(commits') = Cached(kept) \cup {id}
  BY <1>1, <1>3, <1>4
<1> HIDE DEF Cached
<1>6. IsFiniteSet(Cached(commits')) /\ Cardinality(Cached(commits')) <= MaxCommits
  <2>1. /\ IsFiniteSet(Cached(commits'))
        /\ Cardinality(Cached(commits')) \in {Cardinality(Cached(kept)), Cardinality(Cached(kept)) + 1}
    BY <1>3, <1>5, FS_AddElement
  <2> QED BY <1>2, <1>3, <2>1
<1> QED BY <1>6 DEF BoundsInv, FitsIn, Cached

(* Every step of a read keeps the caches within their bounds and the calls *)
(* under way different.                                                    *)
LEMMA ReadKeepsBounds ==
  ASSUME CallsInv, CachesInv, OthersInv, BoundsInv, InsertedOnce, Read
  PROVE  BoundsInv' /\ InsertedOnce'
<1>1. /\ UNCHANGED <<repo, disk, request>>
      /\ UNCHANGED <<repo, loose, present, changes, ask, due, asked>>
  BY DEF Read, disk, request
<1>2. CallsInv /\ stack \in Seq(Frame) /\ repo \in Repositories
  BY DEF CallsInv, OthersInv
<1>3. Ids \cap Slots = {} /\ None # Failed /\ None # NotTree
  BY ContentAssumption DEF ContentAssumption
<1>4. ASSUME UNCHANGED caches
      PROVE  BoundsInv' /\ UNCHANGED <<objects, offsets, trees, commits>>
  BY <1>1, <1>4, BoundsUnchanged DEF caches
<1>5. ASSUME changes = 0 => CallsDiffer', answer' = answer, trees' = trees
      PROVE  InsertedOnce'
  BY <1>1, <1>5 DEF InsertedOnce
<1>6. ASSUME answer' # None, stack' = <<>>
      PROVE  InsertedOnce'
  BY <1>6 DEF InsertedOnce, CallsDiffer
<1>7. ASSUME Fail
      PROVE  BoundsInv' /\ InsertedOnce'
  BY <1>3, <1>4, <1>6, <1>7 DEF Fail
<1>8. ASSUME stack # <<>>, changes = 0
      PROVE  /\ CallsDiffer /\ NotYetCached(Top.step, Top.key)
             /\ Repeats(Len(stack)) =>
                  /\ ret = None
                  /\ Top.key \in Ids => objects.held[Top.key] = None /\ ~IsLooseFile(Top.key)
                  /\ Top.key \in Slots => offsets.held[Top.key] = None /\ IsDelta(Top.key)
  <2>1. CallsDiffer
    BY <1>8 DEF InsertedOnce
  <2>2. Len(stack) \in Nat /\ Len(stack) >= 1 /\ DOMAIN stack = 1..Len(stack)
    BY <1>2, <1>8, StackFacts
  <2>3. NotYetCached(Top.step, Top.key)
    BY <2>1, <2>2 DEF CallsDiffer, Top
  <2>4. ASSUME Repeats(Len(stack))
        PROVE  /\ ret = None
               /\ Top.key \in Ids => objects.held[Top.key] = None /\ ~IsLooseFile(Top.key)
               /\ Top.key \in Slots => offsets.held[Top.key] = None /\ IsDelta(Top.key)
    <3>1. PICK j \in 1..(Len(stack) - 1) : stack[j].key = Top.key
      BY <2>4 DEF Repeats, Top
    <3>2. j \in 1..Len(stack) /\ j < Len(stack) /\ Len(stack) \in DOMAIN stack
      BY <2>2, <3>1
    <3>3. /\ NotYetCached(stack[j].step, stack[j].key)
          /\ stack[j].key \in Ids => stack[j].step = "packed"
          /\ stack[j].key \in Slots => stack[j].step = "base" /\ IsDelta(stack[j].key)
      BY <2>1, <2>2, <3>2, CallersWait DEF CallsDiffer
    <3>4. ret = None
      BY <2>1, <2>4, <3>2, <1>8 DEF CallsDiffer
    <3> QED BY <3>1, <3>3, <3>4 DEF NotYetCached
  <2> QED BY <2>1, <2>3, <2>4
<1>9. CASE HitObject
  <2>1. /\ stack # <<>> /\ ret = None /\ Top.step = "object" /\ objects.held[Top.key] # None
        /\ Return(objects.held[Top.key]) /\ UNCHANGED caches /\ answer' = answer
    BY <1>9 DEF HitObject, At, Return
  <2>2. UNCHANGED <<objects, offsets, trees>>
    BY <1>4, <2>1
  <2>3. ASSUME changes = 0
        PROVE  CallsDiffer'
    <3>1. CallsDiffer /\ ~Repeats(Len(stack))
      BY <1>8, <2>1, <2>3, TopFacts DEF ForId
    <3> QED BY <1>1, <1>2, <2>1, <2>2, <3>1, ReturnOnce
  <2> QED BY <1>4, <1>5, <2>1, <2>2, <2>3
<1>10. CASE LookForFile
  <2>1. /\ stack # <<>> /\ ret = None /\ Top.step = "object" /\ objects.held[Top.key] = None
        /\ GoTo(IF IsLooseFile(Top.key) THEN "loose" ELSE "index")
        /\ UNCHANGED caches /\ answer' = answer
    BY <1>10 DEF LookForFile, At, GoTo
  <2>2. UNCHANGED <<objects, offsets, trees>>
    BY <1>4, <2>1
  <2> DEFINE step == IF IsLooseFile(Top.key) THEN "loose" ELSE "index"
  <2>3. step \in Steps /\ NotYetCached(step, Top.key)
    BY <2>1 DEF Steps, NotYetCached
  <2>4. GoTo(step)
    BY <2>1
  <2> HIDE DEF step
  <2>5. ASSUME changes = 0
        PROVE  CallsDiffer'
    BY <1>1, <1>2, <1>8, <2>1, <2>2, <2>3, <2>4, <2>5, GoToOnce
  <2> QED BY <1>4, <1>5, <2>1, <2>2, <2>5
<1>11. CASE ReadLoose
  <2>1. /\ stack # <<>> /\ ret = None /\ Top.step = "loose" /\ CacheObject(Top.key, Top.key)
        /\ Return(Top.key) /\ UNCHANGED <<offsets, trees, commits>> /\ answer' = answer
    BY <1>11 DEF ReadLoose, At, Return
  <2>2. Top.key \in Ids /\ Top.key \in Contents
    BY <2>1, TopFacts DEF ForId, Contents
  <2>3. changes = 0 => objects.held[Top.key] = None /\ IsLooseFile(Top.key)
    BY <1>8, <2>1 DEF NotYetCached
  <2>4. BoundsInv'
    BY <1>1, <2>1, <2>2, <2>3, CacheObjectFits
  <2>5. \A i \in Ids \ {Top.key} : objects'.held[i] \in {objects.held[i], None}
    BY <2>1, <2>2, InsertFacts DEF CacheObject, CachesInv
  <2>6. ASSUME changes = 0
        PROVE  CallsDiffer'
    <3>1. CallsDiffer /\ ~Repeats(Len(stack))
      BY <1>8, <2>1, <2>2, <2>3, <2>6
    <3> QED BY <1>1, <1>2, <2>1, <2>5, <3>1, ReturnOnce
  <2> QED BY <1>5, <2>1, <2>4, <2>6
<1>12. CASE LooseFails \/ NotFound \/ MapFails \/ ReadFails
  BY <1>7, <1>12 DEF LooseFails, NotFound, MapFails, ReadFails
<1>13. CASE GoToPack
  <2>1. /\ stack # <<>> /\ ret = None /\ Top.step = "index" /\ ret' = ret /\ UNCHANGED caches
    BY <1>13 DEF GoToPack, At
  <2>2. PICK slot \in Slots : IsPackOffset(Top.key, slot) /\ Await("packed", slot, Top.depth)
    BY <1>13 DEF GoToPack
  <2>3. UNCHANGED <<objects, offsets, trees>> /\ answer' = answer
    BY <1>4, <2>1, <2>2 DEF Await
  <2>4. ASSUME changes = 0
        PROVE  CallsDiffer'
    <3>1. CallsDiffer /\ NotYetCached("packed", Top.key)
      BY <1>8, <2>1, <2>4 DEF NotYetCached
    <3>2. /\ "packed" \in Waiting /\ Top.step \in ForId /\ "packed" \notin ForSlot
          /\ Top.depth \in 0..MaxDeltaDepth /\ slot \in Ids \cup Slots
      BY <2>1, TopFacts DEF Waiting, ForId, ForSlot
    <3>3. \A frame : frame.step = "packed" /\ frame.key = Top.key => Awaits(frame, slot)
      BY <2>2 DEF Awaits
    <3> QED BY <1>1, <1>2, <2>1, <2>2, <2>3, <3>1, <3>2, <3>3, AwaitOnce
  <2> QED BY <1>4, <1>5, <2>1, <2>3, <2>4
<1>14. CASE TakePacked
  <2>1. /\ stack # <<>> /\ ret # None /\ Top.step = "packed" /\ CacheObject(Top.key, ret)
        /\ Return(ret) /\ UNCHANGED <<offsets, trees, commits>> /\ answer' = answer
    BY <1>14 DEF TakePacked, BackIn, Return
  <2>2. Top.key \in Ids /\ Top.key \in Contents
    BY <2>1, TopFacts DEF ForId, Contents
  <2>3. PICK key \in Ids \cup Slots : Awaits(Top, key) /\ ret = ContentOf(key)
    BY <2>1 DEF CallsInv, CallsLinked
  <2>4. ret = Top.key
    BY <2>1, <2>3 DEF Awaits, IsPackOffset, InFirstIndex, ContentOf
  <2>5. changes = 0 => objects.held[Top.key] = None
    BY <1>8, <2>1 DEF NotYetCached
  <2>6. BoundsInv'
    BY <1>1, <2>1, <2>2, <2>4, <2>5, CacheObjectFits
  <2>7. \A i \in Ids \ {Top.key} : objects'.held[i] \in {objects.held[i], None}
    BY <2>1, <2>2, <2>4, InsertFacts DEF CacheObject, CachesInv
  <2>8. ASSUME changes = 0
        PROVE  CallsDiffer'
    BY <1>1, <1>2, <1>8, <2>1, <2>7, <2>8, ReturnOnce
  <2> QED BY <1>5, <2>1, <2>6, <2>8
<1>15. CASE HitOffset
  <2>1. /\ stack # <<>> /\ ret = None /\ Top.step = "offset" /\ offsets.held[Top.key] # None
        /\ Return(offsets.held[Top.key]) /\ UNCHANGED caches /\ answer' = answer
    BY <1>15 DEF HitOffset, At, Return
  <2>2. UNCHANGED <<objects, offsets, trees>>
    BY <1>4, <2>1
  <2>3. ASSUME changes = 0
        PROVE  CallsDiffer'
    <3>1. CallsDiffer /\ ~Repeats(Len(stack))
      BY <1>8, <2>1, <2>3, TopFacts DEF ForSlot
    <3> QED BY <1>1, <1>2, <2>1, <2>2, <3>1, ReturnOnce
  <2> QED BY <1>4, <1>5, <2>1, <2>2, <2>3
<1>16. CASE MapPack
  <2>1. /\ stack # <<>> /\ ret = None /\ Top.step = "offset" /\ offsets.held[Top.key] = None
        /\ GoTo("read") /\ UNCHANGED caches /\ answer' = answer
    BY <1>16 DEF MapPack, At, GoTo
  <2>2. UNCHANGED <<objects, offsets, trees>>
    BY <1>4, <2>1
  <2>3. "read" \in Steps /\ NotYetCached("read", Top.key)
    BY <2>1 DEF Steps, NotYetCached
  <2>4. ASSUME changes = 0
        PROVE  CallsDiffer'
    BY <1>1, <1>2, <1>8, <2>1, <2>2, <2>3, <2>4, GoToOnce
  <2> QED BY <1>4, <1>5, <2>1, <2>2, <2>4
<1>17. CASE ReadFull
  <2> DEFINE content == repo.slots[Top.key].object
  <2>1. /\ stack # <<>> /\ ret = None /\ Top.step = "read" /\ repo.slots[Top.key].form = "full"
        /\ CacheOffset(Top.key, content) /\ Return(content)
        /\ UNCHANGED <<objects, trees, commits>> /\ answer' = answer
    BY <1>17 DEF ReadFull, At, Return
  <2>2. Top.key \in Slots
    BY <2>1, TopFacts DEF ForSlot
  <2>3. content \in Contents /\ content = ContentOf(Top.key)
    BY <1>2, <2>1, <2>2, SlotFacts, ContentOfId DEF ContentOf
  <2> HIDE DEF content
  <2>4. changes = 0 => offsets.held[Top.key] = None
    BY <1>8, <2>1 DEF NotYetCached
  <2>5. BoundsInv'
    BY <1>1, <2>1, <2>2, <2>3, <2>4, CacheOffsetFits
  <2>6. \A s \in Slots \ {Top.key} : offsets'.held[s] \in {offsets.held[s], None}
    BY <2>1, <2>2, <2>3, InsertFacts DEF CacheOffset, CachesInv
  <2>7. ASSUME changes = 0
        PROVE  CallsDiffer'
    <3>1. ~IsDelta(Top.key)
      BY <2>1 DEF IsDelta
    <3>2. CallsDiffer /\ ~Repeats(Len(stack))
      BY <1>8, <2>1, <2>2, <2>7, <3>1
    <3> QED BY <1>1, <1>2, <2>1, <2>6, <3>2, ReturnOnce
  <2> QED BY <1>5, <2>1, <2>5, <2>7
<1>18. CASE ReadDelta
  <2>1. /\ stack # <<>> /\ ret = None /\ Top.step = "read" /\ IsDelta(Top.key) /\ ret' = ret
        /\ InDepth(NextDepth(Top.key, Top.depth))
        /\ Await("base", BaseKey(Top.key), NextDepth(Top.key, Top.depth))
        /\ UNCHANGED caches
    BY <1>18 DEF ReadDelta, At
  <2>2. Top.key \in Slots /\ Top.depth \in 0..MaxDeltaDepth
    BY <2>1, TopFacts DEF ForSlot
  <2>3. BaseKey(Top.key) \in Ids \cup Slots
    BY <1>2, <2>1, <2>2, SlotFacts
  <2>4. NextDepth(Top.key, Top.depth) \in 0..MaxDeltaDepth
    BY <2>1, <2>2, BoundsAssumption DEF InDepth, NextDepth, BoundsAssumption
  <2>5. UNCHANGED <<objects, offsets, trees>> /\ answer' = answer
    BY <1>4, <2>1 DEF Await
  <2>6. ASSUME changes = 0
        PROVE  CallsDiffer'
    <3>1. CallsDiffer /\ NotYetCached("base", Top.key)
      BY <1>8, <2>1, <2>6 DEF NotYetCached
    <3>2. "base" \in Waiting /\ Top.step \in ForSlot /\ "base" \notin ForId
      BY <2>1 DEF Waiting, ForId, ForSlot
    <3>3. \A frame : frame.step = "base" /\ frame.key = Top.key => Awaits(frame, BaseKey(Top.key))
      BY <2>1 DEF Awaits
    <3> QED BY <1>1, <1>2, <2>1, <2>3, <2>4, <2>5, <3>1, <3>2, <3>3, AwaitOnce
  <2> QED BY <1>4, <1>5, <2>1, <2>5, <2>6
<1>19. CASE ApplyDelta
  <2> DEFINE content == ApplyPackDelta(Top.key, ret)
  <2>1. /\ stack # <<>> /\ ret # None /\ Top.step = "base"
        /\ CacheOffset(Top.key, content) /\ Return(content)
        /\ UNCHANGED <<objects, trees, commits>> /\ answer' = answer
    BY <1>19 DEF ApplyDelta, BackIn, Return
  <2>2. Top.key \in Slots
    BY <2>1, TopFacts DEF ForSlot
  <2>3. PICK key \in Ids \cup Slots : Awaits(Top, key) /\ ret = ContentOf(key)
    BY <2>1 DEF CallsInv, CallsLinked
  <2>4. IsDelta(Top.key) /\ ret = ContentOf(BaseKey(Top.key))
    BY <2>1, <2>3 DEF Awaits
  <2>5. MadeAgainst(Top.key) = ret /\ repo.slots[Top.key].object \in Ids
    BY <1>2, <2>2, <2>4, SlotFacts
  <2>6. content \in Contents /\ content = ContentOf(Top.key)
    BY <2>2, <2>5, ContentOfId DEF ApplyPackDelta, ContentOf
  <2> HIDE DEF content
  <2>7. changes = 0 => offsets.held[Top.key] = None
    BY <1>8, <2>1 DEF NotYetCached
  <2>8. BoundsInv'
    BY <1>1, <2>1, <2>2, <2>6, <2>7, CacheOffsetFits
  <2>9. \A s \in Slots \ {Top.key} : offsets'.held[s] \in {offsets.held[s], None}
    BY <2>1, <2>2, <2>6, InsertFacts DEF CacheOffset, CachesInv
  <2>10. ASSUME changes = 0
         PROVE  CallsDiffer'
    BY <1>1, <1>2, <1>8, <2>1, <2>9, <2>10, ReturnOnce
  <2> QED BY <1>5, <2>1, <2>8, <2>10
<1>20. CASE Finish \/ WrongKind
  <2>1. /\ Returned /\ stack' = stack /\ answer' \in {ret, NotTree, Failed}
        /\ UNCHANGED <<objects, offsets>>
    BY <1>20 DEF Finish, WrongKind, caches
  <2>2. stack = <<>> /\ ask # None /\ answer = None /\ ret # None /\ ret = ask.id /\ ask.id \in Ids
    BY <2>1 DEF Returned, CallsInv, CallsLinked, Request
  <2>3. answer' # None
    BY <1>3, <2>1, <2>2
  <2>4. BoundsInv'
    <3>1. CASE WrongKind
      BY <1>4, <3>1 DEF WrongKind
    <3>2. CASE Finish /\ ask.op = "commit"
      BY <1>1, <2>1, <2>2, <3>2, CacheCommitFits DEF Finish
    <3>3. CASE Finish /\ ask.op = "entries"
      <4>1. trees.held[ask.id] = None
        BY <2>2, <3>3 DEF InsertedOnce
      <4> QED BY <1>1, <2>1, <2>2, <3>3, <4>1, CacheTreeFits DEF Finish
    <3>4. CASE Finish /\ ask.op \notin {"commit", "entries"}
      BY <1>4, <2>1, <3>4 DEF Finish, caches
    <3> QED BY <1>20, <3>1, <3>2, <3>3, <3>4
  <2> QED BY <1>6, <2>1, <2>2, <2>3, <2>4
<1> QED
  BY <1>9, <1>10, <1>11, <1>12, <1>13, <1>14, <1>15, <1>16, <1>17, <1>18, <1>19, <1>20
  DEF Read, ReadStep

(* Asking, forking and the other processes keep them too: a fork starts    *)
(* with empty caches, and is only made when no call is under way.          *)
LEMMA OthersKeepBounds ==
  ASSUME CallsInv, CachesInv, OthersInv, BoundsInv, InsertedOnce,
         \/ \E op \in Ops, id \in Ids : AskRemembered(op, id) \/ AskObject(op, id)
         \/ Fork
         \/ \E pack \in Packs : DeletePack(pack)
         \/ \E id \in Ids : DeleteLoose(id) \/ WriteLoose(id)
  PROVE  BoundsInv' /\ InsertedOnce'
<1>1. ASSUME NEW op \in Ops, NEW id \in Ids, AskRemembered(op, id) \/ AskObject(op, id)
      PROVE  BoundsInv' /\ InsertedOnce'
  <2>1. /\ Idle /\ ret' = ret /\ ask' = [op |-> op, id |-> id]
        /\ UNCHANGED <<repo, loose, changes, caches>> /\ UNCHANGED caches
    BY <1>1 DEF AskRemembered, AskObject, Ask, disk
  <2>2. stack = <<>> /\ ret = None
    BY <2>1 DEF Idle, CallsInv, CallsLinked
  <2>3. BoundsInv' /\ trees' = trees
    BY <2>1, BoundsUnchanged DEF caches
  <2>4. CASE AskRemembered(op, id)
    <3>1. stack' = <<>> /\ answer' # None
      BY <2>2, <2>4 DEF AskRemembered
    <3> QED BY <2>3, <3>1 DEF InsertedOnce, CallsDiffer
  <2>5. CASE AskObject(op, id)
    <3>1. stack' = <<Call(id, 0)>> /\ Remembered(op, id) = None
      BY <2>5 DEF AskObject
    <3>2. DOMAIN stack' = {1} /\ stack'[1].step \in {"object", "offset"}
      BY <3>1 DEF Call
    <3>3. CallsDiffer'
      <4>1. NotYetCached(stack[1].step, stack[1].key)' /\ ~Repeats(1)'
        BY <3>2 DEF NotYetCached, Repeats
      <4> QED BY <3>2, <4>1 DEF CallsDiffer
    <3>4. ask'.op = "entries" => trees'.held[ask'.id] = None
      BY <2>1, <2>3, <3>1 DEF Remembered
    <3> QED BY <2>3, <3>3, <3>4 DEF InsertedOnce
  <2> QED BY <1>1, <2>4, <2>5
<1>2. CASE Fork
  <2>1. /\ Idle /\ UNCHANGED <<repo, loose, changes, stack, ret, ask, answer>>
        /\ objects' = EmptyCache(Ids) /\ offsets' = EmptyCache(Slots) /\ trees' = EmptyCache(Ids)
        /\ commits' = [i \in Ids |-> None]
    BY <1>2 DEF Fork, disk, request
  <2>2. stack = <<>>
    BY <2>1 DEF Idle, CallsInv, CallsLinked
  <2>3. /\ MaxObjects \in Nat /\ MaxObjectBytes \in Nat /\ MaxTrees \in Nat /\ MaxTreeBytes \in Nat
        /\ MaxCommits \in Nat
    BY BoundsAssumption DEF BoundsAssumption
  <2>4. {i \in Ids : commits'[i] # None} = {}
    BY <2>1
  <2>5. /\ FitsIn(objects', MaxObjects, MaxObjectBytes) /\ Total(objects') = objects'.bytes
        /\ FitsIn(offsets', MaxObjects, MaxObjectBytes) /\ Total(offsets') = offsets'.bytes
        /\ FitsIn(trees', MaxTrees, MaxTreeBytes) /\ Total(trees') = trees'.bytes
    BY <2>1, <2>3, EmptyFits
  <2>6. IsFiniteSet({i \in Ids : commits'[i] # None}) /\ Cardinality({i \in Ids : commits'[i] # None}) <= MaxCommits
    BY <2>3, <2>4, FS_EmptySet
  <2>7. BoundsInv'
    BY <2>5, <2>6 DEF BoundsInv, FitsIn
  <2>8. InsertedOnce'
    BY <2>1, <2>2 DEF InsertedOnce, CallsDiffer, Idle
  <2> QED BY <2>7, <2>8
<1>3. CASE \/ \E pack \in Packs : DeletePack(pack)
           \/ \E id \in Ids : DeleteLoose(id) \/ WriteLoose(id)
  <2>1. UNCHANGED caches /\ UNCHANGED <<ask, answer>> /\ changes' = changes + 1
    BY <1>3 DEF DeletePack, DeleteLoose, WriteLoose, Changed
  <2>2. changes' # 0
    BY <2>1, BoundsAssumption DEF OthersInv, BoundsAssumption
  <2>3. BoundsInv' /\ trees' = trees
    BY <2>1, <2>2, BoundsUnchanged DEF caches
  <2> QED BY <2>1, <2>2, <2>3 DEF InsertedOnce
<1> QED BY <1>1, <1>2, <1>3

-----------------------------------------------------------------------------
LEMMA StoreParts ==
  StoreInv <=> /\ CallsInv /\ CachesInv /\ OthersInv
               /\ BoundsInv /\ InsertedOnce
               /\ WithinReach /\ ReadableIsFound
BY Parts, BoundsParts DEF StoreInv

LEMMA InitStoreInv == Init => StoreInv
<1> SUFFICES ASSUME Init PROVE StoreInv
  OBVIOUS
<1>1. CallsInv /\ CachesInv /\ OthersInv
  BY InitInv, Parts
<1>2. /\ MaxObjects \in Nat /\ MaxObjectBytes \in Nat /\ MaxTrees \in Nat /\ MaxTreeBytes \in Nat
      /\ MaxCommits \in Nat
  BY BoundsAssumption DEF BoundsAssumption
<1>3. {i \in Ids : commits[i] # None} = {}
  BY DEF Init
<1>4. /\ FitsIn(objects, MaxObjects, MaxObjectBytes) /\ Total(objects) = objects.bytes
      /\ FitsIn(offsets, MaxObjects, MaxObjectBytes) /\ Total(offsets) = offsets.bytes
      /\ FitsIn(trees, MaxTrees, MaxTreeBytes) /\ Total(trees) = trees.bytes
  BY <1>2, EmptyFits DEF Init
<1>5. BoundsInv
  BY <1>2, <1>3, <1>4, FS_EmptySet DEF BoundsInv
<1>6. InsertedOnce /\ WithinReach /\ ReadableIsFound
  BY DEF Init, InsertedOnce, CallsDiffer, WithinReach, ReadableIsFound
<1> QED BY <1>1, <1>5, <1>6, StoreParts

LEMMA StepStoreInv == StoreInv /\ [Next]_vars => StoreInv'
<1> SUFFICES ASSUME StoreInv, [Next]_vars PROVE StoreInv'
  OBVIOUS
<1>1. /\ CallsInv /\ CachesInv /\ OthersInv
      /\ BoundsInv /\ InsertedOnce
      /\ WithinReach /\ ReadableIsFound
  BY StoreParts
<1>2. IInv'
  BY StepInv DEF StoreInv
<1>3. BoundsInv' /\ InsertedOnce' /\ WithinReach' /\ ReadableIsFound'
  <2>1. CASE Read
    BY <1>1, <2>1, ReadKeepsBounds, ReadKeepsReach
  <2>2. CASE \/ \E op \in Ops, id \in Ids : AskRemembered(op, id) \/ AskObject(op, id)
             \/ Fork
             \/ \E pack \in Packs : DeletePack(pack)
             \/ \E id \in Ids : DeleteLoose(id) \/ WriteLoose(id)
    BY <1>1, <2>2, OthersKeepBounds, OthersKeepReach
  <2>3. CASE UNCHANGED vars
    <3>1. UNCHANGED <<repo, loose, present, changes, mapped, objects, offsets, trees, commits,
                      stack, ret, ask, due, asked, answer>>
      BY <2>3 DEF vars, disk, caches, request
    <3>2. BoundsInv'
      BY <1>1, <3>1, BoundsUnchanged DEF caches
    <3>3. InsertedOnce'
      BY <1>1, <3>1 DEF InsertedOnce, CallsDiffer, NotYetCached, IsLooseFile, Repeats
    <3>4. ReadableIsFound'
      BY <1>1, <3>1 DEF ReadableIsFound
    <3>5. WithinReach'
      <4>1. \A n \in 0..MaxDeltaDepth : Reachable[n] \subseteq Reachable'[n]
        BY <3>1, ReachableGrows
      <4>2. (\A id, slot : IsPackOffset(id, slot)' <=> IsPackOffset(id, slot)) /\ Top' = Top
        BY <3>1, LookupsUnchanged DEF Top
      <4> QED BY <1>1, <3>1, <4>1, <4>2, TopWithinReach DEF WithinReach
    <3> QED BY <3>2, <3>3, <3>4, <3>5
  <2> QED BY <2>1, <2>2, <2>3 DEF Next, Dropped
<1>4. BoundsInv' => CachesBounded' /\ CountsFit'
  BY <1>2, Parts, BoundsParts, PTL
<1> QED BY <1>2, <1>3, <1>4 DEF StoreInv

(* The whole of the invariant holds in every state. *)
THEOREM StoreInvHolds == Spec => []StoreInv
<1> QED BY InitStoreInv, StepStoreInv, PTL DEF Spec

(* No cache ever exceeds its bounds, but by a single object larger than    *)
(* them, and what is counted is what is held, whatever deltas there are.   *)
THEOREM CachesStayBounded == Spec => []CachesBounded
<1>1. StoreInv => CachesBounded
  BY DEF StoreInv
<1> QED BY <1>1, StoreInvHolds, PTL

(* An object that could be read when it was asked for, and from which      *)
(* nothing is deleted while it is read, is found: through deltas up to the *)
(* limit, from packs whose files are gone but mapped, out of caches filled *)
(* by whatever was read before.                                            *)
THEOREM ReadableObjectsAreFound == Spec => []ReadableIsFound
<1>1. StoreInv => ReadableIsFound
  BY DEF StoreInv
<1> QED BY <1>1, StoreInvHolds, PTL
=============================================================================
