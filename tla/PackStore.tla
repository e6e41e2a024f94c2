------------------------------- MODULE PackStore -------------------------------
(***************************************************************************)
(* The object store of the pack backend (RawGitStore, src/pack/store.rs).  *)
(*                                                                         *)
(* A store takes a snapshot of the pack indexes and of the directories of  *)
(* loose objects when it is opened, and then reads objects from files that *)
(* other git processes may add or delete.  An object in a pack may be a    *)
(* delta against another slot of the pack or against any object named by   *)
(* its id, so reading is recursive: stack is the call stack, its frames    *)
(* are calls for an id (find_object_at_delta_depth) or for a slot of a     *)
(* pack (find_pack_object_at_depth).  What is read is kept in four caches, *)
(* each emptied as a whole when it would exceed its bounds.                *)
(*                                                                         *)
(* An object's content is the object's id: two contents are the same       *)
(* exactly when git gives them the same name.                              *)
(***************************************************************************)
EXTENDS Naturals, Sequences, FiniteSets, Functions

CONSTANTS
  Ids,              \* ids of the objects
  Garbage,          \* the bytes a delta yields on anything but its own base
  None, Failed,     \* no content; the answer of a call that returned Err
  NotTree,          \* the answer Ok(None) for a child of what is not a tree
  Packs,            \* the packs, numbered in the order of the indexes
  Offsets,          \* offsets in a pack
  Kind, Size,       \* kind and length of each content
  Repositories,     \* object directories the store may be opened on
  MaxDeltaDepth,    \* MAX_PACK_DELTA_DEPTH
  MaxObjects, MaxObjectBytes,   \* bounds of the object and the offset cache
  MaxCommits,                   \* MAX_COMMIT_CACHE_ENTRIES
  MaxTrees, MaxTreeBytes,       \* bounds of the tree cache
  MaxAsks, MaxChanges           \* bounds of the model: calls, changes of files

Contents == Ids \cup {Garbage}
Slots == Packs \X Offsets

(* raw_commit, raw_commit_subject, tree_entries, find_tree_child_entry.    *)
Ops == {"commit", "subject", "entries", "child"}
Request == [op : Ops, id : Ids]

Forms == {"full", "offset", "id", "broken"}

(* A slot holds an object in full, as a delta against an earlier offset or *)
(* against an id, or bytes that cannot be read; the index of the pack      *)
(* lists it for its object, or not at all.                                 *)
Entry == [object : Ids \cup {None}, form : Forms, base : Offsets \cup Ids \cup {None}]
Repository ==
  [ slots : [Slots -> Entry], loose : SUBSET Ids, corrupt : SUBSET Ids,
    visible : SUBSET Ids ]   \* visible: ids whose directory existed at opening

ASSUME ContentAssumption ==
  /\ None \notin Contents /\ Failed \notin Contents /\ NotTree \notin Contents
  /\ None # Failed /\ None # NotTree /\ Failed # NotTree
  /\ Garbage \notin Ids /\ None \notin Request
  /\ Ids \cap Slots = {}
  /\ Kind \in [Contents -> {"commit", "tree", "other"}]
  /\ Size \in [Contents -> Nat]
ASSUME PackAssumption ==
  /\ Packs \subseteq Nat
  /\ Offsets \subseteq Nat
  /\ Repositories \subseteq Repository
  /\ \A r \in Repositories : \A s \in Slots :
       /\ r.slots[s].form # "broken" => r.slots[s].object \in Ids
       /\ r.slots[s].form = "offset" => r.slots[s].base \in Offsets
       /\ r.slots[s].form = "offset" => r.slots[s].base <= s[2]
       /\ r.slots[s].form = "id" => r.slots[s].base \in Ids
ASSUME BoundsAssumption ==
  /\ MaxDeltaDepth \in Nat
  /\ MaxObjects \in Nat \ {0} /\ MaxObjectBytes \in Nat
  /\ MaxCommits \in Nat \ {0}
  /\ MaxTrees \in Nat \ {0} /\ MaxTreeBytes \in Nat
  /\ MaxAsks \in Nat /\ MaxChanges \in Nat

VARIABLES
  repo,       \* the object directory as it was at opening; never changes
  loose,      \* the loose object files there are now
  present,    \* the pack files there are now
  mapped,     \* pack_maps: the packs that have been mapped
  objects,    \* object_cache, object_cache_bytes
  offsets,    \* offset_cache, offset_cache_bytes
  trees,      \* tree_entries_cache, tree_entries_cache_bytes
  commits,    \* commit_cache
  stack,      \* the calls under way, the innermost last
  ret,        \* what the last call that ended returned to its caller
  ask,        \* the last request: [op, id]
  answer,     \* its answer, None as long as it is worked on
  due,        \* auxiliary: the object was within reach when it was asked for
              \* and since then no file has been deleted and none
              \* written that cannot be read
  asked, changes   \* requests and changes of files so far

disk == <<loose, present, changes>>
caches == <<objects, offsets, trees, commits>>
request == <<ask, due, asked>>
vars == <<repo, disk, mapped, caches, stack, ret, request, answer>>

-----------------------------------------------------------------------------
(* Caches. *)
EmptyCache(Keys) == [held |-> [k \in Keys |-> None], bytes |-> 0]
Held(cache) == {k \in DOMAIN cache.held : cache.held[k] # None}

CacheNeedsReset(cache, incoming, maxEntries, maxBytes) ==
  \/ Cardinality(Held(cache)) >= maxEntries
  \/ cache.bytes + incoming > maxBytes

(* Mutant of Insert: the counted bytes survive the reset. *)
Insert_KeepsBytes(cache, key, content, maxEntries, maxBytes) ==
  LET kept == IF CacheNeedsReset(cache, Size[content], maxEntries, maxBytes)
              THEN [EmptyCache(DOMAIN cache.held) EXCEPT !.bytes = cache.bytes]
              ELSE cache
  IN  [ held |-> [kept.held EXCEPT ![key] = content], bytes |-> kept.bytes + Size[content] ]

Insert(cache, key, content, maxEntries, maxBytes) ==
  LET kept == IF CacheNeedsReset(cache, Size[content], maxEntries, maxBytes)
              THEN EmptyCache(DOMAIN cache.held) ELSE cache
  IN  [ held |-> [kept.held EXCEPT ![key] = content], bytes |-> kept.bytes + Size[content] ]

CacheObject(id, content) ==
  objects' = Insert(objects, id, content, MaxObjects, MaxObjectBytes)
CacheOffset(slot, content) ==
  offsets' = Insert(offsets, slot, content, MaxObjects, MaxObjectBytes)
CacheTree(id, content) ==
  trees' = Insert(trees, id, content, MaxTrees, MaxTreeBytes)
CacheCommit(id, content) ==
  LET full == Cardinality({i \in Ids : commits[i] # None}) >= MaxCommits
      kept == IF full THEN [i \in Ids |-> None] ELSE commits
  IN  commits' = [kept EXCEPT ![id] = content]

-----------------------------------------------------------------------------
(* Packs. *)
IsDelta(slot) == repo.slots[slot].form \in {"offset", "id"}

(* The base of a delta: a slot of the same pack, or an id. *)
BaseKey(slot) ==
  IF repo.slots[slot].form = "offset"
  THEN <<slot[1], repo.slots[slot].base>> ELSE repo.slots[slot].base

(* What a call for an id or for a slot is to return. *)
ContentOf(key) == IF key \in Slots THEN repo.slots[key].object ELSE key

(* The object git made a delta against. *)
MadeAgainst(slot) ==
  IF repo.slots[slot].form = "offset"
  THEN repo.slots[<<slot[1], repo.slots[slot].base>>].object ELSE repo.slots[slot].base

ApplyPackDelta(slot, base) ==
  IF base = MadeAgainst(slot) THEN repo.slots[slot].object ELSE Garbage

(* The slot the indexes give for an id: the one at which the first index   *)
(* that lists it has it, the same whenever it is looked up.                *)
InFirstIndex(id) ==
  {slot \in Slots :
     /\ repo.slots[slot].object = id
     /\ \A other \in Slots : repo.slots[other].object = id => slot[1] <= other[1]}
IsPackOffset(id, slot) ==
  slot \in InFirstIndex(id) /\ slot = CHOOSE s \in InFirstIndex(id) : TRUE

(* Mutant of HasPack: a mapped pack is opened again. *)
HasPack_Reopens(pack) == pack \in present
HasPack(pack) == pack \in mapped \/ pack \in present

(* A directory of loose objects made since the opening is not looked at. *)
IsLooseFile(id) == id \in repo.visible /\ id \in loose

(* Mutant of NextDepth: the depth starts again at a base named by its id. *)
NextDepth_PerPack(slot, depth) == IF repo.slots[slot].form = "id" THEN 0 ELSE depth + 1
NextDepth(slot, depth) == depth + 1

(* Mutants of InDepth: one delta more, or one less, is followed. *)
InDepth_OneMore(depth) == depth <= MaxDeltaDepth + 1
InDepth_OneLess(depth) == depth < MaxDeltaDepth
InDepth(depth) == depth <= MaxDeltaDepth

(* The ids and slots that can be read with at most n deltas, caches aside. *)
Reachable[n \in 0..MaxDeltaDepth] ==
  LET slots == {s \in Slots :
                  /\ s[1] \in mapped \cup present
                  /\ \/ repo.slots[s].form = "full"
                     \/ IsDelta(s) /\ n > 0 /\ BaseKey(s) \in Reachable[n - 1]}
      files == {i \in Ids : IsLooseFile(i) /\ i \notin repo.corrupt}
      packed == {i \in Ids : ~IsLooseFile(i) /\ \E s \in slots : IsPackOffset(i, s)}
  IN  slots \cup files \cup packed

-----------------------------------------------------------------------------
(* Calls: step is how far a frame's call has come.                         *)
(*   for an id:   "object"  to look into object_cache                      *)
(*                "loose"   path.is_file() was true, to open the file      *)
(*                "index"   there was no file, to look into the indexes    *)
(*                "packed"  waiting for the call for its slot              *)
(*   for a slot:  "offset"  to look into offset_cache                      *)
(*                "read"    to map the pack and read the slot              *)
(*                "base"    waiting for the call for the base              *)
Steps == {"object", "loose", "index", "packed", "offset", "read", "base"}
Frame == [step : Steps, key : Ids \cup Slots, depth : 0..MaxDeltaDepth]

Call(key, depth) ==
  [step |-> IF key \in Slots THEN "offset" ELSE "object", key |-> key, depth |-> depth]

Top == stack[Len(stack)]
Idle == ask = None \/ answer # None
At(step) == stack # <<>> /\ ret = None /\ Top.step = step
BackIn(step) == stack # <<>> /\ ret # None /\ Top.step = step

GoTo(step) ==
  /\ stack' = [stack EXCEPT ![Len(stack)].step = step]
  /\ UNCHANGED <<ret, answer>>
Await(step, key, depth) ==
  /\ stack' = Append([stack EXCEPT ![Len(stack)].step = step], Call(key, depth))
  /\ UNCHANGED <<answer>>
Return(content) ==
  /\ stack' = SubSeq(stack, 1, Len(stack) - 1)
  /\ ret' = content
  /\ UNCHANGED answer

(* An error ends all the calls; the store can be used again.               *)
Fail ==
  /\ stack' = <<>>
  /\ ret' = None
  /\ answer' = Failed
  /\ UNCHANGED <<mapped, caches>>

Init ==
  /\ repo \in Repositories
  /\ loose = repo.loose
  /\ present = Packs
  /\ mapped = {}
  /\ objects = EmptyCache(Ids)
  /\ offsets = EmptyCache(Slots)
  /\ trees = EmptyCache(Ids)
  /\ commits = [i \in Ids |-> None]
  /\ stack = <<>>
  /\ ret = None
  /\ ask = None
  /\ answer = None
  /\ due = FALSE
  /\ asked = 0
  /\ changes = 0

(* What the commit cache or the tree cache has for a request. *)
Remembered(op, id) ==
  CASE op = "commit" -> commits[id]
    [] op = "entries" -> trees.held[id]
    [] OTHER -> None

Ask(op, id) ==
  /\ Idle
  /\ asked < MaxAsks
  /\ asked' = asked + 1
  /\ ask' = [op |-> op, id |-> id]
  /\ due' = (id \in Reachable[MaxDeltaDepth])
  /\ UNCHANGED <<repo, disk, mapped, caches, ret>>

AskRemembered(op, id) ==
  /\ Ask(op, id)
  /\ Remembered(op, id) # None
  /\ answer' = Remembered(op, id)
  /\ UNCHANGED stack

AskObject(op, id) ==
  /\ Ask(op, id)
  /\ Remembered(op, id) = None
  /\ answer' = None
  /\ stack' = <<Call(id, 0)>>

HitObject ==
  /\ At("object")
  /\ objects.held[Top.key] # None
  /\ Return(objects.held[Top.key])
  /\ UNCHANGED <<mapped, caches>>

LookForFile ==
  /\ At("object")
  /\ objects.held[Top.key] = None
  /\ GoTo(IF IsLooseFile(Top.key) THEN "loose" ELSE "index")
  /\ UNCHANGED <<mapped, caches>>

(* Between is_file and open the file may have been deleted. *)
ReadLoose ==
  /\ At("loose")
  /\ Top.key \in loose \ repo.corrupt
  /\ CacheObject(Top.key, Top.key)
  /\ Return(Top.key)
  /\ UNCHANGED <<mapped, offsets, trees, commits>>

(* Mutant of LooseFails: a file that cannot be read is tried again. *)
LooseFails_Retry ==
  /\ At("loose")
  /\ Top.key \notin loose \ repo.corrupt
  /\ GoTo("object")
  /\ UNCHANGED <<mapped, caches>>

LooseFails ==
  /\ At("loose")
  /\ Top.key \notin loose \ repo.corrupt
  /\ Fail

GoToPack ==
  /\ At("index")
  /\ \E slot \in Slots :
       /\ IsPackOffset(Top.key, slot)
       /\ Await("packed", slot, Top.depth)
  /\ UNCHANGED <<ret, mapped, caches>>

NotFound ==
  /\ At("index")
  /\ ~\E slot \in Slots : IsPackOffset(Top.key, slot)
  /\ Fail

(* load_object_at_delta_depth has returned: the object enters the cache.   *)
TakePacked ==
  /\ BackIn("packed")
  /\ CacheObject(Top.key, ret)
  /\ Return(ret)
  /\ UNCHANGED <<mapped, offsets, trees, commits>>

HitOffset ==
  /\ At("offset")
  /\ offsets.held[Top.key] # None
  /\ Return(offsets.held[Top.key])
  /\ UNCHANGED <<mapped, caches>>

(* The pack is mapped on first use, and stays so when git deletes it. *)
MapPack ==
  /\ At("offset")
  /\ offsets.held[Top.key] = None
  /\ HasPack(Top.key[1])
  /\ mapped' = mapped \cup {Top.key[1]}
  /\ GoTo("read")
  /\ UNCHANGED caches

MapFails ==
  /\ At("offset")
  /\ offsets.held[Top.key] = None
  /\ ~HasPack(Top.key[1])
  /\ Fail

ReadFull ==
  /\ At("read")
  /\ repo.slots[Top.key].form = "full"
  /\ CacheOffset(Top.key, repo.slots[Top.key].object)
  /\ Return(repo.slots[Top.key].object)
  /\ UNCHANGED <<mapped, objects, trees, commits>>

ReadDelta ==
  /\ At("read")
  /\ IsDelta(Top.key)
  /\ InDepth(NextDepth(Top.key, Top.depth))
  /\ Await("base", BaseKey(Top.key), NextDepth(Top.key, Top.depth))
  /\ UNCHANGED <<ret, mapped, caches>>

ReadFails ==
  /\ At("read")
  /\ \/ repo.slots[Top.key].form = "broken"
     \/ IsDelta(Top.key) /\ ~InDepth(NextDepth(Top.key, Top.depth))
  /\ Fail

ApplyDelta ==
  /\ BackIn("base")
  /\ CacheOffset(Top.key, ApplyPackDelta(Top.key, ret))
  /\ Return(ApplyPackDelta(Top.key, ret))
  /\ UNCHANGED <<mapped, objects, trees, commits>>

KindFor(op) == IF op \in {"commit", "subject"} THEN "commit" ELSE "tree"

(* The outermost call has returned; the request is answered. *)
Returned == ask # None /\ answer = None /\ stack = <<>> /\ ret # None

Finish ==
  /\ Returned
  /\ Kind[ret] = KindFor(ask.op)
  /\ IF ask.op = "commit" THEN CacheCommit(ask.id, ret) ELSE UNCHANGED commits
  /\ IF ask.op = "entries" THEN CacheTree(ask.id, ret) ELSE UNCHANGED trees
  /\ answer' = ret
  /\ ret' = None
  /\ UNCHANGED <<stack, mapped, objects, offsets>>

WrongKind ==
  /\ Returned
  /\ Kind[ret] # KindFor(ask.op)
  /\ answer' = IF ask.op = "child" THEN NotTree ELSE Failed
  /\ ret' = None
  /\ UNCHANGED <<stack, mapped, caches>>

ReadStep ==
  \/ HitObject \/ LookForFile \/ ReadLoose \/ LooseFails
  \/ GoToPack \/ NotFound \/ TakePacked
  \/ HitOffset \/ MapPack \/ MapFails
  \/ ReadFull \/ ReadDelta \/ ReadFails \/ ApplyDelta
  \/ Finish \/ WrongKind

Read == ReadStep /\ UNCHANGED <<repo, disk, request>>

(* fork_empty: a worker gets the indexes, the snapshot of the directories  *)
(* and the maps, and caches of its own.  From here on the store is its.    *)
Fork ==
  /\ Idle
  /\ asked > 0
  /\ objects' = EmptyCache(Ids)
  /\ offsets' = EmptyCache(Slots)
  /\ trees' = EmptyCache(Ids)
  /\ commits' = [i \in Ids |-> None]
  /\ UNCHANGED <<repo, disk, mapped, stack, ret, request, answer>>

(* Other git processes: gc deletes packs and loose files, a commit or a    *)
(* fetch writes loose files.                                               *)
Changed == changes < MaxChanges /\ changes' = changes + 1

DeletePack(pack) ==
  /\ Changed
  /\ pack \in present
  /\ present' = present \ {pack}
  /\ due' = FALSE
  /\ UNCHANGED <<repo, loose, mapped, caches, stack, ret, ask, asked, answer>>

DeleteLoose(id) ==
  /\ Changed
  /\ id \in loose
  /\ loose' = loose \ {id}
  /\ due' = FALSE
  /\ UNCHANGED <<repo, present, mapped, caches, stack, ret, ask, asked, answer>>

WriteLoose(id) ==
  /\ Changed
  /\ id \notin loose
  /\ loose' = loose \cup {id}
  /\ due' = (due /\ id \notin repo.corrupt)
  /\ UNCHANGED <<repo, present, mapped, caches, stack, ret, ask, asked, answer>>

(* The query is over and its store dropped. *)
Dropped == Idle /\ asked = MaxAsks /\ UNCHANGED vars

Next ==
  \/ \E op \in Ops, id \in Ids : AskRemembered(op, id) \/ AskObject(op, id)
  \/ Read
  \/ Fork
  \/ \E pack \in Packs : DeletePack(pack)
  \/ \E id \in Ids : DeleteLoose(id) \/ WriteLoose(id)
  \/ Dropped

(* The store runs on the caller's thread and never waits for anyone.       *)
Spec == Init /\ [][Next]_vars /\ WF_vars(Read)

-----------------------------------------------------------------------------
Cache(Keys) == [held : [Keys -> Contents \cup {None}], bytes : Nat]

(* Every variable has its type. *)
TypeOK ==
  /\ repo \in Repositories
  /\ loose \subseteq Ids /\ present \subseteq Packs /\ mapped \subseteq Packs
  /\ objects \in Cache(Ids) /\ offsets \in Cache(Slots) /\ trees \in Cache(Ids)
  /\ commits \in [Ids -> Contents \cup {None}]
  /\ stack \in Seq(Frame)
  /\ ret \in Contents \cup {None}
  /\ ask \in Request \cup {None}
  /\ answer \in Contents \cup {None, Failed, NotTree}
  /\ due \in BOOLEAN
  /\ asked \in 0..MaxAsks /\ changes \in 0..MaxChanges

(* Caches never hold, and requests are never answered with, anything but   *)
(* the object of that name: whatever was deleted, written or forgotten in  *)
(* between, through whichever delta chain the object was reached.          *)
RightContent ==
  /\ \A i \in Ids : {objects.held[i], trees.held[i], commits[i]} \subseteq {None, i}
  /\ \A s \in Slots : offsets.held[s] \in {None, ContentOf(s)}
  /\ ask # None => answer \in {None, Failed, NotTree, ask.id}

(* The call a frame waits for: the slot of its id, or the base of its slot. *)
Awaits(frame, key) ==
  \/ frame.step = "packed" /\ IsPackOffset(frame.key, key)
  \/ frame.step = "base" /\ IsDelta(frame.key) /\ key = BaseKey(frame.key)

ForId == {"object", "loose", "index", "packed"}
ForSlot == {"offset", "read", "base"}
Waiting == {"packed", "base"}

(* What RightContent rests on: the calls form a chain from the request     *)
(* inwards, each waiting for the next, and what a call returned is the     *)
(* content its caller waits for.                                           *)
CallsLinked ==
  /\ \A i \in DOMAIN stack :
       /\ stack[i].step \in ForId => stack[i].key \in Ids
       /\ stack[i].step \in ForSlot => stack[i].key \in Slots
       /\ i < Len(stack) => Awaits(stack[i], stack[i + 1].key)
  /\ stack # <<>> => ask # None /\ answer = None /\ stack[1].key = ask.id
  /\ stack # <<>> /\ ret = None => Top.step \notin Waiting
  /\ stack # <<>> /\ ret # None =>
       \E key \in Ids \cup Slots : Awaits(Top, key) /\ ret = ContentOf(key)
  /\ stack = <<>> /\ ret # None => ask # None /\ answer = None /\ ret = ask.id

(* The call stack is no deeper than the limit on delta chains allows, on   *)
(* whatever the packs hold: deltas that have each other or themselves for  *)
(* base, over offsets, ids or both, do not overflow it.                    *)
StackBounded == Len(stack) <= 2 * MaxDeltaDepth + 2

(* What StackBounded rests on: a call's place in the stack is bounded by   *)
(* the deltas that led to it.                                              *)
DepthInv ==
  \A i \in DOMAIN stack :
    i <= 2 * stack[i].depth + (IF stack[i].key \in Slots THEN 2 ELSE 1)

(* What every step keeps. *)
IInv == TypeOK /\ RightContent /\ CallsLinked /\ DepthInv

Total(cache) == SumFunctionOnSet([k \in Held(cache) |-> Size[cache.held[k]]], Held(cache))

WithinBounds(cache, maxEntries, maxBytes) ==
  /\ Cardinality(Held(cache)) <= maxEntries
  /\ Total(cache) <= maxBytes \/ Cardinality(Held(cache)) = 1
  /\ Total(cache) <= cache.bytes
  /\ changes = 0 => Total(cache) = cache.bytes

(* No cache exceeds its bounds, except by a single object larger than all  *)
(* of them; the counted bytes are those held, also after resets in the     *)
(* middle of a delta chain.  (A file written while a cyclic chain is being *)
(* read can make the same object enter twice: then more is counted.)       *)
CachesBounded ==
  /\ WithinBounds(objects, MaxObjects, MaxObjectBytes)
  /\ WithinBounds(offsets, MaxObjects, MaxObjectBytes)
  /\ WithinBounds(trees, MaxTrees, MaxTreeBytes)
  /\ Cardinality({i \in Ids : commits[i] # None}) <= MaxCommits

(* What CachesBounded rests on besides: a cache is within its bounds by    *)
(* what it counts, not only by what it holds.                              *)
CountsFit ==
  /\ IsFiniteSet(Held(objects)) /\ IsFiniteSet(Held(offsets)) /\ IsFiniteSet(Held(trees))
  /\ IsFiniteSet({i \in Ids : commits[i] # None})
  /\ objects.bytes <= MaxObjectBytes \/ Cardinality(Held(objects)) = 1
  /\ offsets.bytes <= MaxObjectBytes \/ Cardinality(Held(offsets)) = 1
  /\ trees.bytes <= MaxTreeBytes \/ Cardinality(Held(trees)) = 1

(* A call for the same key as one further out. *)
Repeats(i) == \E j \in 1..(i - 1) : stack[j].key = stack[i].key

(* Nothing that a call will insert, as far as it has come, is cached yet.  *)
NotYetCached(step, key) ==
  /\ step \in {"loose", "index", "packed"} => objects.held[key] = None
  /\ step \in {"read", "base"} => offsets.held[key] = None
  /\ step = "loose" => IsLooseFile(key)
  /\ step \in {"index", "packed"} => ~IsLooseFile(key)

(* The same call goes the same way, so once a key repeats, the calls only  *)
(* get deeper until one fails; calls that return are for different keys.   *)
CallsDiffer ==
  /\ \A i \in DOMAIN stack : NotYetCached(stack[i].step, stack[i].key)
  /\ stack # <<>> => \/ \A i \in DOMAIN stack : ~Repeats(i)
                     \/ ret = None /\ Repeats(Len(stack))

(* ... and as long as no file changes, so nothing is inserted twice.       *)
InsertedOnce ==
  /\ changes = 0 => CallsDiffer
  /\ ask # None /\ answer = None /\ ask.op = "entries" => trees.held[ask.id] = None

(* An object that was within reach when it was asked for is answered, not  *)
(* reported as missing, unless something was deleted meanwhile: a pack     *)
(* that is mapped serves its objects when its file is gone, files written  *)
(* meanwhile do no harm, and caches only ever shorten a delta chain.       *)
ReadableIsFound ==
  answer = Failed /\ due => Kind[ask.id] # KindFor(ask.op)

(* What ReadableIsFound rests on: the innermost call can be answered with  *)
(* the deltas it may still follow.  The calls further out only wait.       *)
WithinReach ==
  due /\ stack # <<>> /\ ret = None =>
    LET reachable == Reachable[MaxDeltaDepth - Top.depth]
    IN  /\ Top.step \in {"object", "offset", "read"} => Top.key \in reachable
        /\ Top.step = "loose" => Top.key \in loose \ repo.corrupt
        /\ Top.step = "index" => \E slot \in reachable : IsPackOffset(Top.key, slot)

(* All of this together is kept by every step. *)
StoreInv ==
  IInv /\ CachesBounded /\ CountsFit /\ InsertedOnce /\ ReadableIsFound /\ WithinReach

(* Every request is answered, whatever the packs hold. *)
Answered == (ask # None /\ answer = None) ~> answer # None

=============================================================================
